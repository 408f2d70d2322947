----------------------------- MODULE ToolJobsLife -----------------------------
(***************************************************************************)
(* The coordinator implements JobLife, whose state is read off the ledger  *)
(* alone: no crash, lost append, restart or late envelope shows in it.     *)
(***************************************************************************)
EXTENDS ToolJobs

LifeOf(v) ==
  IF ~v.reg THEN "absent"
  ELSE IF Ended(v.job) THEN v.job
  ELSE IF v.disp > 0 THEN "leased" ELSE "accepted"

Life == INSTANCE JobLife WITH
          Ends <- TerminalStates \cup {"unknown"},
          life <- [j \in Jobs |-> LifeOf(led[j])],
          runs <- execs,
          readmitted <- gap

(* Every step of the coordinator, its workers, a crash and a recovery is a  *)
(* step of the life of at most one job, or none: jobs are accepted before   *)
(* they are leased, executed at most once and under their lease, and settle *)
(* in one way for good, except those recovery admitted anew.                *)
ImplementsLife == Life!Spec
=============================================================================
