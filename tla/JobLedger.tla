------------------------------ MODULE JobLedger ------------------------------
(***************************************************************************)
(* What the session ledger (history.v3.jsonl) says about one tool job.     *)
(*                                                                         *)
(* The ledger is append-only and is never read but through its folds       *)
(* (FoldJobExecutions, FoldToolActions), so a job's part of it is kept     *)
(* here as the folded view, and a line is the operator that takes the view *)
(* before the append to the view after it.  Lines whose content no fold    *)
(* used by the coordinator reads (tool.result.persisted, the result files) *)
(* have no operator of their own.                                          *)
(***************************************************************************)
EXTENDS Naturals

TerminalStates == {"succeeded", "failed", "cancelled"}
JobStates == {"registered", "awaiting_approval", "queued", "running", "unknown"}
               \cup TerminalStates
ActionTerminals == {"done", "failed", "cancelled", "rejected"}
LedgerModes == {"job_handle", "native_deferred"}

View == [ reg     : BOOLEAN,                       \* tool.job.registered seen
          mode    : LedgerModes \cup {"none"},
          att     : Nat,                           \* current attempt, 0: none
          started : BOOLEAN,                       \* ... has a started line
          term    : ActionTerminals \cup {"none"}, \* ... and how it ended
          sel     : BOOLEAN,                       \* admission result selected
          msg     : BOOLEAN,                       \* admission message on chain
          disp    : Nat,                           \* tool.job.dispatched lines
          job     : JobStates \cup {"none"},       \* folded execution state
          cancel  : BOOLEAN,                       \* tool.job.cancel_requested
          obs     : Nat ]                          \* terminal tool.job.observed

EmptyView == [ reg |-> FALSE, mode |-> "none", att |-> 0, started |-> FALSE,
               term |-> "none", sel |-> FALSE, msg |-> FALSE, disp |-> 0,
               job |-> "none", cancel |-> FALSE, obs |-> 0 ]

-----------------------------------------------------------------------------
(* The order of the folded states; running and unknown share a rank.        *)
JobStateRank(s) ==
  CASE s = "awaiting_approval" -> 0
    [] s = "registered"        -> 1
    [] s = "queued"            -> 2
    [] s \in {"running", "unknown"} -> 3
    [] OTHER -> 4

(* tool.execution.* : the attempts of the action.                           *)
Pending(v, a) == [v EXCEPT !.att = a, !.started = FALSE, !.term = "none"]
Started(v)    == [v EXCEPT !.started = TRUE]
Closed(v, t)  == [v EXCEPT !.term = t]

(* tool.result.selected, the tool message with its admission to the context *)
(* chain, and a compaction that takes that message off the chain again.     *)
Selected(v)   == [v EXCEPT !.sel = TRUE]
Admitted(v)   == [v EXCEPT !.msg = TRUE]
Compacted(v)  == [v EXCEPT !.msg = FALSE]

(* tool.job.* : the execution of the job.                                   *)
Registered(v, m, ask) ==
  [v EXCEPT !.reg = TRUE, !.mode = m,
            !.job = IF ask THEN "awaiting_approval" ELSE "registered"]

Dispatched(v) ==
  [v EXCEPT !.disp = @ + 1,
            !.job = IF JobStateRank(@) < 3 THEN "running" ELSE @]

Observed(v, s) ==
  [v EXCEPT !.job = IF \/ JobStateRank(@) < JobStateRank(s) /\ JobStateRank(@) < 4
                       \/ JobStateRank(@) = 3 /\ JobStateRank(s) = 3
                    THEN s ELSE @,
            !.obs = IF s \in TerminalStates THEN @ + 1 ELSE @]

CancelRequested(v) == [v EXCEPT !.cancel = TRUE]

-----------------------------------------------------------------------------
(* PlanRecovery: what a restarted coordinator decides from the view alone;  *)
(* the order of the tests matters.                                          *)
Disposition(v) ==
  IF v.mode # "job_handle" THEN "unsupported_mode"
  ELSE IF ~v.msg THEN "admission_chain_missing"
  ELSE IF v.job = "running" /\ v.disp > 0 /\ v.term = "done"
       THEN "terminal_observation_missing"
  ELSE IF v.job \in TerminalStates \cup {"unknown"} THEN "already_terminal"
  ELSE IF v.job = "awaiting_approval" THEN "awaiting_approval"
  ELSE IF v.disp = 0 THEN "requeue"
  ELSE "unknown_hold"

(* The lines of the admission chain (WriteAdmissionChainLocked) still       *)
(* missing after v, as the views they lead to: `store` says whether the     *)
(* result file could be written, `early` stops before the tool message.     *)
AdmissionChain(v, store, early) ==
  LET s == Started(v)
      c == Closed(s, "done")
      x == Selected(c)
      m == Admitted(x)
  IN  CASE ~store            -> <<s, c>>
        [] store /\ early    -> <<s, c, x>>
        [] store /\ ~early   -> <<s, c, x, m>>
=============================================================================
