-------------------------------- MODULE JobLife --------------------------------
(***************************************************************************)
(* What the session ledger promises of a background job to whoever reads   *)
(* it, now or after a restart: a job is accepted, then leased, then it     *)
(* settles; it is executed at most once, under its lease; how it settled   *)
(* never changes.  The promise is off for a job that a recovery had to     *)
(* admit again.                                                            *)
(***************************************************************************)
EXTENDS Naturals

CONSTANTS Jobs, Ends   \* Ends: the ways a job can settle

VARIABLES life, runs, readmitted

Init ==
  /\ life = [j \in Jobs |-> "absent"]
  /\ runs = [j \in Jobs |-> 0]
  /\ readmitted = [j \in Jobs |-> FALSE]

Become(j, from, to) ==
  /\ life[j] \in from
  /\ life' = [life EXCEPT ![j] = to]

Accept(j) == Become(j, {"absent"}, "accepted") /\ UNCHANGED <<runs, readmitted>>

(* A lease is evidence of an execution, and no more: it may come to none.   *)
Lease(j) ==
  /\ Become(j, {"accepted"}, "leased")
  /\ runs' \in {runs, [runs EXCEPT ![j] = 1]}
  /\ UNCHANGED readmitted

(* Refused or cancelled before the lease, or ended under it.                *)
Settle(j, end) ==
  /\ Become(j, {"leased"} \cup IF end \in {"failed", "cancelled"} THEN {"accepted"} ELSE {}, end)
  /\ UNCHANGED <<runs, readmitted>>

(* Recovery completes the admission of a job: from then on nothing is       *)
(* promised of it.                                                          *)
Readmit(j) ==
  /\ readmitted' = [readmitted EXCEPT ![j] = TRUE]
  /\ UNCHANGED <<life, runs>>

Unpromised(j) ==
  /\ readmitted[j]
  /\ \A k \in Jobs \ {j} : life'[k] = life[k] /\ runs'[k] = runs[k]
  /\ UNCHANGED readmitted

Next == \E j \in Jobs : \/ Accept(j) \/ Lease(j) \/ Readmit(j) \/ Unpromised(j)
                        \/ \E end \in Ends : Settle(j, end)

vars == <<life, runs, readmitted>>

Spec == Init /\ [][Next]_vars
=============================================================================
