----------------------------- MODULE AutomationLog -----------------------------
(***************************************************************************)
(* automation/jobs.jsonl, the account of the gateway's scheduled work, and *)
(* its replay.  The account is append-only; what a reader knows of it is   *)
(* the projection its lines fold into, so the file is kept as that         *)
(* projection and a line as a record that Replay applies.  A line about a  *)
(* job or an occurrence the projection does not have is skipped.           *)
(***************************************************************************)
EXTENDS Naturals

CONSTANTS Jobs,    \* job ids
          Keys,    \* idempotency keys of commands
          Texts    \* what a run can answer

NoKey == "no key"
NoText == "no text"

(* An occurrence is named after its job, the revision and the planned slot. *)
OccId(j, rev, slot) == <<j, rev, slot>>
JobOf(o) == o[1]
SlotOf(o) == o[3]
Occs == Jobs \X (Nat \ {0}) \X Nat

Job == [ kind     : {"once", "interval", "cron"},
         due      : Nat,              \* once: its slot
         period   : Nat,              \* interval: slots are anchor + k * period
         anchor   : Nat,
         misfire  : {"coalesce", "skip"},
         deadline : Nat,              \* 0: none
         notify   : BOOLEAN,          \* notify_on_change, the heartbeat
         rev      : Nat \ {0},
         state    : {"active", "paused", "cancelled"},
         cursor   : Nat,              \* slots up to here are dealt with
         seen     : Texts \cup {NoText},   \* last_observed_sha
         key      : Keys \cup {NoKey} ]

(* What a command gives of a job, to create it or in parts to update it.    *)
Given == [ kind : {"once", "interval", "cron"}, due : Nat, period : Nat,
           misfire : {"coalesce", "skip"}, deadline : Nat, notify : BOOLEAN ]
Plain == [ kind |-> "once", due |-> 0, period |-> 0,
           misfire |-> "coalesce", deadline |-> 0, notify |-> FALSE ]

Outcomes == {"succeeded", "unchanged", "failed", "needs_review", "cancelled"}

Occurrence == [ state   : {"scheduled", "claimed", "settled"},
                reason  : {"schedule", "run_now"},
                missed  : Nat,        \* slots merged into this one
                attempt : Nat \ {0},
                cancel  : BOOLEAN,    \* cancel_requested
                sess    : Nat,        \* bound session, 0: none
                outcome : Outcomes \cup {"none"} ]

(* Partial functions stand for the maps of the code.                        *)
Over(f, g) == [x \in DOMAIN f \cup DOMAIN g |-> IF x \in DOMAIN f THEN f[x] ELSE g[x]]
With(f, x, v) == [y \in DOMAIN f \cup {x} |-> IF y = x THEN v ELSE f[y]]
Has(f, x) == x \in DOMAIN f
Empty == [x \in {} |-> 0]

Blank == [jobs |-> Empty, occs |-> Empty, createKeys |-> Empty, runKeys |-> Empty]

IsProjection(p) ==
  /\ DOMAIN p = {"jobs", "occs", "createKeys", "runKeys"}
  /\ DOMAIN p.jobs \subseteq Jobs /\ \A j \in DOMAIN p.jobs : p.jobs[j] \in Job
  /\ \A o \in DOMAIN p.occs : o \in Occs /\ p.occs[o] \in Occurrence
  /\ \A k \in DOMAIN p.createKeys : k \in Keys /\ p.createKeys[k] \in Jobs
  /\ \A k \in DOMAIN p.runKeys : k \in Keys /\ p.runKeys[k] \in Occs

Later(a, b) == IF b > a THEN b ELSE a
Registered(keys, k, v) == IF k = NoKey THEN keys ELSE With(keys, k, v)

NewOccurrence(reason, missed) ==
  [ state |-> "scheduled", reason |-> reason, missed |-> missed, attempt |-> 1,
    cancel |-> FALSE, sess |-> 0, outcome |-> "none" ]

-----------------------------------------------------------------------------
(* Lines that make something.  An occurrence is entered whether or not its  *)
(* job is known, and its key counts as that of a run-now request.           *)
Create(p, l) ==
  IF l.type = "job.created"
  THEN [p EXCEPT !.jobs = With(@, l.job, l.spec),
                 !.createKeys = Registered(@, l.spec.key, l.job)]
  ELSE [p EXCEPT !.occs = With(@, l.occ, NewOccurrence(l.reason, l.missed)),
                 !.runKeys = Registered(@, l.key, l.occ)]

(* Lines about a job.  An update carries the fields it changes.             *)
Resumed(b, l) == [b EXCEPT !.state = "active", !.cursor = Later(@, l.through)]

JobLine(b, l) ==
  CASE l.type = "job.updated"   -> [Over(l.patch, b) EXCEPT !.rev = l.to]
    [] l.type = "job.paused"    -> [b EXCEPT !.state = "paused"]
    [] l.type = "job.resumed"   -> Resumed(b, l)
    [] l.type = "job.cancelled" -> [b EXCEPT !.state = "cancelled"]
    [] l.type = "job.schedule_advanced" -> [b EXCEPT !.cursor = Later(@, l.through)]

(* Lines about an occurrence.                                               *)
OccLineFirst(c, l) ==   \* mutant: a replay forgets the attempts made
  CASE l.type = "occurrence.claimed" -> [c EXCEPT !.state = "claimed"]
    [] l.type = "occurrence.bound"   -> [c EXCEPT !.sess = l.sess]
    [] l.type = "occurrence.settled" -> [c EXCEPT !.state = "settled", !.outcome = l.outcome]
    [] l.type = "occurrence.merged"  -> [c EXCEPT !.missed = l.missed]
    [] l.type = "occurrence.redispatched" -> [c EXCEPT !.state = "scheduled"]
    [] OTHER                         -> [c EXCEPT !.cancel = TRUE]
OccLine(c, l) ==
  CASE l.type = "occurrence.claimed" -> [c EXCEPT !.state = "claimed", !.attempt = l.attempt]
    [] l.type = "occurrence.bound"   -> [c EXCEPT !.sess = l.sess]
    [] l.type = "occurrence.settled" -> [c EXCEPT !.state = "settled", !.outcome = l.outcome]
    [] l.type = "occurrence.merged"  -> [c EXCEPT !.missed = l.missed]
    [] l.type = "occurrence.redispatched" ->
         [c EXCEPT !.state = "scheduled", !.attempt = l.attempt]
    [] l.type = "occurrence.cancel_requested" -> [c EXCEPT !.cancel = TRUE]

(* An observation of an occurrence is kept by its job.                      *)
ObserveForgotten(p, l) == p   \* mutant: a replay does not restore last_observed_sha
Observe(p, l) ==
  IF l.update /\ Has(p.jobs, JobOf(l.occ))
  THEN [p EXCEPT !.jobs[JobOf(l.occ)].seen = l.text] ELSE p

Replay(p, l) ==
  CASE l.type \in {"job.created", "occurrence.created"} -> Create(p, l)
    [] l.type \in {"job.updated", "job.paused", "job.resumed", "job.cancelled",
                   "job.schedule_advanced"} ->
         IF Has(p.jobs, l.job) THEN [p EXCEPT !.jobs[l.job] = JobLine(@, l)] ELSE p
    [] l.type = "occurrence.observed" -> IF Has(p.occs, l.occ) THEN Observe(p, l) ELSE p
    [] OTHER -> IF Has(p.occs, l.occ) THEN [p EXCEPT !.occs[l.occ] = OccLine(@, l)] ELSE p
=============================================================================
