------------------------------- MODULE ToolJobs -------------------------------
(***************************************************************************)
(* ToolJobCoordinator: the host service that runs tool calls in the        *)
(* background.  One mutex serialises every interface call; a worker thread *)
(* only posts a completion envelope; whoever holds the mutex pumps the     *)
(* envelopes and is the only one to append to the session ledger.          *)
(*                                                                         *)
(* A handler is a sequence of ledger appends.  `stages` lists the views of *)
(* the job before the first and after each of them; the handler commits a  *)
(* prefix.  A short prefix is an append that failed: the V3 writer is then *)
(* broken for good and the handler returns early.  A crash between two     *)
(* appends leaves the same ledger as a failed append followed by Crash.    *)
(* Handlers that loop (the queue scan, the pump, the adoption of the       *)
(* ledger) hold the mutex across their iterations: `ctl` is the place they *)
(* have reached and no other call starts until it is idle again.           *)
(***************************************************************************)
EXTENDS JobLedger, Integers, FiniteSets, SequencesExt

CONSTANTS
  MaxJob,        \* job numbers 1..MaxJob can be issued
  Tools, ToolOf, \* the tool of each job
  Keys, KeysOf,  \* the resource keys each job serialises on
  GlobalLimit, SessionLimit, ToolLimit,  \* running quotas, 0: unlimited
  QueuedMax,     \* quota of the queue
  Kinds,         \* the ways jobs are started: subset of {"batch","early","native"}
  Deadlined,     \* the jobs whose policy has a deadline
  MaxRestarts,   \* bound: coordinators after the first
  WriterFaults,  \* may an append fail
  StoreFaults,   \* may the result store fail
  Compaction,    \* may a compaction take messages off the chain
  MaxForged,     \* bound: envelopes posted through DebugSubmitEnvelope
  MaxForeign     \* bound: running slots other sessions take

Jobs == 1 .. MaxJob

ASSUME JobsAssumption ==
  /\ MaxJob \in Nat
  /\ ToolOf \in [Jobs -> Tools]
  /\ KeysOf \in [Jobs -> SUBSET Keys]
  /\ {GlobalLimit, SessionLimit, ToolLimit, QueuedMax} \subseteq Nat
  /\ Kinds \subseteq {"batch", "early", "native"}
  /\ Deadlined \subseteq Jobs
  /\ {MaxRestarts, MaxForged, MaxForeign} \subseteq Nat
  /\ {WriterFaults, StoreFaults, Compaction} \subseteq BOOLEAN

Outcomes == TerminalStates
Envelope == [job : Jobs, epoch : Nat \ {0}, out : Outcomes]
NoEnvelope == [job |-> 0, epoch |-> 0, out |-> "none"]

(* JobRecord: the coordinator's memory of one job.                          *)
Record == [ st         : JobStates \cup {"none"},  \* none: not in `jobs`
            epoch      : Nat,       \* epoch_counter
            owner      : Nat,       \* owner_epoch, 0: no lease yet
            dispatched : BOOLEAN,
            cancelReq  : BOOLEAN,   \* cancel_requested
            admC       : BOOLEAN,   \* admission_complete
            admF       : BOOLEAN,   \* admission_facts_complete
            flag       : BOOLEAN,   \* *cancel_flag, shared with the worker
            pend       : Envelope \cup {NoEnvelope} ]  \* pending_completion

Unborn == [ st |-> "none", epoch |-> 0, owner |-> 0, dispatched |-> FALSE,
            cancelReq |-> FALSE, admC |-> FALSE, admF |-> FALSE,
            flag |-> FALSE, pend |-> NoEnvelope ]

VARIABLES
  led,        \* the ledger: a View per job
  wOk,        \* the V3 writer is not broken
  mem,        \* jobs: a Record per job
  queue,      \* FIFO of job numbers
  holder,     \* resource_holders: key -> job, 0: free
  gquota,     \* GlobalRunningQuota::running, shared with other sessions
  foreign,    \* slots of it that other sessions hold
  leaked,     \* slots of it that a destroyed coordinator never gave back
  worker,     \* epoch of the job's live worker thread, 0: none
  envelopes,  \* posted by workers, not yet taken by a pump
  incoming,   \* taken by the pump in progress
  ctl,        \* the handler in progress
  up,         \* open, closing (in the destructor) or down
  next,       \* next_job_number
  inl,        \* did the call fall back to inline execution
  restarts, forged,   \* counters of the bounds
  execs,      \* history: executor starts per job
  gap         \* history: an adoption found the job's message off the chain

ledger == <<led, wOk>>
memory == <<mem, queue, holder>>
quota  == <<gquota, foreign, leaked>>
posts  == <<worker, envelopes, incoming>>
bounds == <<restarts, forged>>
ghosts == <<execs, gap>>
vars == <<ledger, memory, quota, posts, ctl, up, next, inl, bounds, ghosts>>

Idle == [pc |-> "idle", i |-> 0, then |-> "idle", settled |-> FALSE]
Scan(then) == [pc |-> "scan", i |-> 1, then |-> then, settled |-> FALSE]
Pump == [pc |-> "pump", i |-> 0, then |-> "idle", settled |-> FALSE]

Running == {j \in Jobs : mem[j].st = "running"}
Ended(s) == s \in TerminalStates \cup {"unknown"}     \* IsTerminalJobState

Calls == up = "open" /\ ctl = Idle     \* an interface call gets the mutex

-----------------------------------------------------------------------------
(* Appending.  n is the stage the appends reach.                            *)
Reach(stages) ==
  IF ~wOk THEN {1} ELSE IF WriterFaults THEN DOMAIN stages ELSE {Len(stages)}

Commit(j, stages, n) ==
  /\ n \in Reach(stages)
  /\ led' = [led EXCEPT ![j] = stages[n]]
  /\ wOk' = (wOk /\ n = Len(stages))

All(stages, n) == n = Len(stages)

StoreOutcomes == IF StoreFaults THEN BOOLEAN ELSE {TRUE}

(* Mutant: a release that is forgotten.                                     *)
QuotaKept == gquota

(* GlobalRunningQuota::TryAcquire and Release; a limit of 0 counts nothing. *)
QuotaFree  == GlobalLimit = 0 \/ gquota < GlobalLimit
QuotaTaken == IF GlobalLimit = 0 THEN gquota ELSE gquota + 1
QuotaGiven == IF gquota > 0 THEN gquota - 1 ELSE gquota

-----------------------------------------------------------------------------
(* StartJob / StartJobEarly.  The number is consumed even by a start that   *)
(* fails.  A start whose gate denies leaves pending and rejected lines.     *)
CanStart == Calls /\ next \in Jobs /\ Len(queue) < QueuedMax

StartDenied ==
  /\ CanStart
  /\ LET p == Pending(led[next], 1)
         stages == <<led[next], p, Closed(p, "rejected")>>
     IN  \E n \in Reach(stages) : Commit(next, stages, n)
  /\ next' = next + 1
  /\ UNCHANGED <<memory, quota, posts, ctl, up, inl, bounds, ghosts>>

StartStages(j, kind, ask, store) ==
  LET p == Pending(led[j], 1)
      r == Registered(p, IF kind = "native" THEN "native_deferred"
                                            ELSE "job_handle", ask)
  IN  IF kind = "native" THEN <<led[j], p, r>>
      ELSE <<led[j], p, r>> \o AdmissionChain(r, store, kind = "early")

StartJob(kind, ask, store) ==
  /\ CanStart
  /\ kind = "early" => KeysOf[next] = {}    \* OnCallItemComplete: read-only, no keys
  /\ LET j == next
         stages == StartStages(j, kind, ask, store)
     IN \E n \in Reach(stages) :
        LET ok == All(stages, n) /\ (kind = "native" \/ store)
            st == IF ~ok THEN "registered"
                  ELSE IF ask THEN "awaiting_approval" ELSE "queued"
        IN
        /\ Commit(j, stages, n)
        /\ mem' = IF n < 3 THEN mem
                  ELSE [mem EXCEPT ![j] =
                          [Unborn EXCEPT !.st = st, !.admC = ok /\ kind = "batch",
                                         !.admF = ok /\ kind # "native"]]
        /\ queue' = IF ok /\ ~ask THEN Append(queue, j) ELSE queue
        /\ ctl' = IF ~ok THEN ctl ELSE IF ask THEN Pump ELSE Scan("pump")
        /\ inl' = IF n >= 3 /\ ~ok THEN [inl EXCEPT ![j] = "pending"] ELSE inl
  /\ next' = next + 1
  /\ UNCHANGED <<holder, quota, posts, up, bounds, ghosts>>

(* CompleteAdmission: the message an early start left for later.            *)
CompleteAdmission(j) ==
  /\ Calls
  /\ mem[j].st # "none" /\ mem[j].admF /\ ~mem[j].admC
  /\ LET stages == <<led[j], Admitted(led[j])>>
     IN \E n \in Reach(stages) :
        /\ Commit(j, stages, n)
        /\ mem' = [mem EXCEPT ![j].admC = All(stages, n)]
  /\ UNCHANGED <<queue, holder, quota, posts, ctl, up, next, inl, bounds, ghosts>>

GrantApproval(j) ==
  /\ Calls
  /\ mem[j].st = "awaiting_approval"
  /\ mem' = [mem EXCEPT ![j].st = "queued"]
  /\ queue' = Append(queue, j)
  /\ ctl' = Scan("idle")
  /\ UNCHANGED <<ledger, holder, quota, posts, up, next, inl, bounds, ghosts>>

(* CancelJob past the gate: the request is a line, the flag is raised, and  *)
(* a job not dispatched yet is settled on the spot.  Its place in the queue *)
(* is left to the next scan.                                                *)
CancelEffects(j) ==
  LET v == led[j]
      c == IF mem[j].cancelReq THEN v ELSE CancelRequested(v)
      ask == IF mem[j].cancelReq THEN <<v>> ELSE <<v, c>>
      stages == IF mem[j].dispatched THEN ask
                ELSE Append(ask, Observed(c, "cancelled"))
  IN \E n \in Reach(stages) :
     /\ Commit(j, stages, n)
     /\ mem' = [mem EXCEPT
          ![j].cancelReq = n >= Len(ask),
          ![j].flag = @ \/ n >= Len(ask),
          ![j].st = IF ~mem[j].dispatched /\ All(stages, n) THEN "cancelled" ELSE @]

(* Mutant: no already_terminal answer.                                      *)
CancelEndedJob(j) ==
  /\ Calls
  /\ mem[j].st # "none"
  /\ CancelEffects(j)
  /\ UNCHANGED <<queue, holder, quota, posts, ctl, up, next, inl, bounds, ghosts>>

Cancellable(j) == mem[j].st # "none" /\ ~Ended(mem[j].st)

CancelJob(j) ==
  /\ Calls
  /\ Cancellable(j)
  /\ CancelEffects(j)
  /\ UNCHANGED <<queue, holder, quota, posts, ctl, up, next, inl, bounds, ghosts>>

(* TakeJobOrder / OnCallItemComplete after a start that registered the job  *)
(* but could not admit it: cancel the job (the gate may deny that), then    *)
(* run the call inline.                                                     *)
FallBackInline(j) ==
  /\ Calls
  /\ inl[j] = "pending"
  /\ \/ Cancellable(j) /\ CancelEffects(j)
     \/ UNCHANGED <<ledger, mem>>
  /\ inl' = [inl EXCEPT ![j] = "done"]
  /\ UNCHANGED <<queue, holder, quota, posts, ctl, up, next, bounds, ghosts>>

-----------------------------------------------------------------------------
(* TryDispatchLocked: one pass over the queue, an entry per step.           *)
Scanning == ctl.pc = "scan"
Here == queue[ctl.i]
AtEntry == Scanning /\ ctl.i \in DOMAIN queue /\ mem[Here].st \in {"queued", "registered"}
Leave == queue' = RemoveAt(queue, ctl.i) /\ ctl' = ctl        \* erase
Keep == queue' = queue /\ ctl' = [ctl EXCEPT !.i = @ + 1]     \* KeepQueued

ScanEnd ==
  /\ Scanning /\ ctl.i > Len(queue)
  /\ ctl' = IF ctl.then = "pump" THEN Pump ELSE Idle
  /\ UNCHANGED <<ledger, memory, quota, posts, up, next, inl, bounds, ghosts>>

ScanDrop ==
  /\ Scanning /\ ctl.i \in DOMAIN queue
  /\ mem[Here].st \notin {"queued", "registered"}
  /\ Leave
  /\ UNCHANGED <<ledger, mem, holder, quota, posts, up, next, inl, bounds, ghosts>>

(* The job was cancelled while it waited.                                   *)
ScanCancelled ==
  /\ AtEntry /\ mem[Here].cancelReq
  /\ LET j == Here
         stages == <<led[j], Observed(led[j], "cancelled")>>
     IN \E n \in Reach(stages) :
        /\ Commit(j, stages, n)
        /\ IF All(stages, n)
           THEN Leave /\ mem' = [mem EXCEPT ![j].st = "cancelled"]
           ELSE Keep /\ mem' = mem
  /\ UNCHANGED <<holder, quota, posts, up, next, inl, bounds, ghosts>>

(* BeginNextAttempt refuses while the current attempt has no terminal.      *)
AttemptOpen(v) == v.term = "none"
NextAttempt(v) == Pending(v, v.att + 1)

(* The gate, asked again, denies: attempt 2 is opened only to be rejected.  *)
ScanDenied ==
  /\ AtEntry /\ ~mem[Here].cancelReq
  /\ LET j == Here
         p == NextAttempt(led[j])
         r == Closed(p, "rejected")
         stages == <<led[j], p, r, Observed(r, "failed")>>
     IN IF AttemptOpen(led[j])
        THEN Keep /\ UNCHANGED <<ledger, mem>>
        ELSE \E n \in Reach(stages) :
             /\ Commit(j, stages, n)
             /\ IF All(stages, n)
                THEN Leave /\ mem' = [mem EXCEPT ![j].st = "failed"]
                ELSE Keep /\ mem' = mem
  /\ UNCHANGED <<holder, quota, posts, up, next, inl, bounds, ghosts>>

(* Mutant: resource keys are not consulted.                                 *)
RoomWithoutKeys(j) ==
  /\ QuotaFree
  /\ SessionLimit = 0 \/ Cardinality(Running) < SessionLimit

Room(j) ==
  /\ QuotaFree
  /\ SessionLimit = 0 \/ Cardinality(Running) < SessionLimit
  /\ ToolLimit = 0 \/ Cardinality({k \in Running : ToolOf[k] = ToolOf[j]}) < ToolLimit
  /\ \A k \in KeysOf[j] : holder[k] \in {0, j}

Native(j) == led[j].mode = "native_deferred"

ScanNoRoom ==
  /\ AtEntry /\ ~mem[Here].cancelReq
  /\ ~Room(Here) \/ (~Native(Here) /\ AttemptOpen(led[Here]))
  /\ Keep
  /\ UNCHANGED <<ledger, mem, holder, quota, posts, up, next, inl, bounds, ghosts>>

(* Mutant: the worker starts without its lease on the ledger.               *)
DispatchUnleased(j) ==
  LET p == IF Native(j) THEN led[j] ELSE NextAttempt(led[j])
  IN  <<led[j], p, p, Started(p)>>

(* The work of a job_handle is attempt 2, of a native_deferred attempt 1.   *)
(* The lease is dispatched on the ledger before the worker is started.      *)
DispatchStages(j) ==
  LET v == led[j]
      p == IF Native(j) THEN v ELSE NextAttempt(v)
      d == Dispatched(p)
  IN  IF Native(j) THEN <<v, d, Started(d)>> ELSE <<v, p, d, Started(d)>>

Lease(j) == [mem[j] EXCEPT !.epoch = @ + 1, !.owner = mem[j].epoch + 1]

CanDispatch ==
  /\ AtEntry /\ ~mem[Here].cancelReq
  /\ Room(Here)
  /\ ~Native(Here) => ~AttemptOpen(led[Here])

ScanDispatch ==
  /\ CanDispatch
  /\ LET j == Here
         stages == DispatchStages(j)
     IN /\ Len(stages) \in Reach(stages)
        /\ Commit(j, stages, Len(stages))
        /\ mem' = [mem EXCEPT ![j] = [Lease(j) EXCEPT
                     !.st = "running", !.dispatched = TRUE, !.flag = FALSE]]
        /\ holder' = [k \in Keys |-> IF k \in KeysOf[j] THEN j ELSE holder[k]]
        /\ gquota' = QuotaTaken
        /\ worker' = [worker EXCEPT ![j] = Lease(j).epoch]
        /\ execs' = [execs EXCEPT ![j] = @ + 1]
  /\ Leave
  /\ UNCHANGED <<foreign, leaked, envelopes, incoming, up, next, inl, bounds, gap>>

(* An append fails: the slot is given back, the lease number stays used.    *)
ScanDispatchFails ==
  /\ CanDispatch
  /\ LET j == Here
         stages == DispatchStages(j)
     IN \E n \in Reach(stages) \ {Len(stages)} :
        /\ Commit(j, stages, n)
        /\ mem' = IF Native(j) \/ n >= 2 THEN [mem EXCEPT ![j] = Lease(j)] ELSE mem
  /\ Keep
  /\ UNCHANGED <<holder, quota, posts, up, next, inl, bounds, ghosts>>

ScanStep == ScanEnd \/ ScanDrop \/ ScanCancelled \/ ScanDenied \/ ScanNoRoom
              \/ ScanDispatch \/ ScanDispatchFails

-----------------------------------------------------------------------------
(* A worker ends without the mutex: it reads its cancel flag and posts.     *)
WorkerEnds(j, ok) ==
  /\ worker[j] # 0
  /\ LET out == IF ok THEN "succeeded"
                ELSE IF mem[j].flag THEN "cancelled" ELSE "failed"
     IN envelopes' = Append(envelopes, [job |-> j, epoch |-> worker[j], out |-> out])
  /\ worker' = [worker EXCEPT ![j] = 0]
  /\ UNCHANGED <<ledger, memory, quota, incoming, ctl, up, next, inl, bounds, ghosts>>

(* PumpLocked, entered by PumpCompletions, GetJob, every turn of WaitJobs,  *)
(* the destructor's loop and the end of StartJob.                           *)
PumpBegin ==
  /\ up \in {"open", "closing"} /\ ctl = Idle
  /\ ctl' = Pump
  /\ UNCHANGED <<ledger, memory, quota, posts, up, next, inl, bounds, ghosts>>

(* CheckDeadlinesLocked on a job whose deadline has passed.                 *)
DeadlinePassed(j) ==
  /\ ctl = Pump /\ incoming = <<>>
  /\ j \in Deadlined /\ mem[j].st = "running" /\ ~mem[j].cancelReq
  /\ LET stages == <<led[j], CancelRequested(led[j])>>
     IN \E n \in Reach(stages) :
        /\ Commit(j, stages, n)
        /\ mem' = IF All(stages, n)
                  THEN [mem EXCEPT ![j].cancelReq = TRUE, ![j].flag = TRUE]
                  ELSE mem
  /\ UNCHANGED <<queue, holder, quota, posts, ctl, up, next, inl, bounds, ghosts>>

(* The completions kept for a retry go first, in the order of `jobs`: the  *)
(* next one from ctl.i on.                                                 *)
Kept(j) == mem[j].pend # NoEnvelope /\ ~Ended(mem[j].st)

RetryKept(j) ==
  /\ ctl.pc = "pump" /\ incoming = <<>>
  /\ Kept(j) /\ j > ctl.i
  /\ \A k \in Jobs : k > ctl.i /\ k < j => ~Kept(k)
  /\ incoming' = <<mem[j].pend>>
  /\ ctl' = [ctl EXCEPT !.i = j]
  /\ UNCHANGED <<ledger, memory, quota, worker, envelopes, up, next, inl, bounds, ghosts>>

(* Then the posted envelopes, swapped out at once.                          *)
TakeEnvelopes ==
  /\ ctl.pc = "pump" /\ incoming = <<>>
  /\ \A k \in Jobs : k > ctl.i => ~Kept(k)
  /\ incoming' = envelopes
  /\ envelopes' = <<>>
  /\ ctl' = [ctl EXCEPT !.pc = "drain", !.i = 0]
  /\ UNCHANGED <<ledger, memory, quota, worker, up, next, inl, bounds, ghosts>>

Arrived == Head(incoming)
Draining == ctl.pc \in {"pump", "drain"} /\ incoming # <<>>
(* Mutant: completions of a cancelled job are dropped.                      *)
AcceptableUncancelled(env) ==
  /\ mem[env.job].st # "none" /\ ~Ended(mem[env.job].st)
  /\ env.epoch = mem[env.job].owner /\ ~mem[env.job].cancelReq

Acceptable(env) == /\ mem[env.job].st # "none" /\ ~Ended(mem[env.job].st)
                   /\ env.epoch = mem[env.job].owner

(* Unknown job, second terminal or an envelope of another lease.            *)
DrainDiscard ==
  /\ Draining /\ ~Acceptable(Arrived)
  /\ incoming' = Tail(incoming)
  /\ UNCHANGED <<ledger, memory, quota, worker, envelopes, ctl, up, next, inl, bounds, ghosts>>

ActionTerminal(out) == IF out = "succeeded" THEN "done" ELSE out

(* Terminal of the attempt, then the terminal observation.  If either       *)
(* append fails, or the attempt has its terminal already, the envelope is   *)
(* kept for the next pump.                                                  *)
DrainSettle ==
  /\ Draining /\ Acceptable(Arrived)
  /\ LET env == Arrived
         j == env.job
         c == Closed(led[j], ActionTerminal(env.out))
         stages == <<led[j], c, Observed(c, env.out)>>
         settle == [mem EXCEPT ![j] = [@ EXCEPT !.st = env.out, !.pend = NoEnvelope]]
         retain == [mem EXCEPT ![j] = [@ EXCEPT !.pend = env]]
     IN IF led[j].term # "none"
        THEN mem' = retain /\ UNCHANGED <<ledger, holder, gquota, ctl>>
        ELSE \E n \in Reach(stages) :
             /\ Commit(j, stages, n)
             /\ IF All(stages, n)
                THEN /\ mem' = settle
                     /\ holder' = [k \in Keys |->
                          IF k \in KeysOf[j] /\ holder[k] = j THEN 0 ELSE holder[k]]
                     /\ gquota' = QuotaGiven
                     /\ ctl' = [ctl EXCEPT !.settled = TRUE]
                ELSE mem' = retain /\ UNCHANGED <<holder, gquota, ctl>>
  /\ incoming' = Tail(incoming)
  /\ UNCHANGED <<queue, foreign, leaked, worker, envelopes, up, next, inl, bounds, ghosts>>

(* Mutant: the queue is not scanned again after a settlement.               *)
DrainEndNoScan ==
  /\ ctl.pc = "drain" /\ incoming = <<>>
  /\ ctl' = Idle
  /\ UNCHANGED <<ledger, memory, quota, posts, up, next, inl, bounds, ghosts>>

DrainEnd ==
  /\ ctl.pc = "drain" /\ incoming = <<>>
  /\ ctl' = IF ctl.settled THEN Scan("idle") ELSE Idle
  /\ UNCHANGED <<ledger, memory, quota, posts, up, next, inl, bounds, ghosts>>

PumpStep == (\E j \in Jobs : RetryKept(j)) \/ TakeEnvelopes \/ DrainDiscard \/ DrainSettle \/ DrainEnd

(* DebugSubmitEnvelope: an envelope no worker sent, and the pump after it.  *)
ForgeEnvelope(j, e, out) ==
  /\ Calls /\ forged < MaxForged
  /\ out # "cancelled"
  /\ envelopes' = Append(envelopes, [job |-> j, epoch |-> e, out |-> out])
  /\ forged' = forged + 1
  /\ ctl' = Pump
  /\ UNCHANGED <<ledger, memory, quota, worker, incoming, up, next, inl, restarts, ghosts>>

-----------------------------------------------------------------------------
(* The coordinator goes away and another one takes over the ledger.         *)
Forget ==
  /\ mem' = [j \in Jobs |-> Unborn]
  /\ queue' = <<>>
  /\ holder' = [k \in Keys |-> 0]
  /\ worker' = [j \in Jobs |-> 0]
  /\ envelopes' = <<>> /\ incoming' = <<>>
  /\ ctl' = Idle
  /\ up' = "down"
  /\ inl' = [j \in Jobs |-> IF inl[j] = "pending" THEN "no" ELSE inl[j]]

(* The process dies, possibly inside a handler.                             *)
Crash ==
  /\ up # "down"
  /\ Forget
  /\ gquota' = 0 /\ foreign' = 0 /\ leaked' = 0
  /\ UNCHANGED <<ledger, next, bounds, ghosts>>

(* The destructor: flags of running and queued jobs go up ...               *)
Close ==
  /\ Calls
  /\ up' = "closing"
  /\ mem' = [j \in Jobs |-> IF mem[j].st \in {"running", "queued"}
                            THEN [mem[j] EXCEPT !.flag = TRUE] ELSE mem[j]]
  /\ UNCHANGED <<ledger, queue, holder, quota, posts, ctl, next, inl, bounds, ghosts>>

(* ... then it pumps until nothing runs or ten seconds have passed.  Slots  *)
(* of jobs still running are never given back.                              *)
Destroy ==
  /\ up = "closing" /\ ctl = Idle
  /\ Forget
  /\ leaked' = IF GlobalLimit = 0 THEN 0 ELSE leaked + Cardinality(Running)
  /\ UNCHANGED <<ledger, gquota, foreign, next, bounds, ghosts>>

(* A new writer resumes the ledger; AdoptRecovery walks the plan.           *)
Restart ==
  /\ up = "down" /\ restarts < MaxRestarts
  /\ up' = "open"
  /\ wOk' = TRUE
  /\ restarts' = restarts + 1
  /\ next' = 1
  /\ ctl' = [Idle EXCEPT !.pc = "adopt", !.i = 1]
  /\ UNCHANGED <<led, memory, quota, posts, inl, forged, ghosts>>

Adopted(j) ==
  LET v == led[j]
      adm == v.msg \/ v.att > 1
  IN [Unborn EXCEPT !.st = "queued", !.epoch = v.disp, !.admC = adm, !.admF = adm]

(* complete_delivery, admission_chain_missing: the lines still missing.     *)
AdoptChain(j, store) ==
  LET v == led[j]
      chain == AdmissionChain(v, store, FALSE)
  IN  IF v.msg \/ v.att > 1 THEN <<v>>
      ELSE <<v>> \o (CASE ~v.started       -> chain
                       [] v.started /\ v.term = "none" -> Tail(chain)
                       [] OTHER            -> Tail(Tail(chain)))

Adopting(j) ==
  /\ ctl.pc = "adopt" /\ ctl.i = j /\ led[j].reg
  /\ ctl' = [ctl EXCEPT !.i = @ + 1]
  /\ next' = IF j >= next THEN j + 1 ELSE next
  /\ gap' = [gap EXCEPT ![j] = @ \/ Disposition(led[j]) = "admission_chain_missing"]
  /\ UNCHANGED <<holder, quota, posts, up, inl, bounds, execs>>

(* Nothing to write: the record alone, and the queue for a requeue.         *)
AdoptKnown(j) ==
  /\ Adopting(j)
  /\ Disposition(led[j]) \in {"unsupported_mode", "already_terminal",
                              "awaiting_approval", "requeue"}
  /\ LET d == Disposition(led[j])
         st == CASE d = "unsupported_mode"  -> "unknown"
                 [] d = "already_terminal"  -> led[j].job
                 [] d = "awaiting_approval" -> "awaiting_approval"
                 [] d = "requeue"           -> "queued"
     IN /\ mem' = [mem EXCEPT ![j] = [Adopted(j) EXCEPT
                     !.st = st, !.cancelReq = d = "already_terminal" /\ led[j].cancel]]
        /\ queue' = IF d = "requeue" THEN Append(queue, j) ELSE queue
  /\ UNCHANGED ledger

(* The observation that is missing, or that nobody knows how it ended.      *)
AdoptObserved(j) ==
  /\ Adopting(j)
  /\ Disposition(led[j]) \in {"terminal_observation_missing", "unknown_hold"}
  /\ LET s == IF Disposition(led[j]) = "unknown_hold" THEN "unknown" ELSE "succeeded"
         stages == <<led[j], Observed(led[j], s)>>
     IN \E n \in Reach(stages) :
        /\ Commit(j, stages, n)
        /\ mem' = [mem EXCEPT ![j] =
                     [Adopted(j) EXCEPT !.st = IF All(stages, n) THEN s ELSE "queued"]]
  /\ UNCHANGED queue

AdoptUnadmitted(j, store) ==
  /\ Adopting(j)
  /\ Disposition(led[j]) = "admission_chain_missing"
  /\ LET base == Adopted(j)
         stages == AdoptChain(j, store)
     IN \E n \in Reach(stages) :
        /\ Commit(j, stages, n)
        /\ mem' = [mem EXCEPT ![j] = [base EXCEPT
                     !.admF = base.admC \/ (store /\ stages[n].sel),
                     !.admC = base.admC \/ (store /\ All(stages, n))]]
        /\ queue' = IF All(stages, n) /\ (store \/ base.admC)
                    THEN Append(queue, j) ELSE queue

AdoptSkip ==
  /\ ctl.pc = "adopt" /\ ctl.i \in Jobs /\ ~led[ctl.i].reg
  /\ ctl' = [ctl EXCEPT !.i = @ + 1]
  /\ UNCHANGED <<ledger, memory, quota, posts, up, next, inl, bounds, ghosts>>

AdoptEnd ==
  /\ ctl.pc = "adopt" /\ ctl.i > MaxJob
  /\ ctl' = Scan("idle")
  /\ UNCHANGED <<ledger, memory, quota, posts, up, next, inl, bounds, ghosts>>

AdoptStep ==
  \/ AdoptSkip \/ AdoptEnd
  \/ \E j \in Jobs : AdoptKnown(j) \/ AdoptObserved(j)
                       \/ \E store \in StoreOutcomes : AdoptUnadmitted(j, store)

-----------------------------------------------------------------------------
(* Other sessions of the process share the global quota; the conversation   *)
(* is compacted by the main loop, on the same ledger.                       *)
OtherTakes ==
  /\ up # "down" /\ GlobalLimit > 0
  /\ QuotaFree /\ foreign < MaxForeign
  /\ gquota' = gquota + 1 /\ foreign' = foreign + 1
  /\ UNCHANGED <<leaked, ledger, memory, posts, ctl, up, next, inl, bounds, ghosts>>

OtherGives ==
  /\ up # "down" /\ foreign > 0
  /\ gquota' = QuotaGiven /\ foreign' = foreign - 1
  /\ UNCHANGED <<leaked, ledger, memory, posts, ctl, up, next, inl, bounds, ghosts>>

Compact(j) ==
  /\ Compaction /\ Calls /\ wOk /\ led[j].msg
  /\ led' = [led EXCEPT ![j] = Compacted(@)]
  /\ UNCHANGED <<wOk, memory, quota, posts, ctl, up, next, inl, bounds, ghosts>>

Init ==
  /\ led = [j \in Jobs |-> EmptyView] /\ wOk = TRUE
  /\ mem = [j \in Jobs |-> Unborn] /\ queue = <<>> /\ holder = [k \in Keys |-> 0]
  /\ gquota = 0 /\ foreign = 0 /\ leaked = 0
  /\ worker = [j \in Jobs |-> 0] /\ envelopes = <<>> /\ incoming = <<>>
  /\ ctl = Idle /\ up = "open" /\ next = 1
  /\ inl = [j \in Jobs |-> "no"]
  /\ restarts = 0 /\ forged = 0
  /\ execs = [j \in Jobs |-> 0] /\ gap = [j \in Jobs |-> FALSE]

Start == \E kind \in Kinds, ask \in BOOLEAN, store \in StoreOutcomes : StartJob(kind, ask, store)
Interface == StartDenied \/ Start \/ Close
               \/ \E j \in Jobs : \/ CompleteAdmission(j) \/ GrantApproval(j)
                                  \/ CancelJob(j) \/ FallBackInline(j) \/ Compact(j)
                                  \/ \E e \in 1..2, out \in Outcomes : ForgeEnvelope(j, e, out)
Work == \E j \in Jobs, ok \in BOOLEAN : WorkerEnds(j, ok)
Others == OtherTakes \/ OtherGives
Deadline == \E j \in Jobs : DeadlinePassed(j)
Lifecycle == Crash \/ Destroy \/ Restart

Next == \/ Interface \/ Work \/ Others \/ Lifecycle
        \/ PumpBegin \/ Deadline \/ PumpStep \/ ScanStep \/ AdoptStep

Spec == Init /\ [][Next]_vars

-----------------------------------------------------------------------------
Control == [pc : {"idle", "scan", "pump", "drain", "adopt"}, i : Nat,
            then : {"idle", "pump"}, settled : BOOLEAN]

(* Every variable of the coordinator and the ledger keeps its shape.        *)
TypeOK ==
  /\ led \in [Jobs -> View] /\ wOk \in BOOLEAN
  /\ mem \in [Jobs -> Record] /\ queue \in Seq(Jobs)
  /\ holder \in [Keys -> Jobs \cup {0}]
  /\ gquota \in Nat /\ foreign \in Nat /\ leaked \in Nat
  /\ worker \in [Jobs -> Nat]
  /\ envelopes \in Seq(Envelope) /\ incoming \in Seq(Envelope)
  /\ ctl \in Control /\ up \in {"open", "closing", "down"}
  /\ next \in Nat /\ inl \in [Jobs -> {"no", "pending", "done"}]
  /\ restarts \in Nat /\ forged \in Nat
  /\ execs \in [Jobs -> Nat] /\ gap \in [Jobs -> BOOLEAN]

(* The shared quota counts what runs: every acquired slot is given back     *)
(* exactly once on every early return of DispatchJobLocked, on every        *)
(* settlement and never twice, whoever else shares it.                      *)
QuotaBalance ==
  GlobalLimit > 0 => gquota = foreign + leaked + Cardinality(Running)

(* The limits hold however starts, settlements and adoptions interleave,    *)
(* and no two running jobs share a resource key.                            *)
WithinLimits ==
  /\ GlobalLimit > 0 => gquota <= GlobalLimit
  /\ SessionLimit > 0 => Cardinality(Running) <= SessionLimit
  /\ \A j \in Running :
       ToolLimit > 0 => Cardinality({k \in Running : ToolOf[k] = ToolOf[j]}) <= ToolLimit

KeysExclusive ==
  \A i, j \in Running : i # j => KeysOf[i] \cap KeysOf[j] = {}

(* A live worker's lease is the last dispatched line of the ledger, with    *)
(* the attempt started, so a crash at any moment finds the evidence of it.  *)
LeaseOnLedger ==
  \A j \in Jobs : worker[j] # 0 =>
     worker[j] = led[j].disp /\ worker[j] = mem[j].owner /\ led[j].started

(* What callers were told is what a restart reads: a terminal state in      *)
(* memory has been observed on the ledger, as the same state unless the     *)
(* job was taken up again after its admission message was missing.          *)
TerminalIsDurable ==
  \A j \in Jobs : mem[j].st \in TerminalStates =>
     led[j].obs > 0 /\ (gap[j] \/ led[j].job = mem[j].st)

(* The ledger is never behind memory at either end of a run: no lease       *)
(* without its dispatched line, no reported end without its observation.    *)
LedgerFirst == LeaseOnLedger /\ TerminalIsDurable

(* A job is executed at most once and gets at most one terminal             *)
(* observation, across crashes at any append, lost writers and restarts,    *)
(* unless an adoption found its admission message off the context chain.    *)
OnceUnlessGap ==
  \A j \in Jobs : ~gap[j] => execs[j] <= 1 /\ led[j].obs <= 1

(* A running job always has something that will settle it: its worker, its  *)
(* envelope on the way, or the completion kept for a retry.                 *)
NoLostCompletion ==
  \A j \in Running :
    \/ worker[j] # 0
    \/ \E i \in DOMAIN envelopes :
         envelopes[i].job = j /\ envelopes[i].epoch = mem[j].owner
    \/ \E i \in DOMAIN incoming :
         incoming[i].job = j /\ incoming[i].epoch = mem[j].owner
    \/ mem[j].pend # NoEnvelope

(* A completion is kept for a retry only when the writer is broken, and a   *)
(* broken writer never recovers: in-process retries cannot succeed, the     *)
(* job waits for a restart.                                                 *)
RetryNeedsRestart == \A j \in Jobs : mem[j].pend # NoEnvelope => ~wOk

(* A terminal state is final while the coordinator lives, whatever late,    *)
(* forged or repeated envelopes, cancellations and scans come after it.     *)
TerminalIsFinal ==
  [][\A j \in Jobs : Ended(mem[j].st) /\ up' # "down" => mem'[j].st = mem[j].st]_vars

-----------------------------------------------------------------------------
(* What the documentation says and the code does not keep.                  *)

(* "complete_delivery ... not re-run": adopting a ledger never executes a   *)
(* job a second time.                                                       *)
NotRerun == \A j \in Jobs : execs[j] <= 1

(* "requeue: registered, not dispatched, can be enqueued again" and         *)
(* "dispatched without a terminal: unknown_hold": a queued job_handle job   *)
(* can open the attempt its dispatch needs.                                 *)
QueuedIsDispatchable ==
  \A j \in Jobs : up = "open" /\ wOk /\ mem[j].st = "queued" /\ ~Native(j) =>
     ~AttemptOpen(led[j])

(* "registered but not admitted: cancel it, leave no job a recovery will    *)
(* re-run": a call that fell back to inline execution has no job execution. *)
InlineOrJob == \A j \in Jobs : inl[j] = "done" => execs[j] = 0

(* "broadcast the cancellation: everything running gets its flag raised".   *)
ShutdownFlags ==
  up = "closing" => \A j \in Running : mem[j].flag

-----------------------------------------------------------------------------
(* Fairness: the handler that has the mutex goes on, hosts pump at every    *)
(* request boundary, executors return, other sessions give slots back.      *)
Fairness ==
  /\ WF_vars(PumpBegin) /\ WF_vars(PumpStep) /\ WF_vars(ScanStep) /\ WF_vars(AdoptStep)
  /\ \A j \in Jobs : WF_vars(\E ok \in BOOLEAN : WorkerEnds(j, ok))
  /\ WF_vars(OtherGives)

FairSpec == Spec /\ Fairness

(* A job admitted to the queue is dispatched or settled in the end, and a   *)
(* running one settles: no release of a quota or a key goes unnoticed.      *)
EveryJobSettles ==
  \A j \in Jobs : (mem[j].st \in {"queued", "running"}) ~> (mem[j].st \notin {"queued", "running"})
=============================================================================
