------------------------------ MODULE Automation ------------------------------
(***************************************************************************)
(* The gateway's scheduled work: AutomationStore (the account of jobs and  *)
(* their occurrences), GatewayAutomationPump (one synchronous tick after   *)
(* another), the turn HeadlessExecutor runs for an occurrence, and the     *)
(* outbox that publishes its reply as a local file.                        *)
(*                                                                         *)
(* There is one thread.  Each action appends at most one line to one file, *)
(* so a crash can come between any two.  A store whose append failed       *)
(* refuses every later one and the tick returns false, which stops the     *)
(* pump for the life of the process; what may still happen then is the     *)
(* turn in progress, because only BindOccurrence's answer is not looked at *)
(* before the next step.                                                   *)
(***************************************************************************)
EXTENDS AutomationLog, Integers, FiniteSets, SequencesExt

CONSTANTS
  Specs,        \* what jobs are created as: records of the spec fields of Job
  Patches,      \* what updates change
  CronEvery,    \* cron slots are its multiples
  Grace,        \* how late a slot may be for the policy skip
  Cap,          \* max_open_occurrences
  MaxAttempts,  \* kMaxAttempts
  Verbs,        \* commands given: subset of 1..4, numbered as they are taken
  StoreFaults,  \* may an append to the account fail
  TornTails,    \* ... and leave half a line behind
  OutboxFaults, \* may the outbox's account, artifacts or files fail
  Tampering,    \* may a reply file be lost or changed by others
  TurnFaults,   \* may a session, its turn or its selection fail
  Backwards,    \* may the clock be set back
  MaxRev, MaxTime, MaxRuns, MaxCrashes   \* bounds

ASSUME AutomationAssumption ==
  /\ {CronEvery, MaxAttempts} \subseteq Nat \ {0}
  /\ {Grace, Cap, MaxRev, MaxTime, MaxRuns, MaxCrashes} \subseteq Nat
  /\ Verbs \subseteq 1 .. 4
  /\ {StoreFaults, TornTails, OutboxFaults, Tampering, TurnFaults, Backwards} \subseteq BOOLEAN
  /\ NoKey \notin Keys /\ NoText \notin Texts
  /\ Specs \subseteq Given
  /\ \A p \in Patches : DOMAIN p \subseteq DOMAIN Plain /\ Over(p, Plain) \in Given

VARIABLES
  disk,       \* the projection of the account as the next replay finds it
  torn,       \* the file ends in half a line
  broken,     \* AutomationStore::broken_
  mem,        \* the store's projection in memory
  box,        \* the outbox's items in memory
  boxDisk,    \* ... and in its account
  boxBroken,  \* DurableReplyOutbox::broken_
  published,  \* reply files written
  runs,       \* the sessions opened, in order
  ctl,        \* where the tick is
  now,        \* the clock
  crashes     \* counts crashes, for the bound

store  == <<disk, torn, broken, mem>>
outbox == <<box, boxDisk, boxBroken, published>>
vars   == <<store, outbox, runs, ctl, now, crashes>>

(* What a session's ledger and the executor keep of the turn.               *)
Run == [ occ      : Occs,
         bound    : BOOLEAN,              \* BindOccurrence's answer
         called   : BOOLEAN,              \* the model was asked
         text     : Texts \cup {NoText},  \* last assistant text
         done     : BOOLEAN,              \* ... and the turn has ended
         selected : BOOLEAN ]             \* reply.selection.committed

NewRun(o, bound) == [ occ |-> o, bound |-> bound, called |-> FALSE, text |-> NoText,
                      done |-> FALSE, selected |-> FALSE ]

(* Deliveries: the reply of a session, the failure notice of an occurrence. *)
Reply(r) == <<"reply", r>>
Notice(o) == <<"notice", o>>
ItemStates == {"pending", "delivered", "flagged"}

NoOcc == <<0, 0, 0>>
Idle == [ at |-> "idle",
          verb |-> 1,          \* commands: the family being taken
          jobs |-> {},         \* sweep: jobs not yet looked at
          job |-> 0,           \* the job a second line is due for
          occs |-> {},         \* cancel, recover: occurrences left
          items |-> {},        \* deliver: items left
          then |-> "idle",     \* what follows a delivery
          occ |-> NoOcc, run |-> 0,      \* the occurrence in hand
          verdict |-> "none",  \* how it will be settled
          back |-> "idle" ]    \* what follows the settlement
Halted == [Idle EXCEPT !.at = "halted"]
Down   == [Idle EXCEPT !.at = "down"]

At(place) == ctl.at = place
Go(place) == ctl' = [ctl EXCEPT !.at = place]

-----------------------------------------------------------------------------
(* AppendLinePowerLoss.  A line after half a line is read back as neither.  *)
Written(l) == IF torn THEN disk ELSE Replay(disk, l)

Appended(l) ==
  /\ ~broken
  /\ disk' = Written(l) /\ torn' = FALSE
  /\ UNCHANGED broken

AppendFails(l) ==
  /\ broken \/ StoreFaults
  /\ broken' = TRUE
  /\ \/ UNCHANGED <<disk, torn>>
     \/ ~broken /\ disk' = Written(l) /\ torn' = FALSE
     \/ ~broken /\ TornTails /\ UNCHANGED disk /\ torn' = TRUE

(* A handler's append with what it changes in memory and where it goes on.  *)
Log(l, m, c) ==
  \/ Appended(l) /\ mem' = m /\ ctl' = c
  \/ AppendFails(l) /\ UNCHANGED mem /\ ctl' = Halted

Others == UNCHANGED <<outbox, runs, now, crashes>>

JobRec(j) == mem.jobs[j]
OccRec(o) == mem.occs[o]
Closed(c, outcome) == [c EXCEPT !.state = "settled", !.outcome = outcome]
Marked(c) == [c EXCEPT !.cancel = TRUE]
Settled(o, outcome) == [mem EXCEPT !.occs[o] = Closed(@, outcome)]
OfJob(j, states) == {o \in DOMAIN mem.occs : JobOf(o) = j /\ OccRec(o).state \in states}
Claimed == {o \in DOMAIN mem.occs : OccRec(o).state = "claimed"}
OpenCount == Cardinality({o \in DOMAIN mem.occs : OccRec(o).state # "settled"})
(* An occurrence can outlive the line of its job.                          *)
Known(o) == Has(mem.jobs, JobOf(o))
StateOfJob(o) == IF Known(o) THEN JobRec(JobOf(o)).state ELSE "gone"
Expired(j) == JobRec(j).deadline > 0 /\ now >= JobRec(j).deadline

-----------------------------------------------------------------------------
(* A tick takes the waiting commands, by family: 1 add, 2 run-now,          *)
(* 3 update, 4 pause, resume and cancel.  Refused commands change nothing;  *)
(* so does a repeated one, whose key the store still has.                   *)
BeginTick == At("idle") /\ Go("commands") /\ UNCHANGED <<store>> /\ Others

Command(v) == At("commands") /\ v \in Verbs /\ v >= ctl.verb
Taken(v) == [ctl EXCEPT !.verb = v]

Created(s, k) ==
  Over([ anchor |-> IF s.kind = "interval" THEN now ELSE 0,
         due |-> IF s.kind = "once" /\ s.due = 0 THEN now ELSE s.due,
         cursor |-> IF s.kind = "once" THEN 0 ELSE now,
         rev |-> 1, state |-> "active", seen |-> NoText, key |-> k ], s)

Unused(keys, k) == k = NoKey \/ ~Has(keys, k)

(* A once job comes with its occurrence: two lines.                         *)
CreateJob(j, s, k) ==
  /\ Command(1) /\ ~Has(mem.jobs, j) /\ Unused(mem.createKeys, k)
  /\ Log([type |-> "job.created", job |-> j, spec |-> Created(s, k)],
         [mem EXCEPT !.jobs = With(@, j, Created(s, k)),
                     !.createKeys = Registered(@, k, j)],
         IF s.kind = "once" THEN [Taken(1) EXCEPT !.at = "first", !.job = j] ELSE Taken(1))
  /\ Others

FirstOccurrence ==
  /\ At("first")
  /\ LET b == JobRec(ctl.job)
         o == OccId(ctl.job, 1, b.due)
     IN  Log([type |-> "occurrence.created", occ |-> o, reason |-> "schedule",
              missed |-> 0, key |-> b.key],
             [mem EXCEPT !.occs = With(@, o, NewOccurrence("schedule", 0))],
             [ctl EXCEPT !.at = "commands", !.job = 0])
  /\ Others

RequestRunNow(j, k) ==
  /\ Command(2) /\ Has(mem.jobs, j) /\ JobRec(j).state # "cancelled"
  /\ Unused(mem.runKeys, k)
  /\ LET o == OccId(j, JobRec(j).rev, now)
     IN  /\ ~Has(mem.occs, o)
         /\ Log([type |-> "occurrence.created", occ |-> o, reason |-> "run_now",
                 missed |-> 0, key |-> k],
                [mem EXCEPT !.occs = With(@, o, NewOccurrence("run_now", 0)),
                            !.runKeys = Registered(@, k, o)],
                Taken(2))
  /\ Others

(* A new period or a new cron expression starts the schedule anew.          *)
Anchored(p) ==
  IF "kind" \notin DOMAIN p \/ p.kind = "once" THEN p
  ELSE IF p.kind = "cron" THEN Over([cursor |-> now], p)
  ELSE Over([cursor |-> now, anchor |-> now], p)

Changed(b, p) == [Over(Anchored(p), b) EXCEPT !.rev = b.rev + 1]

UpdateJob(j, p) ==
  /\ Command(3) /\ Has(mem.jobs, j) /\ JobRec(j).state # "cancelled"
  /\ JobRec(j).rev < MaxRev
  /\ LET rev == JobRec(j).rev + 1
     IN  Log([type |-> "job.updated", job |-> j, patch |-> Anchored(p), to |-> rev],
             [mem EXCEPT !.jobs[j] = Changed(@, p)],
             Taken(3))
  /\ Others

PauseJob(j) ==
  /\ Command(4) /\ Has(mem.jobs, j) /\ JobRec(j).state = "active"
  /\ Log([type |-> "job.paused", job |-> j],
         [mem EXCEPT !.jobs[j].state = "paused"], Taken(4))
  /\ Others

(* The slots of the pause are skipped.                                      *)
Awake(b) == [b EXCEPT !.state = "active", !.cursor = Later(@, now)]

ResumeJob(j) ==
  /\ Command(4) /\ Has(mem.jobs, j) /\ JobRec(j).state = "paused"
  /\ Log([type |-> "job.resumed", job |-> j, through |-> now],
         [mem EXCEPT !.jobs[j] = Awake(@)], Taken(4))
  /\ Others

CancelJob(j) ==
  /\ Command(4) /\ Has(mem.jobs, j) /\ JobRec(j).state # "cancelled"
  /\ Log([type |-> "job.cancelled", job |-> j],
         [mem EXCEPT !.jobs[j].state = "cancelled"],
         [Taken(4) EXCEPT !.at = "cancel", !.occs = OfJob(j, {"scheduled", "claimed"})])
  /\ Others

(* ... what waits is settled, what is claimed is marked.                    *)
CancelOccurrence(o) ==
  /\ At("cancel") /\ o \in ctl.occs
  /\ IF OccRec(o).state = "scheduled"
     THEN Log([type |-> "occurrence.settled", occ |-> o, outcome |-> "cancelled"],
              Settled(o, "cancelled"),
              [ctl EXCEPT !.occs = @ \ {o}])
     ELSE Log([type |-> "occurrence.cancel_requested", occ |-> o],
              [mem EXCEPT !.occs[o] = Marked(@)],
              [ctl EXCEPT !.occs = @ \ {o}])
  /\ Others

CancelDone == At("cancel") /\ ctl.occs = {} /\ Go("commands") /\ UNCHANGED <<store>> /\ Others

CommandsDone ==
  /\ At("commands")
  /\ ctl' = [Idle EXCEPT !.at = "sweep", !.jobs = DOMAIN mem.jobs]
  /\ UNCHANGED <<store>> /\ Others

-----------------------------------------------------------------------------
(* SweepSchedule: the slots a recurring job has due since its cursor.       *)
IsSlot(b, t) ==
  IF b.kind = "interval" THEN t > b.anchor /\ (t - b.anchor) % b.period = 0
  ELSE t % CronEvery = 0

Due(j) == {t \in JobRec(j).cursor + 1 .. now : IsSlot(JobRec(j), t)}

(* No slots while one of the job is still claimed: they are merged later.   *)
Eligible(j) ==
  /\ JobRec(j).state = "active" /\ JobRec(j).kind # "once" /\ ~Expired(j)
  /\ OfJob(j, {"claimed"}) = {}

Waiting(j) == OfJob(j, {"scheduled"})
Oldest(j) == {o \in Waiting(j) : \A p \in Waiting(j) : SlotOf(o) <= SlotOf(p)}
Coalesces(j) == JobRec(j).misfire = "coalesce"

GraceOf(b) == IF b.kind = "interval" /\ b.period < Grace THEN b.period ELSE Grace

(* Where the occurrence of a sweep goes: coalescing takes the first slot    *)
(* due, skipping the last one, if it is recent.                             *)
SlotTaken(j) == IF Coalesces(j) THEN Min(Due(j)) ELSE Max(Due(j))
Target(j) == OccId(j, JobRec(j).rev, SlotTaken(j))

Sweeping(j) == At("sweep") /\ j \in ctl.jobs
Due2nd(j) == [ctl EXCEPT !.at = "advance", !.job = j]   \* the cursor's line follows

(* The queue is full: the cursor stays, the next sweep tries again.         *)
StalledNever(j) == FALSE   \* mutant: the cursor passes what a full queue refuses
Stalled(j) == Coalesces(j) /\ Waiting(j) = {} /\ OpenCount >= Cap

MissedByNew(j) == Cardinality(Due(j)) - 1

Makes(j) ==
  /\ Waiting(j) = {} /\ OpenCount < Cap /\ ~Has(mem.occs, Target(j))
  /\ Coalesces(j) \/ now - Max(Due(j)) <= GraceOf(JobRec(j))

SweepPass(j) ==
  /\ Sweeping(j)
  /\ ~Eligible(j) \/ Due(j) = {} \/ Stalled(j)
  /\ ctl' = [ctl EXCEPT !.jobs = @ \ {j}]
  /\ UNCHANGED <<store>> /\ Others

SweepMerge(j) ==
  /\ Sweeping(j) /\ Eligible(j) /\ Due(j) # {} /\ Coalesces(j)
  /\ \E o \in Oldest(j) :
       LET missed == OccRec(o).missed + Cardinality(Due(j))
       IN  Log([type |-> "occurrence.merged", occ |-> o, missed |-> missed],
               [mem EXCEPT !.occs[o].missed = @ + Cardinality(Due(j))],
               Due2nd(j))
  /\ Others

SweepCreate(j) ==
  /\ Sweeping(j) /\ Eligible(j) /\ Due(j) # {} /\ Makes(j)
  /\ Log([type |-> "occurrence.created", occ |-> Target(j), reason |-> "schedule",
           missed |-> MissedByNew(j), key |-> NoKey],
          [mem EXCEPT !.occs = With(@, Target(j), NewOccurrence("schedule", MissedByNew(j)))],
          Due2nd(j))
  /\ Others

(* Nothing is made and the cursor passes the slots all the same: they are   *)
(* skipped, or the occurrence of the slot exists.                           *)
SweepDrop(j) ==
  /\ Sweeping(j) /\ Eligible(j) /\ Due(j) # {} /\ ~Makes(j) /\ ~Stalled(j)
  /\ Coalesces(j) => Waiting(j) = {}
  /\ ctl' = Due2nd(j)
  /\ UNCHANGED <<store>> /\ Others

Advance ==
  /\ At("advance")
  /\ LET last == Max(Due(ctl.job))
     IN  Log([type |-> "job.schedule_advanced", job |-> ctl.job, through |-> last],
             [mem EXCEPT !.jobs[ctl.job].cursor = last],
             [ctl EXCEPT !.at = "sweep", !.jobs = @ \ {ctl.job}, !.job = 0])
  /\ Others

RecoverBoundOnly ==   \* mutant: claims without a session are left out
  /\ At("sweep") /\ ctl.jobs = {}
  /\ ctl' = [Idle EXCEPT !.at = "recover", !.occs = {o \in Claimed : OccRec(o).sess # 0}]
  /\ UNCHANGED <<store>> /\ Others

SweepDone ==
  /\ At("sweep") /\ ctl.jobs = {}
  /\ ctl' = [Idle EXCEPT !.at = "recover", !.occs = Claimed]
  /\ UNCHANGED <<store>> /\ Others

-----------------------------------------------------------------------------
(* What recovery and execution have in common.  An occurrence in hand is    *)
(* settled with a verdict; a reply is enqueued, published and observed      *)
(* before that.                                                             *)
SettleAs(verdict) == [ctl EXCEPT !.at = "settle", !.verdict = verdict]

Settle ==
  /\ At("settle")
  /\ Log([type |-> "occurrence.settled", occ |-> ctl.occ, outcome |-> ctl.verdict],
         Settled(ctl.occ, ctl.verdict),
         [Idle EXCEPT !.at = ctl.back, !.occs = ctl.occs])
  /\ Others

Heartbeat(o) == Known(o) /\ JobRec(JobOf(o)).notify
Unchanged(o, r) ==
  /\ Heartbeat(o) /\ JobRec(JobOf(o)).seen # NoText
  /\ runs[r].text = JobRec(JobOf(o)).seen

(* Only a delivered reply becomes the version last seen.                    *)
ObserveResult ==
  /\ At("observe")
  /\ LET text == IF ctl.run = 0 THEN NoText ELSE runs[ctl.run].text
         update == ctl.verdict = "succeeded"
     IN  Log([type |-> "occurrence.observed", occ |-> ctl.occ, text |-> text, update |-> update],
             IF update THEN [mem EXCEPT !.jobs[JobOf(ctl.occ)].seen = text] ELSE mem,
             SettleAs(ctl.verdict))
  /\ Others

StoreIdle == UNCHANGED <<store, runs, now, crashes>>

(* DurableReplyOutbox: the append to its account.                           *)
BoxAppended(b) == ~boxBroken /\ box' = b /\ boxDisk' = b /\ UNCHANGED boxBroken
BoxFails(b) ==
  /\ boxBroken \/ OutboxFaults
  /\ boxBroken' = TRUE /\ UNCHANGED box
  /\ boxDisk' \in IF boxBroken THEN {boxDisk} ELSE {boxDisk, b}

Deliver(b, then) == [ctl EXCEPT !.at = "deliver", !.then = then,
                                !.items = {d \in DOMAIN b : b[d] = "pending"}]

(* Enqueue, for a reply or a notice.  An item already there is not written  *)
(* again; one that could not be entered ends recovery with needs_review,    *)
(* while execution goes on and finds its item missing.                      *)
Enqueue ==
  /\ At("enqueue") \/ At("notice")
  /\ LET d == IF At("enqueue") THEN Reply(ctl.run) ELSE Notice(ctl.occ)
         then == IF At("enqueue") THEN "replied" ELSE "noticed"
         b == With(box, d, "pending")
     IN  \/ /\ Has(box, d)
            /\ ctl' = Deliver(box, then)
            /\ UNCHANGED <<box, boxDisk, boxBroken>>
         \/ /\ ~Has(box, d) /\ BoxAppended(b)
            /\ ctl' = Deliver(b, then)
         \/ /\ ~Has(box, d)
            /\ \/ BoxFails(b)
               \/ OutboxFaults /\ UNCHANGED <<box, boxDisk, boxBroken>>  \* the artifact
            /\ ctl' = IF ctl.back = "recover" THEN SettleAs("needs_review")
                      ELSE Deliver(box, then)
  /\ UNCHANGED published /\ StoreIdle

(* DeliverPending publishes what is pending, item by item, and stops at     *)
(* the first line it cannot write.                                          *)
Delivering(d) == At("deliver") /\ d \in ctl.items
Past(d) == [ctl EXCEPT !.items = @ \ {d}]

Publish(d) ==
  /\ Delivering(d) /\ ~boxBroken
  /\ published' = published \cup {d}
  /\ LET b == [box EXCEPT ![d] = "delivered"]
     IN  \/ BoxAppended(b) /\ ctl' = Past(d)
         \/ BoxFails(b) /\ ctl' = [ctl EXCEPT !.items = {}]
  /\ StoreIdle

PublishFails(d) ==
  /\ Delivering(d) /\ ~boxBroken /\ OutboxFaults /\ d \notin published
  /\ ctl' = Past(d)
  /\ UNCHANGED outbox /\ StoreIdle

(* The artifact or the published file is not what was enqueued.             *)
Flag(d) ==
  /\ Delivering(d) /\ ~boxBroken /\ Tampering
  /\ \/ BoxAppended([box EXCEPT ![d] = "flagged"])
     \/ BoxFails([box EXCEPT ![d] = "flagged"])
  /\ ctl' = Past(d)
  /\ UNCHANGED published /\ StoreIdle

EnteredItem(d) == Has(box, d)   \* mutant: whether it was published is not asked
DeliveredItem(d) == Has(box, d) /\ box[d] = "delivered"

DeliverDone ==
  /\ At("deliver") /\ (ctl.items = {} \/ boxBroken)
  /\ LET d == Reply(ctl.run)
         verdict == IF DeliveredItem(d) THEN "succeeded" ELSE "needs_review"
     IN  ctl' = CASE ctl.then = "replied" ->
                       [SettleAs(verdict) EXCEPT !.items = {},
                          !.at = IF Heartbeat(ctl.occ) THEN "observe" ELSE "settle"]
                  [] ctl.then = "noticed" -> [ctl EXCEPT !.at = "observe", !.items = {}]
                  [] ctl.then = "claim" ->
                       IF boxBroken THEN Halted ELSE [Idle EXCEPT !.at = "claim"]
  /\ UNCHANGED outbox /\ StoreIdle

-----------------------------------------------------------------------------
(* SweepRecovery: every claimed occurrence is judged by what its session's  *)
(* ledger says; no model is asked.                                          *)
Recovering(o) == At("recover") /\ o \in ctl.occs
InHand(o, r) == [ctl EXCEPT !.occs = @ \ {o}, !.occ = o, !.run = r, !.back = "recover"]
Judged(o, verdict) ==
  [InHand(o, OccRec(o).sess) EXCEPT !.at = "settle", !.verdict = verdict]

StoreAside == UNCHANGED <<store, outbox, now, crashes>>

(* No bound line: the work is taken to be not yet begun and given out anew. *)
RedispatchAny(o) ==   \* mutant: a bound session is not looked at
  StateOfJob(o) # "cancelled" /\ OccRec(o).attempt + 1 <= MaxAttempts

Redispatchable(o) ==
  /\ OccRec(o).sess = 0
  /\ StateOfJob(o) # "cancelled"
  /\ OccRec(o).attempt + 1 <= MaxAttempts

Back(c) == [c EXCEPT !.state = "scheduled", !.attempt = @ + 1]

Redispatch(o) ==
  /\ Recovering(o) /\ Redispatchable(o)
  /\ LET attempt == OccRec(o).attempt + 1
     IN  Log([type |-> "occurrence.redispatched", occ |-> o, attempt |-> attempt],
             [mem EXCEPT !.occs[o] = Back(@)],
             [ctl EXCEPT !.occs = @ \ {o}])
  /\ Others

GiveUp(o) ==
  /\ Recovering(o) /\ OccRec(o).sess = 0 /\ ~Redispatchable(o)
  /\ ctl' = Judged(o, IF StateOfJob(o) = "cancelled" THEN "cancelled"
                      ELSE "needs_review")
  /\ UNCHANGED runs /\ StoreAside

(* The session cannot be found or read, or holds no answer.                 *)
RecoverBlind(o) ==
  /\ Recovering(o) /\ OccRec(o).sess # 0
  /\ TurnFaults \/ runs[OccRec(o).sess].text = NoText
  /\ ctl' = Judged(o, "needs_review")
  /\ UNCHANGED runs /\ StoreAside

Answered(o) == OccRec(o).sess # 0 /\ runs[OccRec(o).sess].text # NoText

RecoverUnchanged(o) ==
  /\ Recovering(o) /\ Answered(o) /\ Unchanged(o, OccRec(o).sess)
  /\ ctl' = [Judged(o, "unchanged") EXCEPT !.at = "observe"]
  /\ UNCHANGED runs /\ StoreAside

(* The last assistant text becomes the reply, the turn finished or not.     *)
RecoverReply(o) ==
  /\ Recovering(o) /\ Answered(o) /\ ~Unchanged(o, OccRec(o).sess)
  /\ LET r == OccRec(o).sess
     IN  \/ /\ runs' = [runs EXCEPT ![r].selected = TRUE]
            /\ ctl' = [InHand(o, r) EXCEPT !.at = "enqueue"]
         \/ /\ TurnFaults /\ ~runs[r].selected
            /\ ctl' = Judged(o, "needs_review")
            /\ runs' \in {runs, [runs EXCEPT ![r].selected = TRUE]}
  /\ StoreAside

RecoverDone ==
  /\ At("recover") /\ ctl.occs = {}
  /\ ctl' = Deliver(box, "claim")
  /\ UNCHANGED runs /\ StoreAside

-----------------------------------------------------------------------------
(* RunOneOccurrence.  It looks for something due first; ClaimDue then       *)
(* settles what must not run any more, due or not, and takes the oldest.    *)
Unclaimed == {o \in DOMAIN mem.occs : OccRec(o).state # "claimed"}   \* mutant: or settled
Scheduled == {o \in DOMAIN mem.occs : OccRec(o).state = "scheduled"}
Doomed == {o \in Scheduled : Known(o) /\ (StateOfJob(o) = "cancelled" \/ Expired(JobOf(o)))}
ClaimableAny == {o \in Scheduled \ Doomed : SlotOf(o) <= now}   \* mutant: or paused
Claimable == {o \in Scheduled \ Doomed : SlotOf(o) <= now /\ StateOfJob(o) = "active"}
First(S) == {o \in S : \A p \in S : SlotOf(o) <= SlotOf(p)}

LookForWork ==
  /\ At("claim")
  /\ ctl' = IF \E o \in Scheduled : SlotOf(o) <= now THEN [Idle EXCEPT !.at = "clean"] ELSE Idle
  /\ UNCHANGED runs /\ StoreAside

CleanDoomed(o) ==
  /\ At("clean") /\ o \in Doomed
  /\ Log([type |-> "occurrence.settled", occ |-> o, outcome |-> "cancelled"],
         Settled(o, "cancelled"),
         ctl)
  /\ Others

NothingToClaim ==
  /\ At("clean") /\ Doomed = {} /\ Claimable = {}
  /\ ctl' = Idle
  /\ UNCHANGED runs /\ StoreAside

ClaimDue(o) ==
  /\ At("clean") /\ Doomed = {} /\ o \in First(Claimable)
  /\ Log([type |-> "occurrence.claimed", occ |-> o, attempt |-> OccRec(o).attempt],
         [mem EXCEPT !.occs[o].state = "claimed"],
         [Idle EXCEPT !.at = "open", !.occ = o])
  /\ Others

(* Execute.  The session is opened, then bound to the occurrence; the       *)
(* answer of BindOccurrence is only remembered.                             *)
OpenSession ==
  /\ At("open") /\ Len(runs) < MaxRuns
  /\ LET r == Len(runs) + 1
         l == [type |-> "occurrence.bound", occ |-> ctl.occ, sess |-> r]
     IN  /\ ctl' = [ctl EXCEPT !.at = "ask", !.run = r]
         /\ \/ Appended(l) /\ mem' = [mem EXCEPT !.occs[ctl.occ].sess = r]
               /\ runs' = Append(runs, NewRun(ctl.occ, TRUE))
            \/ AppendFails(l) /\ UNCHANGED mem
               /\ runs' = Append(runs, NewRun(ctl.occ, FALSE))
  /\ UNCHANGED <<outbox, now, crashes>>

Failing == /\ ctl' = [ctl EXCEPT !.at = "failed"]
           /\ StoreAside

(* No session, no place for work.bound, a hook that blocks, a turn that     *)
(* fails or is cut, a final message without text, a selection that cannot   *)
(* be committed.                                                            *)
TurnFails ==
  /\ TurnFaults
  /\ At("open") \/ At("ask") \/ At("turn") \/ At("select")
  /\ runs' \in IF At("select") THEN {runs, [runs EXCEPT ![ctl.run].selected = TRUE]} ELSE {runs}
  /\ Failing

AskModel ==
  /\ At("ask")
  /\ runs' = [runs EXCEPT ![ctl.run].called = TRUE]
  /\ Go("turn") /\ StoreAside

(* A message with tool calls, perhaps without text, or the one that ends    *)
(* the turn.                                                                *)
Speak(t, last) ==
  /\ At("turn") /\ (last => t # NoText)
  /\ runs' = [runs EXCEPT ![ctl.run].text = t, ![ctl.run].done = last]
  /\ Go(IF last THEN "select" ELSE "turn") /\ StoreAside

(* A budget ends the turn after a message; that is no failure.              *)
CutByBudget ==
  /\ At("turn") /\ runs[ctl.run].text # NoText
  /\ runs' = [runs EXCEPT ![ctl.run].done = TRUE]
  /\ Go("select") /\ StoreAside

Select ==
  /\ At("select")
  /\ runs' = [runs EXCEPT ![ctl.run].selected = TRUE]
  /\ ctl' = IF ~runs[ctl.run].bound THEN SettleAs("needs_review")
            ELSE IF Unchanged(ctl.occ, ctl.run)
            THEN [SettleAs("unchanged") EXCEPT !.at = "observe"]
            ELSE [ctl EXCEPT !.at = "enqueue"]
  /\ StoreAside

(* A failed heartbeat is always reported.                                   *)
Failed ==
  /\ At("failed")
  /\ LET verdict == IF OccRec(ctl.occ).cancel THEN "cancelled" ELSE "failed"
     IN  ctl' = IF Heartbeat(ctl.occ) THEN [SettleAs(verdict) EXCEPT !.at = "notice"]
                ELSE SettleAs(verdict)
  /\ UNCHANGED runs /\ StoreAside

-----------------------------------------------------------------------------
(* The process ends, at any point or after the pump has stopped; a new one  *)
(* replays both accounts.                                                   *)
Crash ==
  /\ ~At("down") /\ crashes < MaxCrashes
  /\ crashes' = crashes + 1
  /\ ctl' = Down
  /\ mem' = Blank /\ box' = Empty
  /\ UNCHANGED <<disk, torn, broken, boxDisk, boxBroken, published, runs, now>>

Restart ==
  /\ At("down")
  /\ mem' = disk /\ broken' = FALSE
  /\ box' = boxDisk /\ boxBroken' = FALSE
  /\ ctl' = Idle
  /\ UNCHANGED <<disk, torn, boxDisk, published, runs, now, crashes>>

(* A tick reads the clock once.                                             *)
Clock ==
  /\ At("idle") \/ At("down")
  /\ \/ now < MaxTime /\ now' = now + 1
     \/ Backwards /\ now > 1 /\ now' = now - 1
  /\ UNCHANGED <<store, outbox, runs, ctl, crashes>>

-----------------------------------------------------------------------------
Init ==
  /\ disk = Blank /\ mem = Blank /\ torn = FALSE /\ broken = FALSE
  /\ box = Empty /\ boxDisk = Empty /\ boxBroken = FALSE /\ published = {}
  /\ runs = <<>> /\ ctl = Idle /\ now = 1 /\ crashes = 0

Commands ==
  \/ \E j \in Jobs, s \in Specs, k \in Keys \cup {NoKey} : CreateJob(j, s, k)
  \/ \E j \in Jobs, k \in Keys \cup {NoKey} : RequestRunNow(j, k)
  \/ \E j \in Jobs, p \in Patches : UpdateJob(j, p)
  \/ \E j \in Jobs : PauseJob(j) \/ ResumeJob(j) \/ CancelJob(j)

CommandStep == FirstOccurrence \/ CancelDone \/ \E o \in ctl.occs : CancelOccurrence(o)

SweepStep ==
  \/ \E j \in ctl.jobs : SweepPass(j) \/ SweepMerge(j) \/ SweepCreate(j) \/ SweepDrop(j)
  \/ Advance \/ SweepDone

RecoverStep ==
  \/ \E o \in ctl.occs : \/ Redispatch(o) \/ GiveUp(o) \/ RecoverBlind(o)
                        \/ RecoverUnchanged(o) \/ RecoverReply(o)
  \/ RecoverDone

DeliverStep ==
  \/ \E d \in ctl.items : Publish(d) \/ PublishFails(d) \/ Flag(d)
  \/ DeliverDone

ClaimStep ==
  \/ LookForWork \/ NothingToClaim
  \/ \E o \in Scheduled : CleanDoomed(o) \/ ClaimDue(o)

TurnStep ==
  \/ OpenSession \/ TurnFails \/ AskModel \/ CutByBudget \/ Select \/ Failed
  \/ \E t \in Texts \cup {NoText}, last \in BOOLEAN : Speak(t, last)

TailStep == Enqueue \/ ObserveResult \/ Settle

Next ==
  \/ BeginTick \/ Commands \/ CommandStep \/ CommandsDone \/ SweepStep \/ RecoverStep
  \/ DeliverStep \/ ClaimStep \/ TurnStep \/ TailStep
  \/ Crash \/ Restart \/ Clock

Spec == Init /\ [][Next]_vars

-----------------------------------------------------------------------------
(* Every variable has its type.                                             *)
Places == {"idle", "commands", "first", "cancel", "sweep", "advance", "recover", "observe",
           "settle", "enqueue", "notice", "deliver", "claim", "clean", "open", "ask", "turn",
           "select", "failed", "halted", "down"}
ItemOK(d) == \/ d[1] = "reply" /\ d[2] \in 1 .. Len(runs)
             \/ d[1] = "notice" /\ d[2] \in Occs
BoxOK(b) == \A d \in DOMAIN b : ItemOK(d) /\ b[d] \in ItemStates

TypeOK ==
  /\ IsProjection(disk) /\ IsProjection(mem)
  /\ torn \in BOOLEAN /\ broken \in BOOLEAN /\ boxBroken \in BOOLEAN
  /\ BoxOK(box) /\ BoxOK(boxDisk) /\ \A d \in published : ItemOK(d)
  /\ \A r \in 1 .. Len(runs) : runs[r] \in Run
  /\ DOMAIN ctl = DOMAIN Idle /\ ctl.at \in Places /\ ctl.verb \in 1 .. 4
  /\ ctl.jobs \subseteq DOMAIN mem.jobs /\ ctl.occs \subseteq DOMAIN mem.occs
  /\ ctl.items \subseteq DOMAIN box /\ ctl.run \in 0 .. Len(runs)
  /\ ctl.occ = NoOcc \/ Has(mem.occs, ctl.occ)
  /\ ctl.verdict \in Outcomes \cup {"none"}
  /\ now \in Nat /\ crashes \in 0 .. MaxCrashes

InTurn == ctl.at \in {"open", "ask", "turn", "select", "failed"}

(* One execution at a time: recovery has judged every claim before anything *)
(* is claimed, and during a turn only its own occurrence is claimed.        *)
OneClaimInHand ==
  /\ At("clean") => Claimed = {}
  /\ InTurn => Claimed = {ctl.occ}

(* A session whose binding was recorded is the last to run its occurrence.  *)
BoundRunsOnce ==
  \A q, r \in 1 .. Len(runs) :
    q < r /\ runs[q].occ = runs[r].occ /\ runs[q].called => ~runs[q].bound

(* The account says succeeded only of what the outbox delivered, unless     *)
(* nothing had changed.                                                     *)
SucceededIsPublished ==
  \A o \in DOMAIN disk.occs :
    disk.occs[o].outcome = "succeeded" =>
      LET d == Reply(disk.occs[o].sess)
      IN  d \in published /\ Has(boxDisk, d) /\ boxDisk[d] = "delivered"

(* What the account says is settled stays as it is and is not executed.     *)
SettledIsFinal ==
  [][\A o \in DOMAIN disk.occs : disk.occs[o].state = "settled" =>
       /\ Has(disk'.occs, o)
       /\ disk'.occs[o].state = "settled" /\ disk'.occs[o].outcome = disk.occs[o].outcome
       /\ \A r \in 1 .. Len(runs) :
            runs[r].occ = o /\ ~runs[r].called => ~runs'[r].called]_vars

(* A store that has not failed has in memory what a replay would read.      *)
LogIsTruth ==
  ~broken /\ ~At("down") =>
    mem.jobs = disk.jobs /\ mem.occs = disk.occs /\ mem.createKeys = disk.createKeys

(* The schedule has at most one occurrence of a job open at a time, as long *)
(* as no line of the account is lost to a torn one.                         *)
OneOpenPerJob ==
  \A j \in DOMAIN mem.jobs :
    Cardinality({o \in OfJob(j, {"scheduled", "claimed"}) : OccRec(o).reason = "schedule"}) <= 1

(* The model is asked only for a job that is active and not past its        *)
(* deadline, whatever was cancelled, paused or updated before.              *)
RunsOnlyActive ==
  [][\A r \in 1 .. Len(runs) : ~runs[r].called /\ runs'[r].called =>
       LET b == mem.jobs[JobOf(runs[r].occ)]
       IN  b.state = "active" /\ (b.deadline = 0 \/ now < b.deadline)]_vars

(* A key of a command means one job, or one occurrence, for ever.           *)
KeyKeepsMeaning ==
  [][/\ \A k \in DOMAIN disk.createKeys :
          Has(disk'.createKeys, k) /\ disk'.createKeys[k] = disk.createKeys[k]
     /\ \A k \in DOMAIN disk.runKeys \ DOMAIN disk'.createKeys :
          Has(disk'.runKeys, k) /\ disk'.runKeys[k] = disk.runKeys[k]]_vars

(* Between ticks, each slot a coalescing job has behind its cursor has an   *)
(* occurrence of its own or is counted as missed in another one; as long as *)
(* the process was never restarted, exactly once.                           *)
Own(j) == {o \in DOMAIN disk.occs : JobOf(o) = j}
Missed(j) == UNION {{o} \X (1 .. disk.occs[o].missed) : o \in Own(j)}
OnSlot(j) == {o \in Own(j) : SlotOf(o) > disk.jobs[j].anchor /\ IsSlot(disk.jobs[j], SlotOf(o))}
Counted(j) == Cardinality(Missed(j)) + Cardinality(OnSlot(j))
Passed(j) == Cardinality({t \in disk.jobs[j].anchor + 1 .. disk.jobs[j].cursor :
                            IsSlot(disk.jobs[j], t)})
Coalescing == {j \in DOMAIN disk.jobs : disk.jobs[j].misfire = "coalesce"
                                          /\ disk.jobs[j].kind = "interval"}
SlotsAccounted ==
  At("idle") => \A j \in Coalescing :
    Counted(j) >= Passed(j) /\ (crashes = 0 => Counted(j) = Passed(j))

(* A reply a heartbeat job delivered is not delivered again while it stays  *)
(* the latest.                                                              *)
ToldBy(r) == Has(boxDisk, Reply(r)) /\ boxDisk[Reply(r)] = "delivered"
RepeatsAreQuiet ==
  \A q, r \in 1 .. Len(runs) :
    /\ q < r /\ JobOf(runs[q].occ) = JobOf(runs[r].occ)
    /\ ToldBy(q) /\ ToldBy(r) /\ runs[q].text = runs[r].text
    /\ Has(disk.jobs, JobOf(runs[q].occ)) /\ disk.jobs[JobOf(runs[q].occ)].notify
    => \E m \in q + 1 .. r - 1 :
         ToldBy(m) /\ JobOf(runs[m].occ) = JobOf(runs[q].occ) /\ runs[m].text # runs[q].text

-----------------------------------------------------------------------------
(* What the documents say and the code does not keep.                       *)

(* An occurrence is executed at most once.                                  *)
ExecutedOnce ==
  \A q, r \in 1 .. Len(runs) :
    q < r /\ runs[q].occ = runs[r].occ => ~(runs[q].called /\ runs[r].called)

(* A turn that was cut is not a success.                                    *)
SucceededMeansFinished ==
  \A o \in DOMAIN disk.occs :
    disk.occs[o].outcome = "succeeded" => runs[disk.occs[o].sess].done

(* No slot is lost, whatever runs are asked for besides.                    *)
SlotsNotLost == At("idle") => \A j \in Coalescing : Counted(j) >= Passed(j)

(* The count of missed slots is of the slots passed, each once, also when   *)
(* the process was restarted.                                               *)
SlotsNotDoubled == At("idle") => \A j \in Coalescing : Counted(j) <= Passed(j)

(* A once job has its occurrence.                                           *)
OnceHasOccurrence ==
  At("idle") => \A j \in DOMAIN mem.jobs :
    mem.jobs[j].kind = "once" /\ mem.jobs[j].rev = 1 =>
      Has(mem.occs, OccId(j, 1, mem.jobs[j].due))

-----------------------------------------------------------------------------
(* Liveness.  The process ticks; a tick goes on; a turn ends (its steps,    *)
(* time and tokens are limited); a gateway that went down is started again. *)
Fairness ==
  /\ WF_vars(BeginTick) /\ WF_vars(CommandStep) /\ WF_vars(CommandsDone)
  /\ WF_vars(SweepStep) /\ WF_vars(RecoverStep) /\ WF_vars(DeliverStep)
  /\ WF_vars(ClaimStep) /\ WF_vars(TailStep)
  /\ WF_vars(OpenSession \/ AskModel \/ Select \/ Failed \/ \E t \in Texts : Speak(t, TRUE))
  /\ WF_vars(Restart)

FairSpec == Spec /\ Fairness

(* An occurrence that is due is settled, or its job is stopped.             *)
Finished(o) == disk.occs[o].state = "settled" \/ disk.jobs[JobOf(o)].state # "active"
DueSettles ==
  \A o \in Jobs \X (1 .. MaxRev) \X (0 .. MaxTime) :
    (Has(disk.occs, o) /\ SlotOf(o) <= now) ~> (Has(disk.occs, o) /\ Finished(o))
=============================================================================
