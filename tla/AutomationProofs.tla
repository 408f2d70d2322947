--------------------------- MODULE AutomationProofs ---------------------------
(* Proofs about Automation for any jobs, keys, answers and commands, any      *)
(* number of crashes, sessions and instants. What holds of a tick is stated   *)
(* of its place (Placed); what holds of the account, of the projection        *)
(* it folds into, whether that is the one in memory or the one on disk.       *)
EXTENDS Automation, FiniteSetTheorems, SequenceTheorems, WellFoundedInduction, TLAPS

-----------------------------------------------------------------------------
(* Types. A projection is a record of partial functions.                      *)
Rec(p) == p = [jobs |-> p.jobs, occs |-> p.occs, createKeys |-> p.createKeys, runKeys |-> p.runKeys]
WellFormed(p) ==
  /\ Rec(p)
  /\ DOMAIN p.jobs \subseteq Jobs /\ p.jobs \in [DOMAIN p.jobs -> Job]
  /\ DOMAIN p.occs \subseteq Occs /\ p.occs \in [DOMAIN p.occs -> Occurrence]
  /\ DOMAIN p.createKeys \subseteq Keys /\ p.createKeys \in [DOMAIN p.createKeys -> Jobs]
  /\ DOMAIN p.runKeys \subseteq Keys /\ p.runKeys \in [DOMAIN p.runKeys -> Occs]

(* An occurrence that is bound to a session is bound to one opened for it.    *)
Fits(p, rs) ==
  \A o \in DOMAIN p.occs : p.occs[o].sess # 0 =>
    p.occs[o].sess \in 1 .. Len(rs) /\ rs[p.occs[o].sess].occ = o

Items == ({"reply"} \X Nat) \cup ({"notice"} \X Occs)
ItemsOf(n) == ({"reply"} \X (1 .. n)) \cup ({"notice"} \X Occs)
Control ==
  [ at : Places, verb : 1 .. 4, jobs : SUBSET Jobs, job : Jobs \cup {0}, occs : SUBSET Occs,
    items : SUBSET Items, then : {"idle", "replied", "noticed", "claim"},
    occ : Occs \cup {NoOcc}, run : Nat, verdict : Outcomes \cup {"none"},
    back : {"idle", "recover"} ]

TypesRight ==
  /\ WellFormed(disk) /\ WellFormed(mem) /\ Fits(disk, runs) /\ Fits(mem, runs)
  /\ torn \in BOOLEAN /\ broken \in BOOLEAN /\ boxBroken \in BOOLEAN
  /\ DOMAIN box \subseteq ItemsOf(Len(runs)) /\ box \in [DOMAIN box -> ItemStates]
  /\ DOMAIN boxDisk \subseteq ItemsOf(Len(runs)) /\ boxDisk \in [DOMAIN boxDisk -> ItemStates]
  /\ published \subseteq ItemsOf(Len(runs))
  /\ runs \in Seq(Run) /\ ctl \in Control /\ now \in Nat /\ crashes \in 0 .. MaxCrashes

-----------------------------------------------------------------------------
(* What the place of a tick says of the projection p in memory.               *)
DueIn(b, t) == {s \in b.cursor + 1 .. t : IsSlot(b, s)}

(* An occurrence is in hand from its claim, or from its turn in recovery, to  *)
(* its settlement.                                                            *)
Turning(c) == c.at \in {"open", "ask", "turn", "select", "failed"}
Holds(c) ==
  \/ Turning(c) \/ c.at \in {"enqueue", "notice", "observe", "settle"}
  \/ c.at = "deliver" /\ c.then # "claim"
Replying(c) ==
  c.at \in {"ask", "turn", "select", "enqueue"} \/ (c.at = "deliver" /\ c.then = "replied")
Judging(c) ==
  c.at \in {"settle", "observe", "notice"} \/ (c.at = "deliver" /\ c.then = "noticed")

(* One claim at a time: from recovery on, what is claimed is what recovery    *)
(* has left to judge and what is in hand.                                     *)
ClaimedIn(p) == {o \in DOMAIN p.occs : p.occs[o].state = "claimed"}
InHands(c) == c.occs \cup (IF Holds(c) THEN {c.occ} ELSE {})
Judges(c) == c.at \in {"recover", "deliver", "claim", "clean"} \/ Holds(c)

InHandRight(p, c, rs, t) ==
  /\ c.occ \in DOMAIN p.occs /\ c.occ \notin c.occs
  /\ Replying(c) => c.run # 0
  /\ c.run # 0 => c.run \in 1 .. Len(rs) /\ rs[c.run].occ = c.occ
  /\ c.at \in {"open", "ask"} =>
       /\ JobOf(c.occ) \in DOMAIN p.jobs
       /\ p.jobs[JobOf(c.occ)].state = "active"
       /\ p.jobs[JobOf(c.occ)].deadline = 0 \/ t < p.jobs[JobOf(c.occ)].deadline
  /\ Turning(c) => c.back = "idle"
  /\ c.back = "idle" => c.occs = {}
  /\ Judging(c) => c.verdict \in Outcomes
  /\ c.at = "notice" => c.verdict # "succeeded"
  /\ c.at = "deliver" /\ c.then = "noticed" => c.verdict # "succeeded"
  /\ c.at = "observe" /\ c.verdict = "succeeded" => c.run # 0 /\ JobOf(c.occ) \in DOMAIN p.jobs

Placed(p, c, rs, t) ==
  /\ c.jobs \subseteq DOMAIN p.jobs /\ c.occs \subseteq DOMAIN p.occs
  /\ c.at \in {"first", "advance"} => c.job \in DOMAIN p.jobs
  /\ c.at = "advance" => DueIn(p.jobs[c.job], t) # {}
  /\ c.occs # {} => c.at \in {"cancel", "recover"} \/ Holds(c)
  /\ c.at = "cancel" => \A o \in c.occs : p.occs[o].state # "settled"
  /\ Judges(c) => ClaimedIn(p) = InHands(c)
  /\ c.at = "recover" => c.back = "idle" /\ c.run = 0
  /\ c.at = "deliver" => c.then # "idle"
  /\ c.at # "deliver" => c.items = {}
  /\ ~Holds(c) => c.occ = NoOcc /\ c.run = 0
  /\ Holds(c) => InHandRight(p, c, rs, t)
  /\ c.at = "down" => p = Blank

PlaceRight == TypesRight /\ Placed(mem, ctl, runs, now)

-----------------------------------------------------------------------------
(* The outbox: memory is the account until an append fails; what the account  *)
(* calls delivered was published.                                             *)
BoxRight ==
  /\ ~boxBroken /\ ctl.at # "down" => box = boxDisk
  /\ \A d \in DOMAIN box : box[d] = "delivered" => d \in DOMAIN boxDisk /\ boxDisk[d] = "delivered"
  /\ \A d \in DOMAIN boxDisk : boxDisk[d] = "delivered" => d \in published
  /\ ctl.at = "deliver" => \A d \in ctl.items : d \in DOMAIN box /\ box[d] = "pending"
  /\ ctl.at = "down" => box = Empty

-----------------------------------------------------------------------------
(* The account, when no half line can be left in it.                          *)
Same(p, q) == p.jobs = q.jobs /\ p.occs = q.occs /\ p.createKeys = q.createKeys

(* An occurrence belongs to a job; a session is bound to what was claimed; a  *)
(* session that was told it is bound is the one its occurrence names.         *)
Sound(p, rs) ==
  /\ \A o \in DOMAIN p.occs :
       /\ JobOf(o) \in DOMAIN p.jobs
       /\ p.occs[o].state = "scheduled" => p.occs[o].sess = 0
       /\ p.occs[o].state # "settled" => p.occs[o].outcome = "none"
  /\ \A r \in 1 .. Len(rs) :
       /\ rs[r].occ \in DOMAIN p.occs
       /\ rs[r].bound => p.occs[rs[r].occ].sess = r

Told(r) == Reply(r) \in published /\ Has(boxDisk, Reply(r)) /\ boxDisk[Reply(r)] = "delivered"
Paid(p) == \A o \in DOMAIN p.occs : p.occs[o].outcome = "succeeded" => Told(p.occs[o].sess)

AccountRight ==
  /\ torn = FALSE
  /\ ~broken /\ ctl.at # "down" => Same(mem, disk)
  /\ broken => Holds(ctl) \/ ctl.at \in {"halted", "down"}
  /\ Sound(disk, runs) /\ Paid(disk)
  /\ ctl.at = "first" => \A o \in DOMAIN mem.occs : JobOf(o) # ctl.job
  /\ Holds(ctl) => ctl.occ \in DOMAIN disk.occs /\ disk.occs[ctl.occ].state = "claimed"
  /\ Holds(ctl) /\ ~broken => mem.occs[ctl.occ].sess = ctl.run
  /\ ctl.at = "open" => ~broken /\ ctl.run = 0
  /\ ctl.at \in {"settle", "observe"} /\ ctl.verdict = "succeeded" => Told(ctl.run)
  /\ \A q, r \in 1 .. Len(runs) : q < r /\ runs[q].occ = runs[r].occ => ~runs[q].bound

(* What is settled stays so.                                                  *)
Stays(p, q) ==
  \A o \in DOMAIN p.occs : p.occs[o].state = "settled" =>
    o \in DOMAIN q.occs /\ q.occs[o].state = "settled" /\ q.occs[o].outcome = p.occs[o].outcome

(* What each step keeps: place and outbox whatever happens to the account,    *)
(* the account too where it loses no line.                                    *)
Accounts == ~TornTails /\ AccountRight
Keeps == PlaceRight' /\ BoxRight' /\ (Accounts => AccountRight' /\ Stays(disk, disk'))

-----------------------------------------------------------------------------
(* Numbers, and the functions and records the projections are made of.        *)

(* A set of numbers has a least one.                                          *)
LEMMA Least ==
  ASSUME NEW S \in SUBSET Nat, S # {}
  PROVE  \E m \in S : \A k \in S : m <= k
<1> DEFINE R == OpToRel(<, Nat)
<1>1. IsWellFoundedOn(R, Nat)
  BY NatLessThanWellFounded
<1>2. ASSUME NEW x \in Nat, NEW y \in Nat, x < y PROVE <<x, y>> \in R
  BY <1>2 DEF OpToRel
<1> HIDE DEF R
<1>3. PICK m \in S : \A y \in S : ~ (<<y, m>> \in R)
  BY <1>1, WFMin
<1>4. ASSUME NEW k \in S PROVE m <= k
  <2>1. m \in Nat /\ k \in Nat
    OBVIOUS
  <2>2. ~(k < m)
    BY <1>2, <1>3, <2>1
  <2> QED BY <2>1, <2>2
<1> QED BY <1>3, <1>4

(* ... and, if it has a bound, a largest one: the slots due are such a set.   *)
LEMMA Ends ==
  ASSUME NEW n \in Nat, NEW S \in SUBSET (0 .. n), S # {}
  PROVE  /\ Min(S) \in S /\ \A k \in S : Min(S) <= k
         /\ Max(S) \in S /\ \A k \in S : k <= Max(S)
<1>1. \E m \in S : \A k \in S : m <= k
  BY Least
<1>2. \E m \in S : \A k \in S : m >= k
  <2> DEFINE T == {n - x : x \in S}
  <2>1. T \in SUBSET Nat /\ T # {}
    <3>1. \A x \in S : n - x \in Nat
      OBVIOUS
    <3> QED BY <3>1
  <2>2. PICK u \in T : \A v \in T : u <= v
    BY <2>1, Least
  <2>3. PICK m \in S : u = n - m
    BY <2>2
  <2>4. \A k \in S : n - m <= n - k
    BY <2>2, <2>3
  <2> QED BY <2>4
<1> QED BY <1>1, <1>2 DEF Min, Max

(* One entry of a projection replaced or added.                               *)
JobPut(p, j, b) ==
  [jobs |-> With(p.jobs, j, b), occs |-> p.occs, createKeys |-> p.createKeys, runKeys |-> p.runKeys]
OccPut(p, o, c) ==
  [jobs |-> p.jobs, occs |-> With(p.occs, o, c), createKeys |-> p.createKeys, runKeys |-> p.runKeys]

(* One entry made, with its key.                                              *)
JobMade(p, j, b, k) ==
  [jobs |-> With(p.jobs, j, b), occs |-> p.occs,
   createKeys |-> Registered(p.createKeys, k, j), runKeys |-> p.runKeys]
OccMade(p, o, c, k) ==
  [jobs |-> p.jobs, occs |-> With(p.occs, o, c),
   createKeys |-> p.createKeys, runKeys |-> Registered(p.runKeys, k, o)]

(* ... is what an assignment to one of its fields comes to, of a job          *)
LEMMA JobPuts ==
  ASSUME NEW p, WellFormed(p), NEW j \in DOMAIN p.jobs
  PROVE  /\ \A b : [p EXCEPT !.jobs[j] = b] = JobPut(p, j, b)
         /\ \A v : [p EXCEPT !.jobs[j].state = v] = JobPut(p, j, [p.jobs[j] EXCEPT !.state = v])
         /\ \A v : [p EXCEPT !.jobs[j].cursor = v] = JobPut(p, j, [p.jobs[j] EXCEPT !.cursor = v])
         /\ \A v : [p EXCEPT !.jobs[j].seen = v] = JobPut(p, j, [p.jobs[j] EXCEPT !.seen = v])
BY DEF WellFormed, Rec, JobPut, With

(* ... and of an occurrence.                                                  *)
LEMMA OccPuts ==
  ASSUME NEW p, WellFormed(p), NEW o \in DOMAIN p.occs
  PROVE  /\ \A c : [p EXCEPT !.occs[o] = c] = OccPut(p, o, c)
         /\ \A v : [p EXCEPT !.occs[o].state = v] = OccPut(p, o, [p.occs[o] EXCEPT !.state = v])
         /\ \A v : [p EXCEPT !.occs[o].sess = v] = OccPut(p, o, [p.occs[o] EXCEPT !.sess = v])
         /\ \A v : [p EXCEPT !.occs[o].missed = v] = OccPut(p, o, [p.occs[o] EXCEPT !.missed = v])
BY DEF WellFormed, Rec, OccPut, With

(* Such a replacement keeps the types.                                        *)
LEMMA PutsWellFormed ==
  ASSUME NEW p, WellFormed(p)
  PROVE  /\ \A j \in Jobs, b \in Job : WellFormed(JobPut(p, j, b))
         /\ \A o \in Occs, c \in Occurrence : WellFormed(OccPut(p, o, c))
         /\ \A j \in Jobs, b \in Job, k \in Keys \cup {NoKey} : WellFormed(JobMade(p, j, b, k))
         /\ \A o \in Occs, c \in Occurrence, k \in Keys \cup {NoKey} :
              WellFormed(OccMade(p, o, c, k))
<1>1. ASSUME NEW j \in Jobs, NEW b \in Job PROVE WellFormed(JobPut(p, j, b))
  BY DEF WellFormed, Rec, JobPut, With
<1>2. ASSUME NEW o \in Occs, NEW c \in Occurrence PROVE WellFormed(OccPut(p, o, c))
  BY DEF WellFormed, Rec, OccPut, With
<1>3. ASSUME NEW j \in Jobs, NEW b \in Job, NEW k \in Keys \cup {NoKey}
      PROVE  WellFormed(JobMade(p, j, b, k))
  BY DEF WellFormed, Rec, Registered, With, JobMade
<1>4. ASSUME NEW o \in Occs, NEW c \in Occurrence, NEW k \in Keys \cup {NoKey}
      PROVE  WellFormed(OccMade(p, o, c, k))
  BY DEF WellFormed, Rec, Registered, With, OccMade
<1> QED BY <1>1, <1>2, <1>3, <1>4

(* Two fields of a projection replaced at once.                               *)
LEMMA JobsAndKeys ==
  ASSUME NEW p, Rec(p), NEW x, NEW y
  PROVE  [p EXCEPT !.jobs = x, !.createKeys = y] =
              [jobs |-> x, occs |-> p.occs, createKeys |-> y, runKeys |-> p.runKeys]
<1>1. PICK q : q = [p EXCEPT !.jobs = x]
  OBVIOUS
<1>2. q = [jobs |-> x, occs |-> p.occs, createKeys |-> p.createKeys, runKeys |-> p.runKeys]
  BY <1>1 DEF Rec
<1>3. [q EXCEPT !.createKeys = y] =
        [jobs |-> x, occs |-> p.occs, createKeys |-> y, runKeys |-> p.runKeys]
  BY <1>2
<1>4. [p EXCEPT !.jobs = x, !.createKeys = y] = [[p EXCEPT !.jobs = x] EXCEPT !.createKeys = y]
  OBVIOUS
<1> QED BY <1>1, <1>3, <1>4

(* ... the occurrences and the keys of requests.                              *)
LEMMA OccsAndKeys ==
  ASSUME NEW p, Rec(p), NEW x, NEW y
  PROVE  [p EXCEPT !.occs = x, !.runKeys = y] =
              [jobs |-> p.jobs, occs |-> x, createKeys |-> p.createKeys, runKeys |-> y]
<1>1. PICK r : r = [p EXCEPT !.occs = x]
  OBVIOUS
<1>2. r = [jobs |-> p.jobs, occs |-> x, createKeys |-> p.createKeys, runKeys |-> p.runKeys]
  BY <1>1 DEF Rec
<1>3. [r EXCEPT !.runKeys = y] =
        [jobs |-> p.jobs, occs |-> x, createKeys |-> p.createKeys, runKeys |-> y]
  BY <1>2
<1>4. [p EXCEPT !.occs = x, !.runKeys = y] = [[p EXCEPT !.occs = x] EXCEPT !.runKeys = y]
  OBVIOUS
<1> QED BY <1>1, <1>3, <1>4

(* An occurrence replaced or added.                                           *)
LEMMA OccAdds ==
  ASSUME NEW p, WellFormed(p), NEW o, NEW c
  PROVE  [p EXCEPT !.occs = With(@, o, c)] = OccPut(p, o, c)
BY DEF WellFormed, Rec, OccPut

-----------------------------------------------------------------------------
(* Replay.                                                                    *)

JobTypes == {"job.updated", "job.paused", "job.resumed", "job.cancelled", "job.schedule_advanced"}
OccTypes == {"occurrence.claimed", "occurrence.bound", "occurrence.settled", "occurrence.merged",
             "occurrence.redispatched", "occurrence.cancel_requested"}

(* What Replay makes of a line, by its kind.                                  *)
LEMMA ReplayJob ==
  ASSUME NEW p, WellFormed(p), NEW l, l.type \in JobTypes
  PROVE  Replay(p, l) =
           IF Has(p.jobs, l.job) THEN JobPut(p, l.job, JobLine(p.jobs[l.job], l)) ELSE p
<1>1. Replay(p, l) =
        IF Has(p.jobs, l.job) THEN [p EXCEPT !.jobs[l.job] = JobLine(p.jobs[l.job], l)] ELSE p
  BY DEF Replay, JobTypes, WellFormed, Rec
<1> QED BY <1>1, JobPuts DEF Has

(* ... of a line about an occurrence,                                         *)
LEMMA ReplayOcc ==
  ASSUME NEW p, WellFormed(p), NEW l, l.type \in OccTypes
  PROVE  Replay(p, l) =
           IF Has(p.occs, l.occ) THEN OccPut(p, l.occ, OccLine(p.occs[l.occ], l)) ELSE p
<1>1. Replay(p, l) =
        IF Has(p.occs, l.occ) THEN [p EXCEPT !.occs[l.occ] = OccLine(p.occs[l.occ], l)] ELSE p
  BY DEF Replay, OccTypes, WellFormed, Rec
<1> QED BY <1>1, OccPuts DEF Has

(* ... of the lines that make something,                                      *)
LEMMA ReplayCreated ==
  ASSUME NEW p, WellFormed(p), NEW l
  PROVE  /\ l.type = "job.created" => Replay(p, l) = JobMade(p, l.job, l.spec, l.spec.key)
         /\ l.type = "occurrence.created" =>
              Replay(p, l) = OccMade(p, l.occ, NewOccurrence(l.reason, l.missed), l.key)
<1>1. CASE l.type = "job.created"
  <2> DEFINE x == With(p.jobs, l.job, l.spec)
             y == Registered(p.createKeys, l.spec.key, l.job)
  <2>1. Replay(p, l) = [p EXCEPT !.jobs = x, !.createKeys = y]
    BY <1>1 DEF Replay, Create
  <2>2. Replay(p, l) = [jobs |-> x, occs |-> p.occs, createKeys |-> y, runKeys |-> p.runKeys]
    <3> HIDE DEF x, y
    <3> QED BY <2>1, JobsAndKeys DEF WellFormed
  <2> QED BY <1>1, <2>2 DEF JobMade
<1>2. CASE l.type = "occurrence.created"
  <2> DEFINE x == With(p.occs, l.occ, NewOccurrence(l.reason, l.missed))
             y == Registered(p.runKeys, l.key, l.occ)
  <2>1. Replay(p, l) = [p EXCEPT !.occs = x, !.runKeys = y]
    BY <1>2 DEF Replay, Create
  <2>2. Replay(p, l) = [jobs |-> p.jobs, occs |-> x, createKeys |-> p.createKeys, runKeys |-> y]
    <3> HIDE DEF x, y
    <3> QED BY <2>1, OccsAndKeys DEF WellFormed
  <2> QED BY <1>2, <2>2 DEF OccMade
<1> QED BY <1>1, <1>2

(* ... of an observation.                                                     *)
LEMMA ReplayObserved ==
  ASSUME NEW p, WellFormed(p), NEW l, l.type = "occurrence.observed"
  PROVE  Replay(p, l) = IF Has(p.occs, l.occ) /\ l.update /\ Has(p.jobs, JobOf(l.occ))
                        THEN JobPut(p, JobOf(l.occ),
                                    [p.jobs[JobOf(l.occ)] EXCEPT !.seen = l.text]) ELSE p
<1>1. Replay(p, l) = IF Has(p.occs, l.occ) THEN Observe(p, l) ELSE p
  BY DEF Replay
<1> QED BY <1>1, JobPuts DEF Observe, Has

(* The lines the store writes: each fits what it is about, and a session is   *)
(* bound to the occurrence it was opened for.                                 *)
Legal(l, rs) ==
  \/ l.type = "job.created" /\ l.job \in Jobs /\ l.spec \in Job
  \/ /\ l.type = "occurrence.created" /\ l.occ \in Occs /\ l.key \in Keys \cup {NoKey}
     /\ NewOccurrence(l.reason, l.missed) \in Occurrence
  \/ l.type \in JobTypes /\ \A b \in Job : JobLine(b, l) \in Job
  \/ l.type = "occurrence.observed" /\ l.text \in Texts \cup {NoText}
  \/ /\ l.type \in OccTypes /\ \A c \in Occurrence : OccLine(c, l) \in Occurrence
     /\ \/ \A c \in Occurrence : OccLine(c, l).sess = c.sess
        \/ \A c \in Occurrence :
             OccLine(c, l).sess \in 1 .. Len(rs) /\ rs[OccLine(c, l).sess].occ = l.occ

(* An entry replaced keeps sessions and occurrences together, if its own is.  *)
LEMMA PutsFit ==
  ASSUME NEW p, NEW rs, Fits(p, rs)
  PROVE  /\ \A j, b : Fits(JobPut(p, j, b), rs)
         /\ \A j, b, k : Fits(JobMade(p, j, b, k), rs)
         /\ \A o, c, k : c.sess = 0 => Fits(OccMade(p, o, c, k), rs)
         /\ \A o, c : c.sess = 0 \/ (c.sess \in 1 .. Len(rs) /\ rs[c.sess].occ = o)
                        => Fits(OccPut(p, o, c), rs)
BY DEF Fits, JobPut, OccPut, JobMade, OccMade, With

(* A new occurrence waits, without a session or an outcome.                   *)
LEMMA NewFits ==
  ASSUME NEW reason \in {"schedule", "run_now"}, NEW missed \in Nat
  PROVE  /\ NewOccurrence(reason, missed) \in Occurrence
         /\ NewOccurrence(reason, missed).state = "scheduled"
         /\ NewOccurrence(reason, missed).sess = 0
         /\ NewOccurrence(reason, missed).outcome = "none"
BY DEF NewOccurrence, Occurrence

(* Whatever legal line is read next, the projection keeps its types.          *)
LEMMA ReplayKeeps ==
  ASSUME NEW p, NEW rs, WellFormed(p), Fits(p, rs), NEW l, Legal(l, rs)
  PROVE  WellFormed(Replay(p, l)) /\ Fits(Replay(p, l), rs)
<1>1. CASE l.type = "job.created" /\ l.job \in Jobs /\ l.spec \in Job
  <2>1. l.spec.key \in Keys \cup {NoKey}
    BY <1>1 DEF Job
  <2>2. Replay(p, l) = JobMade(p, l.job, l.spec, l.spec.key)
    BY <1>1, ReplayCreated
  <2>3. WellFormed(JobMade(p, l.job, l.spec, l.spec.key))
    BY <1>1, <2>1, PutsWellFormed
  <2> QED BY <2>2, <2>3, PutsFit
<1>2. CASE /\ l.type = "occurrence.created" /\ l.occ \in Occs /\ l.key \in Keys \cup {NoKey}
           /\ NewOccurrence(l.reason, l.missed) \in Occurrence
  <2>1. NewOccurrence(l.reason, l.missed).sess = 0
    BY DEF NewOccurrence
  <2>2. Replay(p, l) = OccMade(p, l.occ, NewOccurrence(l.reason, l.missed), l.key)
    BY <1>2, ReplayCreated
  <2> HIDE DEF NewOccurrence
  <2>3. WellFormed(Replay(p, l))
    BY <1>2, <2>2, PutsWellFormed
  <2> QED BY <2>1, <2>2, <2>3, PutsFit
<1>3. CASE l.type \in JobTypes /\ \A b \in Job : JobLine(b, l) \in Job
  <2>1. CASE Has(p.jobs, l.job)
    <3>1. l.job \in Jobs /\ p.jobs[l.job] \in Job
      BY <2>1 DEF Has, WellFormed
    <3>2. Replay(p, l) = JobPut(p, l.job, JobLine(p.jobs[l.job], l))
      BY <1>3, <2>1, ReplayJob
    <3> QED BY <1>3, <3>1, <3>2, PutsWellFormed, PutsFit
  <2>2. CASE ~Has(p.jobs, l.job)
    BY <1>3, <2>2, ReplayJob
  <2> QED BY <2>1, <2>2
<1>4. CASE l.type = "occurrence.observed" /\ l.text \in Texts \cup {NoText}
  <2> DEFINE j == JobOf(l.occ)
  <2>1. CASE Has(p.occs, l.occ) /\ l.update /\ Has(p.jobs, j)
    <3>1. j \in Jobs /\ [p.jobs[j] EXCEPT !.seen = l.text] \in Job
      BY <1>4, <2>1 DEF Has, WellFormed, Job
    <3>2. Replay(p, l) = JobPut(p, j, [p.jobs[j] EXCEPT !.seen = l.text])
      BY <1>4, <2>1, ReplayObserved
    <3> QED BY <3>1, <3>2, PutsWellFormed, PutsFit
  <2>2. CASE ~(Has(p.occs, l.occ) /\ l.update /\ Has(p.jobs, j))
    <3>1. Replay(p, l) = p
      BY <1>4, <2>2, ReplayObserved
    <3> QED BY <3>1
  <2> QED BY <2>1, <2>2
<1>5. CASE /\ l.type \in OccTypes /\ \A c \in Occurrence : OccLine(c, l) \in Occurrence
           /\ \/ \A c \in Occurrence : OccLine(c, l).sess = c.sess
              \/ \A c \in Occurrence :
                   OccLine(c, l).sess \in 1 .. Len(rs) /\ rs[OccLine(c, l).sess].occ = l.occ
  <2>1. CASE Has(p.occs, l.occ)
    <3>1. l.occ \in Occs /\ p.occs[l.occ] \in Occurrence /\ l.occ \in DOMAIN p.occs
      BY <2>1 DEF Has, WellFormed
    <3> DEFINE c == OccLine(p.occs[l.occ], l)
    <3>2. Replay(p, l) = OccPut(p, l.occ, c) /\ c \in Occurrence
      BY <1>5, <2>1, <3>1, ReplayOcc
    <3>3. c.sess = 0 \/ (c.sess \in 1 .. Len(rs) /\ rs[c.sess].occ = l.occ)
      BY <1>5, <3>1 DEF Fits
    <3> HIDE DEF c
    <3> QED BY <3>1, <3>2, <3>3, PutsWellFormed, PutsFit
  <2>2. CASE ~Has(p.occs, l.occ)
    BY <1>5, <2>2, ReplayOcc
  <2> QED BY <2>1, <2>2
<1> QED BY <1>1, <1>2, <1>3, <1>4, <1>5 DEF Legal

-----------------------------------------------------------------------------
(* Steps that leave the store alone.                                          *)

(* Sessions keep their occurrences.                                           *)
Kept(rs, qs) ==
  /\ qs \in Seq(Run) /\ Len(qs) = Len(rs)
  /\ \A r \in 1 .. Len(rs) : qs[r].occ = rs[r].occ /\ qs[r].bound = rs[r].bound

(* What is noted of a session keeps its occurrence.                           *)
LEMMA Noted ==
  ASSUME NEW rs \in Seq(Run), NEW r \in 1 .. Len(rs)
  PROVE  /\ Kept(rs, rs)
         /\ Kept(rs, [rs EXCEPT ![r].selected = TRUE])
         /\ Kept(rs, [rs EXCEPT ![r].called = TRUE])
         /\ Kept(rs, [rs EXCEPT ![r].done = TRUE])
         /\ \A t \in Texts \cup {NoText}, b \in BOOLEAN :
              Kept(rs, [rs EXCEPT ![r].text = t, ![r].done = b])
<1>1. ASSUME NEW q \in Run, q.occ = rs[r].occ, q.bound = rs[r].bound
      PROVE  Kept(rs, [rs EXCEPT ![r] = q])
  BY <1>1 DEF Kept
<1>2. rs[r] \in Run
  OBVIOUS
<1>3. ASSUME NEW t \in Texts \cup {NoText}, NEW b \in BOOLEAN
      PROVE  Kept(rs, [rs EXCEPT ![r].text = t, ![r].done = b])
  <2>1. [rs EXCEPT ![r].text = t, ![r].done = b]
          = [rs EXCEPT ![r] = [rs[r] EXCEPT !.text = t, !.done = b]]
    OBVIOUS
  <2>2. /\ [rs[r] EXCEPT !.text = t, !.done = b] \in Run
        /\ [rs[r] EXCEPT !.text = t, !.done = b].occ = rs[r].occ
        /\ [rs[r] EXCEPT !.text = t, !.done = b].bound = rs[r].bound
    BY <1>2 DEF Run
  <2> QED BY <1>1, <2>1, <2>2
<1>4. Kept(rs, rs)
  BY DEF Kept
<1>5. Kept(rs, [rs EXCEPT ![r].selected = TRUE])
  <2>1. [rs EXCEPT ![r].selected = TRUE] = [rs EXCEPT ![r] = [rs[r] EXCEPT !.selected = TRUE]]
    OBVIOUS
  <2>2. [rs[r] EXCEPT !.selected = TRUE] \in Run /\ [rs[r] EXCEPT !.selected = TRUE].occ = rs[r].occ
        /\ [rs[r] EXCEPT !.selected = TRUE].bound = rs[r].bound
    BY <1>2 DEF Run
  <2> QED BY <1>1, <2>1, <2>2
<1>6. Kept(rs, [rs EXCEPT ![r].called = TRUE])
  <2>1. [rs EXCEPT ![r].called = TRUE] = [rs EXCEPT ![r] = [rs[r] EXCEPT !.called = TRUE]]
    OBVIOUS
  <2>2. [rs[r] EXCEPT !.called = TRUE] \in Run /\ [rs[r] EXCEPT !.called = TRUE].occ = rs[r].occ
        /\ [rs[r] EXCEPT !.called = TRUE].bound = rs[r].bound
    BY <1>2 DEF Run
  <2> QED BY <1>1, <2>1, <2>2
<1>7. Kept(rs, [rs EXCEPT ![r].done = TRUE])
  <2>1. [rs EXCEPT ![r].done = TRUE] = [rs EXCEPT ![r] = [rs[r] EXCEPT !.done = TRUE]]
    OBVIOUS
  <2>2. [rs[r] EXCEPT !.done = TRUE] \in Run /\ [rs[r] EXCEPT !.done = TRUE].occ = rs[r].occ
        /\ [rs[r] EXCEPT !.done = TRUE].bound = rs[r].bound
    BY <1>2 DEF Run
  <2> QED BY <1>1, <2>1, <2>2
<1> QED BY <1>3, <1>4, <1>5, <1>6, <1>7

Quiet == UNCHANGED <<store, now, crashes>> /\ Kept(runs, runs')

(* What a place c says of the account, if the step to it leaves that alone: the *)
(* occurrence in hand is kept, or taken from what recovery has left.          *)
Carried(c) ==
  /\ ctl.at \notin {"halted", "down"} /\ c.at \notin {"first", "open"}
  /\ Holds(ctl) => Holds(c)
  /\ Holds(c) =>
       \/ Holds(ctl) /\ c.occ = ctl.occ /\ c.run = ctl.run
       \/ ctl.at = "recover" /\ c.occ \in ctl.occs /\ c.run = mem.occs[c.occ].sess
  /\ c.at \in {"settle", "observe"} /\ c.verdict = "succeeded" => Told(c.run)

(* The account stays right then, as long as what was published stays so.      *)
LEMMA QuietAccounts ==
  ASSUME PlaceRight, Quiet, Carried(ctl'), \A r \in Nat : Told(r) => Told(r)', ctl' \in Control,
         Accounts
  PROVE  AccountRight' /\ Stays(disk, disk')
<1>1. UNCHANGED <<disk, torn, broken, mem, now, crashes>> /\ Kept(runs, runs')
  BY DEF Quiet, store
<1>2. Placed(mem, ctl, runs, now) /\ WellFormed(disk) /\ WellFormed(mem)
  BY DEF PlaceRight, TypesRight
<1>3. /\ broken => Holds(ctl) \/ ctl.at \in {"halted", "down"}
      /\ ~broken /\ ctl.at # "down" => Same(mem, disk)
      /\ Holds(ctl) => ctl.occ \in DOMAIN disk.occs /\ disk.occs[ctl.occ].state = "claimed"
      /\ Holds(ctl) /\ ~broken => mem.occs[ctl.occ].sess = ctl.run
      /\ torn = FALSE /\ Sound(disk, runs) /\ Paid(disk)
      /\ \A q, r \in 1 .. Len(runs) : q < r /\ runs[q].occ = runs[r].occ => ~runs[q].bound
  BY DEF Accounts, AccountRight
<1>4. Holds(ctl') => /\ ctl'.occ \in DOMAIN disk.occs /\ disk.occs[ctl'.occ].state = "claimed"
                     /\ ~broken => mem.occs[ctl'.occ].sess = ctl'.run
  <2>1. CASE Holds(ctl) /\ ctl'.occ = ctl.occ /\ ctl'.run = ctl.run
    BY <1>3, <2>1
  <2>2. CASE ctl.at = "recover" /\ ctl'.occ \in ctl.occs /\ ctl'.run = mem.occs[ctl'.occ].sess
    <3>1. ~Holds(ctl) /\ ~broken /\ Same(mem, disk)
      BY <1>3, <2>2 DEF Holds, Turning
    <3>2. ctl'.occ \in ClaimedIn(mem)
      BY <1>2, <2>2, <3>1 DEF Placed, Judges, InHands
    <3> QED BY <2>2, <3>1, <3>2 DEF ClaimedIn, Same
  <2> QED BY <2>1, <2>2 DEF Carried
<1>5. Sound(disk, runs)'
  BY <1>1, <1>3 DEF Sound, Kept
<1>6. \A o \in DOMAIN disk.occs : disk.occs[o].sess \in Nat
  BY <1>2 DEF WellFormed, Occurrence
<1>7. Paid(disk)'
  BY <1>1, <1>3, <1>6 DEF Paid
<1>8. ctl'.run \in Nat
  BY DEF Control
<1>9. ctl'.at \in {"settle", "observe"} /\ ctl'.verdict = "succeeded" => Told(ctl.run)'
  BY <1>8 DEF Carried, Told
<1>10. \A q, r \in 1 .. Len(runs') : q < r /\ runs'[q].occ = runs'[r].occ => ~runs'[q].bound
  BY <1>1, <1>3 DEF Kept
<1>11. broken => Holds(ctl')
  BY <1>3 DEF Carried
<1>12. ctl.at \notin {"halted", "down"} /\ ctl'.at \notin {"first", "open"}
  BY DEF Carried
<1>13. AccountRight'
  BY <1>1, <1>3, <1>4, <1>5, <1>7, <1>9, <1>10, <1>11, <1>12 DEF AccountRight
<1> QED BY <1>1, <1>13 DEF Stays

(* If the step leaves also the outbox alone, only the place can be wrong.     *)
LEMMA QuietPlaces ==
  ASSUME PlaceRight, BoxRight, Quiet, UNCHANGED outbox,
         ctl' \in Control, ctl'.at # "down", Placed(mem, ctl', runs, now), Carried(ctl'),
         ctl'.at = "deliver" => \A d \in ctl'.items : d \in DOMAIN box /\ box[d] = "pending"
  PROVE  Keeps
<1>1. TypesRight'
  BY DEF PlaceRight, TypesRight, Quiet, Kept, store, outbox, Fits
<1>2. Placed(mem, ctl, runs, now)'
  BY DEF Quiet, Kept, Placed, InHandRight, store
<1>3. BoxRight'
  BY DEF BoxRight, outbox, Carried
<1>4. \A r \in Nat : Told(r) => Told(r)'
  BY DEF Told, outbox
<1> QED BY <1>1, <1>2, <1>3, <1>4, QuietAccounts DEF PlaceRight, Keeps

(* What a tick begins with, with the jobs or the occurrences it is to see.    *)
LEMMA IdleRight ==
  /\ Idle \in Control
  /\ \A J \in SUBSET Jobs : [Idle EXCEPT !.at = "sweep", !.jobs = J] \in Control
  /\ \A p \in {"recover", "idle"}, O \in SUBSET Occs :
       [Idle EXCEPT !.at = p, !.occs = O] \in Control
  /\ \A p \in {"claim", "clean", "halted", "down"} : [Idle EXCEPT !.at = p] \in Control
  /\ \A o \in Occs : [Idle EXCEPT !.at = "open", !.occ = o] \in Control
<1>1. Idle \in Control
  BY DEF Idle, Control, Places
<1>2. ASSUME NEW J \in SUBSET Jobs PROVE [Idle EXCEPT !.at = "sweep", !.jobs = J] \in Control
  BY <1>1 DEF Control, Places
<1>3. ASSUME NEW p \in {"recover", "idle"}, NEW O \in SUBSET Occs
      PROVE  [Idle EXCEPT !.at = p, !.occs = O] \in Control
  BY <1>1 DEF Control, Places
<1>4. ASSUME NEW p \in {"claim", "clean", "halted", "down"} PROVE [Idle EXCEPT !.at = p] \in Control
  BY <1>1 DEF Control, Places
<1>5. ASSUME NEW o \in Occs PROVE [Idle EXCEPT !.at = "open", !.occ = o] \in Control
  BY <1>1 DEF Control, Places
<1> QED BY <1>1, <1>2, <1>3, <1>4, <1>5

(* The steps of commands and sweep that only go on.                           *)
LEMMA SchedulePlaces ==
  ASSUME PlaceRight, BoxRight,
         BeginTick \/ CancelDone \/ CommandsDone \/ SweepDone
           \/ \E j \in ctl.jobs : SweepPass(j) \/ SweepDrop(j)
  PROVE  Keeps
<1> USE DEF PlaceRight, TypesRight, At, Go, Control, Places, Idle, Placed, Carried, Holds, Turning,
  Judges, InHands
<1>1. CASE BeginTick
  <2>1. ctl' \in Control /\ ctl'.at = "commands" /\ Placed(mem, ctl', runs, now) /\ Carried(ctl')
    BY <1>1 DEF BeginTick
  <2> QED BY <1>1, <2>1, QuietPlaces DEF BeginTick, Others, Quiet, Kept
<1>2. CASE CancelDone
  <2>1. ctl' \in Control /\ ctl'.at = "commands" /\ Placed(mem, ctl', runs, now) /\ Carried(ctl')
    BY <1>2 DEF CancelDone
  <2> QED BY <1>2, <2>1, QuietPlaces DEF CancelDone, Others, Quiet, Kept
<1>3. CASE CommandsDone
  <2>1. DOMAIN mem.jobs \subseteq Jobs
    BY DEF WellFormed
  <2>2. ctl' = [Idle EXCEPT !.at = "sweep", !.jobs = DOMAIN mem.jobs]
    BY <1>3 DEF CommandsDone
  <2>3. ctl' \in Control
    <3> HIDE DEF Idle, Control, Places
    <3> QED BY <2>1, <2>2, IdleRight
  <2>4. Placed(mem, ctl', runs, now) /\ Carried(ctl')
    BY <1>3, <2>2 DEF CommandsDone
  <2> QED BY <1>3, <2>2, <2>3, <2>4, QuietPlaces DEF CommandsDone, Others, Quiet, Kept
<1>4. CASE SweepDone
  <2>1. Claimed = ClaimedIn(mem) /\ Claimed \subseteq DOMAIN mem.occs /\ Claimed \subseteq Occs
    BY DEF Claimed, ClaimedIn, OccRec, WellFormed
  <2>2. ctl' = [Idle EXCEPT !.at = "recover", !.occs = Claimed]
    BY <1>4 DEF SweepDone
  <2>3. ctl' \in Control
    <3> HIDE DEF Idle, Control, Places
    <3> QED BY <2>1, <2>2, IdleRight
  <2>4. Placed(mem, ctl', runs, now) /\ Carried(ctl')
    BY <1>4, <2>1, <2>2 DEF SweepDone
  <2> QED BY <1>4, <2>2, <2>3, <2>4, QuietPlaces DEF SweepDone, Others, Quiet, Kept
<1>5. ASSUME NEW j \in ctl.jobs, SweepPass(j) PROVE Keeps
  <2>1. ctl' \in Control /\ ctl'.at = "sweep" /\ Placed(mem, ctl', runs, now) /\ Carried(ctl')
    BY <1>5 DEF SweepPass, Sweeping
  <2> QED BY <1>5, <2>1, QuietPlaces DEF SweepPass, Sweeping, Others, Quiet, Kept
<1>6. ASSUME NEW j \in ctl.jobs, SweepDrop(j) PROVE Keeps
  <2>1. j \in DOMAIN mem.jobs /\ j \in Jobs /\ DueIn(mem.jobs[j], now) # {}
    BY <1>6 DEF SweepDrop, Due, DueIn, JobRec, WellFormed
  <2>2. ctl' \in Control /\ ctl'.at = "advance" /\ Placed(mem, ctl', runs, now) /\ Carried(ctl')
    BY <1>6, <2>1 DEF SweepDrop, Sweeping, Due2nd
  <2> QED BY <1>6, <2>2, QuietPlaces DEF SweepDrop, Sweeping, Others, Quiet, Kept
<1> QED BY <1>1, <1>2, <1>3, <1>4, <1>5, <1>6

(* The steps of recovery and claiming that only go on.                        *)
LEMMA JudgingPlaces ==
  ASSUME PlaceRight, BoxRight,
         \/ RecoverDone \/ LookForWork \/ NothingToClaim
         \/ \E o \in ctl.occs :
              GiveUp(o) \/ RecoverBlind(o) \/ RecoverUnchanged(o) \/ RecoverReply(o)
  PROVE  Keeps
<1> USE DEF PlaceRight, TypesRight, At, Control, Places, Idle
<1>1. CASE RecoverDone
  <2>1. ctl' = [ctl EXCEPT !.at = "deliver", !.then = "claim",
                !.items = {d \in DOMAIN box : box[d] = "pending"}]
    BY <1>1 DEF RecoverDone, Deliver
  <2>2. {d \in DOMAIN box : box[d] = "pending"} \in SUBSET Items
    BY DEF Items, ItemsOf
  <2>3. ctl' \in Control /\ ctl'.at = "deliver" /\ Placed(mem, ctl', runs, now) /\ Carried(ctl')
    BY <1>1, <2>1, <2>2 DEF RecoverDone, Placed, Carried, Holds, Turning, Judges, InHands
  <2>4. \A d \in ctl'.items : d \in DOMAIN box /\ box[d] = "pending"
    BY <2>1
  <2> QED BY <1>1, <2>3, <2>4, QuietPlaces DEF RecoverDone, StoreAside, Quiet, Kept
<1>2. CASE LookForWork
  <2>1. /\ ctl' \in Control
        /\ ctl'.at \in {"clean", "idle"}
        /\ Placed(mem, ctl', runs, now)
        /\ Carried(ctl')
    BY <1>2 DEF LookForWork, Placed, Carried, Holds, Turning, Judges, InHands
  <2> QED BY <1>2, <2>1, QuietPlaces DEF LookForWork, StoreAside, Quiet, Kept
<1>3. CASE NothingToClaim
  <2>1. ctl' \in Control /\ ctl'.at = "idle" /\ Placed(mem, ctl', runs, now) /\ Carried(ctl')
    BY <1>3 DEF NothingToClaim, Placed, Carried, Holds, Turning, Judges, InHands
  <2> QED BY <1>3, <2>1, QuietPlaces DEF NothingToClaim, StoreAside, Quiet, Kept
<1>4. ASSUME NEW o \in ctl.occs, Recovering(o), NEW v \in Outcomes, v # "succeeded",
             ctl' = Judged(o, v), UNCHANGED <<store, outbox, now, crashes>>, Kept(runs, runs')
      PROVE  Keeps
  <2>1. o \in DOMAIN mem.occs /\ o \in Occs /\ mem.occs[o].sess \in Nat
    BY <1>4 DEF Recovering, Placed, WellFormed, Occurrence
  <2>2. mem.occs[o].sess # 0 =>
          mem.occs[o].sess \in 1 .. Len(runs) /\ runs[mem.occs[o].sess].occ = o
    BY <2>1 DEF Fits
  <2>3. ctl' \in Control /\ ctl'.at = "settle" /\ ctl'.occ = o /\ ctl'.run = mem.occs[o].sess
          /\ ctl'.occs = ctl.occs \ {o} /\ ctl'.back = "recover" /\ ctl'.verdict = v
          /\ ctl'.jobs = ctl.jobs /\ ctl'.items = ctl.items
    BY <1>4, <2>1 DEF Judged, InHand, OccRec
  <2>4. Placed(mem, ctl', runs, now) /\ Carried(ctl')
    BY <1>4, <2>1, <2>2, <2>3 DEF Placed, Carried, Holds, Turning, Judges, InHands, InHandRight,
       Replying, Judging, Recovering
  <2> QED BY <1>4, <2>3, <2>4, QuietPlaces DEF Recovering, Quiet
<1>5. Kept(runs, runs)
  BY DEF Kept
<1>6. ASSUME NEW o \in ctl.occs, GiveUp(o) PROVE Keeps
  BY <1>4, <1>5, <1>6 DEF GiveUp, StoreAside, Outcomes
<1>7. ASSUME NEW o \in ctl.occs, RecoverBlind(o) PROVE Keeps
  BY <1>4, <1>5, <1>7 DEF RecoverBlind, StoreAside, Outcomes
<1>8. ASSUME NEW o \in ctl.occs, RecoverUnchanged(o) PROVE Keeps
  <2>1. o \in DOMAIN mem.occs /\ o \in Occs /\ mem.occs[o].sess \in Nat /\ mem.occs[o].sess # 0
    BY <1>8 DEF RecoverUnchanged, Recovering, Answered, OccRec, Placed, WellFormed, Occurrence
  <2>2. mem.occs[o].sess \in 1 .. Len(runs) /\ runs[mem.occs[o].sess].occ = o
    BY <2>1 DEF Fits
  <2>3. ctl' \in Control /\ ctl'.at = "observe" /\ ctl'.occ = o /\ ctl'.run = mem.occs[o].sess
          /\ ctl'.occs = ctl.occs \ {o} /\ ctl'.back = "recover" /\ ctl'.verdict = "unchanged"
          /\ ctl'.jobs = ctl.jobs /\ ctl'.items = ctl.items
    BY <1>8, <2>1 DEF RecoverUnchanged, Judged, InHand, OccRec, Outcomes
  <2>4. Placed(mem, ctl', runs, now) /\ Carried(ctl')
    BY <1>8, <2>1, <2>2, <2>3 DEF Placed, Carried, Holds, Turning, Judges, InHands, InHandRight,
       Replying, Judging, RecoverUnchanged, Recovering, Outcomes
  <2> QED BY <1>5, <1>8, <2>3, <2>4, QuietPlaces DEF RecoverUnchanged, Recovering, StoreAside, Quiet
<1>9. ASSUME NEW o \in ctl.occs, RecoverReply(o) PROVE Keeps
  <2> DEFINE r == mem.occs[o].sess
  <2>1. o \in DOMAIN mem.occs /\ o \in Occs /\ r \in Nat /\ r # 0
    BY <1>9 DEF RecoverReply, Recovering, Answered, OccRec, Placed, WellFormed, Occurrence
  <2>2. r \in 1 .. Len(runs) /\ runs[r].occ = o
    BY <2>1 DEF Fits
  <2>3. Kept(runs, [runs EXCEPT ![r].selected = TRUE])
    BY <2>2, Noted
  <2>4. Recovering(o) /\ UNCHANGED <<store, outbox, now, crashes>> /\ OccRec(o).sess = r
        /\ mem.occs[o].sess = r
    BY <1>9 DEF RecoverReply, StoreAside, OccRec
  <2>5. \/ /\ runs' = [runs EXCEPT ![r].selected = TRUE]
           /\ ctl' = [InHand(o, r) EXCEPT !.at = "enqueue"]
        \/ /\ ctl' = Judged(o, "needs_review")
           /\ runs' \in {runs, [runs EXCEPT ![r].selected = TRUE]}
    BY <1>9, <2>4 DEF RecoverReply
  <2> HIDE DEF r
  <2>6. Kept(runs, runs')
    BY <1>5, <2>3, <2>5
  <2>7. CASE ctl' = Judged(o, "needs_review")
    BY <1>4, <2>4, <2>6, <2>7 DEF Outcomes
  <2>8. CASE ctl' = [InHand(o, r) EXCEPT !.at = "enqueue"]
    <3>1. ctl' \in Control /\ ctl'.at = "enqueue" /\ ctl'.occ = o /\ ctl'.run = r
            /\ ctl'.occs = ctl.occs \ {o} /\ ctl'.back = "recover"
            /\ ctl'.jobs = ctl.jobs /\ ctl'.items = ctl.items
      BY <2>1, <2>8 DEF InHand
    <3>2. Placed(mem, ctl', runs, now) /\ Carried(ctl')
      BY <2>1, <2>2, <2>4, <3>1 DEF Placed, Carried, Holds, Turning, Judges, InHands,
         InHandRight, Replying, Judging, Recovering
    <3> QED BY <2>4, <2>6, <3>1, <3>2, QuietPlaces DEF Recovering, Quiet
  <2> QED BY <2>5, <2>7, <2>8
<1> QED BY <1>1, <1>2, <1>3, <1>6, <1>7, <1>8, <1>9

(* The steps of a turn that only go on.                                       *)
LEMMA TurnPlaces ==
  ASSUME PlaceRight, BoxRight,
         \/ TurnFails \/ AskModel \/ CutByBudget \/ Select \/ Failed
         \/ \E t \in Texts \cup {NoText}, last \in BOOLEAN : Speak(t, last)
  PROVE  Keeps
<1> USE DEF PlaceRight, TypesRight, At, Go, Control, Places, Failing, StoreAside
<1>1. Kept(runs, runs)
  BY DEF Kept
<1>2. ASSUME ctl.run \in 1 .. Len(runs)
      PROVE  /\ Kept(runs, [runs EXCEPT ![ctl.run].selected = TRUE])
             /\ Kept(runs, [runs EXCEPT ![ctl.run].called = TRUE])
             /\ Kept(runs, [runs EXCEPT ![ctl.run].done = TRUE])
             /\ \A t \in Texts \cup {NoText}, b \in BOOLEAN :
                  Kept(runs, [runs EXCEPT ![ctl.run].text = t, ![ctl.run].done = b])
  BY <1>2, Noted
<1>3. ASSUME ctl.at \in {"ask", "turn", "select"} PROVE ctl.run \in 1 .. Len(runs)
  BY <1>3 DEF Placed, Carried, Holds, Turning, InHandRight, Replying
<1>4. CASE TurnFails
  <2>1. Kept(runs, runs')
    BY <1>1, <1>2, <1>3, <1>4 DEF TurnFails
  <2>2. ctl' \in Control /\ ctl'.at = "failed" /\ Placed(mem, ctl', runs, now) /\ Carried(ctl')
    BY <1>4 DEF TurnFails, Placed, Carried, Holds, Turning, Judges, InHands, InHandRight,
       Replying, Judging
  <2> QED BY <1>4, <2>1, <2>2, QuietPlaces DEF TurnFails, Quiet
<1>5. CASE AskModel
  <2>1. Kept(runs, runs')
    BY <1>2, <1>3, <1>5 DEF AskModel
  <2>2. ctl' \in Control /\ ctl'.at = "turn" /\ Placed(mem, ctl', runs, now) /\ Carried(ctl')
    BY <1>5 DEF AskModel, Placed, Carried, Holds, Turning, Judges, InHands, InHandRight,
       Replying, Judging
  <2> QED BY <1>5, <2>1, <2>2, QuietPlaces DEF AskModel, Quiet
<1>6. CASE CutByBudget
  <2>1. Kept(runs, runs')
    BY <1>2, <1>3, <1>6 DEF CutByBudget
  <2>2. ctl' \in Control /\ ctl'.at = "select" /\ Placed(mem, ctl', runs, now) /\ Carried(ctl')
    BY <1>6 DEF CutByBudget, Placed, Carried, Holds, Turning, Judges, InHands, InHandRight,
       Replying, Judging
  <2> QED BY <1>6, <2>1, <2>2, QuietPlaces DEF CutByBudget, Quiet
<1>7. ASSUME NEW t \in Texts \cup {NoText}, NEW last \in BOOLEAN, Speak(t, last)
      PROVE  Keeps
  <2>1. Kept(runs, runs')
    BY <1>2, <1>3, <1>7 DEF Speak
  <2>2. /\ ctl' \in Control
        /\ ctl'.at \in {"select", "turn"}
        /\ Placed(mem, ctl', runs, now)
        /\ Carried(ctl')
    BY <1>7 DEF Speak, Placed, Carried, Holds, Turning, Judges, InHands, InHandRight, Replying,
       Judging
  <2> QED BY <1>7, <2>1, <2>2, QuietPlaces DEF Speak, Quiet
<1>8. ASSUME Holds(ctl), ctl.at # "deliver", NEW v \in Outcomes,
             NEW p \in {"settle", "observe", "notice"},
             v # "succeeded", ctl' = [ctl EXCEPT !.at = p, !.verdict = v],
             UNCHANGED <<store, outbox, now, crashes>>, Kept(runs, runs')
      PROVE  Keeps
  <2>1. /\ ctl' \in Control /\ ctl'.at = p /\ ctl'.verdict = v
        /\ ctl'.occ = ctl.occ /\ ctl'.run = ctl.run
        /\ ctl'.occs = ctl.occs
        /\ ctl'.back = ctl.back
        /\ ctl'.jobs = ctl.jobs
        /\ ctl'.items = ctl.items
    BY <1>8
  <2>2. Placed(mem, ctl', runs, now) /\ Carried(ctl')
    BY <1>8, <2>1 DEF Placed, Carried, Holds, Turning, Judges, InHands, InHandRight, Replying,
       Judging
  <2> QED BY <1>8, <2>1, <2>2, QuietPlaces DEF Quiet, Holds, Turning
<1>9. CASE Select
  <2>1. Kept(runs, runs')
    BY <1>2, <1>3, <1>9 DEF Select
  <2>2. \/ ctl' = [ctl EXCEPT !.at = "settle", !.verdict = "needs_review"]
        \/ ctl' = [ctl EXCEPT !.at = "observe", !.verdict = "unchanged"]
        \/ ctl' = [ctl EXCEPT !.at = "enqueue"]
    BY <1>9 DEF Select, SettleAs
  <2>3. CASE ctl' = [ctl EXCEPT !.at = "enqueue"]
    <3>1. ctl' \in Control /\ ctl'.at = "enqueue" /\ Placed(mem, ctl', runs, now) /\ Carried(ctl')
      BY <1>9, <2>3 DEF Select, Placed, Carried, Holds, Turning, Judges, InHands, InHandRight,
         Replying, Judging
    <3> QED BY <1>9, <2>1, <3>1, QuietPlaces DEF Select, Quiet
  <2> QED BY <1>8, <1>9, <2>1, <2>2, <2>3 DEF Select, Holds, Turning, Outcomes
<1>10. CASE Failed
  <2>1. PICK v \in {"cancelled", "failed"}, p \in {"notice", "settle"} :
               ctl' = [ctl EXCEPT !.at = p, !.verdict = v]
    BY <1>10 DEF Failed, SettleAs
  <2> QED BY <1>1, <1>8, <1>10, <2>1 DEF Failed, Holds, Turning, Outcomes
<1> QED BY <1>4, <1>5, <1>6, <1>7, <1>9, <1>10

-----------------------------------------------------------------------------
(* Steps of the outbox.                                                       *)

(* What of the outbox does not depend on the place of the tick.               *)
BoxTyped(b, n) == DOMAIN b \subseteq ItemsOf(n) /\ b \in [DOMAIN b -> ItemStates]
BoxKept(b, d, pub, isBroken, n) ==
  /\ BoxTyped(b, n) /\ BoxTyped(d, n) /\ pub \subseteq ItemsOf(n) /\ isBroken \in BOOLEAN
  /\ ~isBroken => b = d
  /\ \A i \in DOMAIN b : b[i] = "delivered" => i \in DOMAIN d /\ d[i] = "delivered"
  /\ \A i \in DOMAIN d : d[i] = "delivered" => i \in pub

(* What the outbox delivered stays delivered.                                 *)
StillTold == \A r \in Nat : Told(r) => Told(r)'

(* An append to the outbox's account that forgets nothing delivered.          *)
LEMMA BoxWrites ==
  ASSUME NEW n, BoxKept(box, boxDisk, published, boxBroken, n),
         published \subseteq published', published' \subseteq ItemsOf(n),
         NEW b, BoxTyped(b, n), DOMAIN box \subseteq DOMAIN b,
         \A i \in DOMAIN box : box[i] = "delivered" => b[i] = "delivered",
         \A i \in DOMAIN b : b[i] = "delivered" => i \in published',
         BoxAppended(b) \/ BoxFails(b)
  PROVE  BoxKept(box', boxDisk', published', boxBroken', n) /\ StillTold
<1>1. CASE BoxAppended(b)
  BY <1>1 DEF BoxAppended, BoxKept, StillTold, Told, Has
<1>2. CASE BoxFails(b)
  <2>1. boxBroken' = TRUE /\ box' = box /\ (boxDisk' = boxDisk \/ (~boxBroken /\ boxDisk' = b))
    BY <1>2 DEF BoxFails, BoxKept
  <2> QED BY <2>1 DEF BoxKept, StillTold, Told, Has
<1> QED BY <1>1, <1>2

(* A step of the outbox is right if it leaves the account and the place so.   *)
LEMMA BoxPlaces ==
  ASSUME PlaceRight, BoxRight, StoreIdle,
         BoxKept(box, boxDisk, published, boxBroken, Len(runs))
           => BoxKept(box', boxDisk', published', boxBroken', Len(runs)) /\ StillTold,
         ctl' \in Control, ctl'.at # "down", Placed(mem, ctl', runs, now), Carried(ctl'),
         ctl'.at = "deliver" => \A d \in ctl'.items : d \in DOMAIN box' /\ box'[d] = "pending"
  PROVE  Keeps
<1>1. BoxKept(box, boxDisk, published, boxBroken, Len(runs))
  BY DEF PlaceRight, TypesRight, BoxRight, BoxKept, BoxTyped, Carried
<1>2. BoxKept(box', boxDisk', published', boxBroken', Len(runs)) /\ StillTold
  BY <1>1
<1>3. UNCHANGED <<disk, torn, broken, mem, runs, now, crashes>>
  BY DEF StoreIdle, store
<1>4. TypesRight'
  BY <1>2, <1>3 DEF PlaceRight, TypesRight, BoxKept, BoxTyped, Fits
<1>5. Placed(mem, ctl, runs, now)'
  BY <1>3
<1>6. BoxRight'
  BY <1>2 DEF BoxRight, BoxKept, Carried
<1>7. Quiet
  BY <1>3 DEF Quiet, Kept, store, PlaceRight, TypesRight
<1> QED BY <1>2, <1>4, <1>5, <1>6, <1>7, QuietAccounts DEF PlaceRight, Keeps, StillTold

(* What waits in b is delivered next.                                         *)
LEMMA DeliverForm ==
  ASSUME ctl \in Control, NEW b, NEW n \in Nat, BoxTyped(b, n),
         NEW then \in {"replied", "noticed", "claim"}
  PROVE  /\ Deliver(b, then) \in Control
         /\ Deliver(b, then).at = "deliver" /\ Deliver(b, then).then = then
         /\ Deliver(b, then).items = {d \in DOMAIN b : b[d] = "pending"}
         /\ Deliver(b, then).occ = ctl.occ /\ Deliver(b, then).run = ctl.run
         /\ Deliver(b, then).occs = ctl.occs /\ Deliver(b, then).back = ctl.back
         /\ Deliver(b, then).jobs = ctl.jobs /\ Deliver(b, then).verdict = ctl.verdict
<1> DEFINE D == {d \in DOMAIN b : b[d] = "pending"}
<1>1. D \in SUBSET Items
  BY DEF BoxTyped, ItemsOf, Items
<1>2. Deliver(b, then) = [ctl EXCEPT !.at = "deliver", !.then = then, !.items = D]
  BY DEF Deliver
<1> HIDE DEF D
<1>3. /\ Deliver(b, then) \in Control
      /\ Deliver(b, then).at = "deliver" /\ Deliver(b, then).then = then
      /\ Deliver(b, then).items = D
      /\ Deliver(b, then).occ = ctl.occ /\ Deliver(b, then).run = ctl.run
      /\ Deliver(b, then).occs = ctl.occs /\ Deliver(b, then).back = ctl.back
      /\ Deliver(b, then).jobs = ctl.jobs /\ Deliver(b, then).verdict = ctl.verdict
  BY <1>1, <1>2 DEF Control, Places
<1> QED BY <1>3 DEF D

(* Enqueue, for a reply or a notice.                                          *)
LEMMA EnqueuePlaces ==
  ASSUME PlaceRight, BoxRight, Enqueue
  PROVE  Keeps
<1> DEFINE d == IF At("enqueue") THEN Reply(ctl.run) ELSE Notice(ctl.occ)
           then == IF At("enqueue") THEN "replied" ELSE "noticed"
           b == With(box, d, "pending")
           n == Len(runs)
<1>1. At("enqueue") \/ At("notice")
  BY DEF Enqueue
<1>2. d \in ItemsOf(n) /\ n \in Nat
  <2>1. CASE At("enqueue")
    <3>1. ctl.run \in 1 .. n
      BY <2>1 DEF PlaceRight, Placed, Carried, Holds, Turning, InHandRight, Replying, At
    <3> QED BY <2>1, <3>1 DEF ItemsOf, Reply, PlaceRight, TypesRight
  <2>2. CASE At("notice")
    <3>1. ctl.occ \in Occs
      BY <2>2 DEF PlaceRight, TypesRight, Placed, Holds, InHandRight, At, WellFormed
    <3> QED BY <2>2, <3>1 DEF ItemsOf, Notice, PlaceRight, TypesRight, At
  <2> QED BY <1>1, <2>1, <2>2
<1>3. BoxTyped(box, n) /\ BoxTyped(b, n)
  BY <1>2 DEF PlaceRight, TypesRight, BoxTyped, With, ItemStates
<1>4. /\ then \in {"replied", "noticed", "claim"}
      /\ At("enqueue") => then = "replied" /\ ctl.run # 0
      /\ At("notice") => then = "noticed"
  BY DEF At, PlaceRight, Placed, Carried, Holds, Turning, InHandRight, Replying
<1>5. /\ published' = published /\ StoreIdle
      /\ \/ /\ ctl' = Deliver(box, then)
            /\ UNCHANGED <<box, boxDisk, boxBroken>>
         \/ /\ ~Has(box, d) /\ BoxAppended(b)
            /\ ctl' = Deliver(b, then)
         \/ /\ ~Has(box, d)
            /\ BoxFails(b) \/ UNCHANGED <<box, boxDisk, boxBroken>>
            /\ ctl' = SettleAs("needs_review") \/ ctl' = Deliver(box, then)
  BY DEF Enqueue
<1>6. ctl.at # "down" /\ ctl \in Control
  BY <1>1 DEF At, PlaceRight, TypesRight
<1>7. BoxKept(box, boxDisk, published, boxBroken, n) =>
        BoxKept(box', boxDisk', published', boxBroken', n) /\ StillTold
  <2>1. CASE UNCHANGED <<box, boxDisk, boxBroken>>
    BY <1>5, <2>1 DEF StillTold, Told
  <2>2. CASE ~Has(box, d) /\ (BoxAppended(b) \/ BoxFails(b))
    <3>1. /\ DOMAIN box \subseteq DOMAIN b
          /\ (\A i \in DOMAIN box : box[i] = "delivered" => b[i] = "delivered")
      BY <2>2 DEF With, Has
    <3>2. ASSUME BoxKept(box, boxDisk, published, boxBroken, n)
          PROVE  \A i \in DOMAIN b : b[i] = "delivered" => i \in published
      BY <3>2 DEF With, Has, BoxKept
    <3>3. ASSUME BoxKept(box, boxDisk, published, boxBroken, n) PROVE published \subseteq ItemsOf(n)
      BY <3>3 DEF BoxKept
    <3> HIDE DEF b, d, n
    <3> QED BY <1>3, <1>5, <2>2, <3>1, <3>2, <3>3, BoxWrites
  <2> QED BY <1>5, <2>1, <2>2
<1>8. ASSUME NEW x, BoxTyped(x, n), ctl' = Deliver(x, then), box' = x
      PROVE  Keeps
  <2> HIDE DEF d, b, then
  <2>1. /\ ctl' \in Control /\ ctl'.at = "deliver" /\ ctl'.then = then
        /\ ctl'.occ = ctl.occ /\ ctl'.run = ctl.run /\ ctl'.occs = ctl.occs /\ ctl'.back = ctl.back
        /\ ctl'.jobs = ctl.jobs /\ ctl'.verdict = ctl.verdict
        /\ ctl'.items = {i \in DOMAIN x : x[i] = "pending"}
    BY <1>2, <1>4, <1>6, <1>8, DeliverForm
  <2>2. Placed(mem, ctl', runs, now) /\ Carried(ctl')
    BY <1>1, <1>4, <2>1 DEF PlaceRight, At, Placed, Carried, Holds, Turning, Judges, InHands,
       InHandRight, Replying, Judging
  <2>3. \A i \in ctl'.items : i \in DOMAIN box' /\ box'[i] = "pending"
    BY <1>8, <2>1
  <2> QED BY <1>5, <1>6, <1>7, <2>1, <2>2, <2>3, BoxPlaces
<1>9. CASE ctl' = SettleAs("needs_review")
  <2> HIDE DEF d, b, then
  <2>1. /\ ctl' \in Control /\ ctl'.at = "settle" /\ ctl'.verdict = "needs_review"
        /\ ctl'.occ = ctl.occ /\ ctl'.run = ctl.run /\ ctl'.occs = ctl.occs /\ ctl'.back = ctl.back
        /\ ctl'.jobs = ctl.jobs /\ ctl'.items = ctl.items
    BY <1>6, <1>9 DEF SettleAs, Control, Places, Outcomes
  <2>2. Placed(mem, ctl', runs, now) /\ Carried(ctl')
    BY <1>1, <2>1 DEF PlaceRight, At, Placed, Carried, Holds, Turning, Judges, InHands,
       InHandRight, Replying, Judging, Outcomes
  <2> QED BY <1>5, <1>6, <1>7, <2>1, <2>2, BoxPlaces
<1>10. box' = box \/ (box' = b /\ ctl' = Deliver(b, then))
  BY <1>5 DEF BoxAppended, BoxFails
<1> HIDE DEF b, d, n
<1> QED BY <1>3, <1>5, <1>8, <1>9, <1>10 DEF BoxAppended

(* DeliverPending, item by item.                                              *)
LEMMA DeliverPlaces ==
  ASSUME PlaceRight, BoxRight, NEW d \in ctl.items, Publish(d) \/ PublishFails(d) \/ Flag(d)
  PROVE  Keeps
<1> DEFINE n == Len(runs)
<1>1. At("deliver") /\ ctl.at = "deliver" /\ StoreIdle
  BY DEF Publish, PublishFails, Flag, Delivering, At
<1>2. d \in DOMAIN box /\ box[d] = "pending" /\ ctl \in Control /\ n \in Nat
  BY <1>1 DEF BoxRight, PlaceRight, TypesRight
<1>3. d \in ItemsOf(n) /\ BoxTyped(box, n) /\ published \subseteq ItemsOf(n)
  BY <1>2 DEF BoxTyped, PlaceRight, TypesRight
<1>4. ASSUME NEW I \in SUBSET ctl.items, ctl' = [ctl EXCEPT !.items = I],
             \A i \in I : i \in DOMAIN box' /\ box'[i] = "pending",
             BoxKept(box, boxDisk, published, boxBroken, n) =>
               BoxKept(box', boxDisk', published', boxBroken', n) /\ StillTold
      PROVE  Keeps
  <2>1. /\ ctl' \in Control
        /\ ctl'.at = "deliver"
        /\ ctl'.then = ctl.then
        /\ ctl'.verdict = ctl.verdict
        /\ ctl'.occ = ctl.occ /\ ctl'.run = ctl.run /\ ctl'.occs = ctl.occs /\ ctl'.back = ctl.back
        /\ ctl'.jobs = ctl.jobs /\ ctl'.items = I
    BY <1>1, <1>2, <1>4 DEF Control
  <2>2. Placed(mem, ctl', runs, now) /\ Carried(ctl')
    BY <1>1, <2>1 DEF PlaceRight, Placed, Carried, Holds, Turning, Judges, InHands, InHandRight,
       Replying, Judging
  <2> QED BY <1>1, <1>4, <2>1, <2>2, BoxPlaces
<1>5. ASSUME NEW v \in {"delivered", "flagged"}, published \subseteq published',
             published' \subseteq ItemsOf(n),
             v = "delivered" => d \in published',
             BoxAppended([box EXCEPT ![d] = v]) \/ BoxFails([box EXCEPT ![d] = v])
      PROVE  BoxKept(box, boxDisk, published, boxBroken, n) =>
               BoxKept(box', boxDisk', published', boxBroken', n) /\ StillTold
  <2> DEFINE b == [box EXCEPT ![d] = v]
  <2>1. BoxTyped(b, n) /\ DOMAIN box \subseteq DOMAIN b
    BY <1>3, <1>5 DEF BoxTyped, ItemStates
  <2>2. \A i \in DOMAIN box : box[i] = "delivered" => b[i] = "delivered"
    BY <1>2
  <2>3. ASSUME BoxKept(box, boxDisk, published, boxBroken, n)
        PROVE  \A i \in DOMAIN b : b[i] = "delivered" => i \in published'
    BY <1>5, <2>3 DEF BoxKept
  <2> HIDE DEF b, n
  <2> QED BY <1>5, <2>1, <2>2, <2>3, BoxWrites DEF b
<1> DEFINE I == ctl.items \ {d}
<1>6. \A i \in I : /\ i \in DOMAIN box /\ box[i] = "pending"
                   /\ \A v : [box EXCEPT ![d] = v][i] = box[i]
  BY <1>1 DEF BoxRight
<1>7. Past(d) = [ctl EXCEPT !.items = I] /\ I \in SUBSET ctl.items
  BY <1>2 DEF Past
<1>8. CASE Publish(d)
  <2> DEFINE b == [box EXCEPT ![d] = "delivered"]
  <2>1. published \subseteq published' /\ published' \subseteq ItemsOf(n) /\ d \in published'
    BY <1>3, <1>8 DEF Publish
  <2>2. \/ BoxAppended(b) /\ ctl' = Past(d)
        \/ BoxFails(b) /\ ctl' = [ctl EXCEPT !.items = {}]
    BY <1>8 DEF Publish
  <2>3. BoxKept(box, boxDisk, published, boxBroken, n) =>
          BoxKept(box', boxDisk', published', boxBroken', n) /\ StillTold
    BY <1>5, <2>1, <2>2
  <2>4. CASE BoxAppended(b) /\ ctl' = Past(d)
    <3>1. \A i \in I : i \in DOMAIN box' /\ box'[i] = "pending"
      BY <1>6, <2>4 DEF BoxAppended
    <3> HIDE DEF I
    <3> QED BY <1>4, <1>7, <2>3, <2>4, <3>1
  <2>5. CASE ctl' = [ctl EXCEPT !.items = {}]
    <3>1. {} \in SUBSET ctl.items /\ \A i \in {} : i \in DOMAIN box' /\ box'[i] = "pending"
      OBVIOUS
    <3> QED BY <1>4, <2>3, <2>5, <3>1
  <2> QED BY <2>2, <2>4, <2>5
<1>9. CASE PublishFails(d)
  <2>1. UNCHANGED <<box, boxDisk, boxBroken, published>> /\ ctl' = Past(d)
    BY <1>9 DEF PublishFails, outbox
  <2>2. StillTold
    BY <2>1 DEF StillTold, Told
  <2> QED BY <1>4, <1>6, <1>7, <2>1, <2>2
<1>10. CASE Flag(d)
  <2> DEFINE b == [box EXCEPT ![d] = "flagged"]
  <2>1. (BoxAppended(b) \/ BoxFails(b)) /\ ctl' = Past(d) /\ published' = published
    BY <1>10 DEF Flag
  <2>2. BoxKept(box, boxDisk, published, boxBroken, n) =>
          BoxKept(box', boxDisk', published', boxBroken', n) /\ StillTold
    BY <1>3, <1>5, <2>1
  <2>3. \A i \in I : i \in DOMAIN box' /\ box'[i] = "pending"
    BY <1>2, <1>6, <2>1 DEF BoxAppended, BoxFails
  <2> HIDE DEF I
  <2> QED BY <1>4, <1>7, <2>1, <2>2, <2>3
<1> QED BY <1>8, <1>9, <1>10

(* What is delivered decides how the occurrence in hand is settled.           *)
LEMMA DeliveredPlaces ==
  ASSUME PlaceRight, BoxRight, DeliverDone
  PROVE  Keeps
<1>1. ctl.at = "deliver" /\ ctl \in Control /\ UNCHANGED outbox /\ StoreIdle /\ runs \in Seq(Run)
  BY DEF DeliverDone, At, PlaceRight, TypesRight
<1>2. ctl.then \in {"replied", "noticed", "claim"}
  BY <1>1 DEF PlaceRight, Placed, Control
<1>3. Quiet /\ ctl.at # "down"
  BY <1>1 DEF StoreIdle, Quiet, Kept
<1>4. CASE ctl.then = "replied"
  <2>1. PICK v \in {"succeeded", "needs_review"}, p \in {"observe", "settle"} :
          /\ ctl' = [SettleAs(v) EXCEPT !.items = {}, !.at = p]
          /\ p = "observe" => Heartbeat(ctl.occ)
          /\ v = "succeeded" => DeliveredItem(Reply(ctl.run))
    BY <1>1, <1>4 DEF DeliverDone
  <2>2. /\ ctl' \in Control /\ ctl'.at = p /\ ctl'.verdict = v /\ ctl'.items = {}
        /\ ctl'.occ = ctl.occ /\ ctl'.run = ctl.run /\ ctl'.occs = ctl.occs /\ ctl'.back = ctl.back
        /\ ctl'.jobs = ctl.jobs
    BY <1>1, <2>1 DEF SettleAs, Control, Places, Outcomes
  <2>4. v = "succeeded" => Told(ctl.run)
    BY <2>1 DEF DeliveredItem, Told, BoxRight, Has
  <2>3. Placed(mem, ctl', runs, now) /\ Carried(ctl')
    BY <1>1, <1>4, <2>1, <2>2, <2>4 DEF PlaceRight, Placed, Carried, Holds, Turning, Judges,
       InHands, InHandRight, Replying, Judging, Heartbeat, Known, Has, Outcomes
  <2> QED BY <1>1, <1>3, <2>2, <2>3, QuietPlaces
<1>5. CASE ctl.then = "noticed"
  <2>1. ctl' = [ctl EXCEPT !.at = "observe", !.items = {}]
    BY <1>1, <1>5 DEF DeliverDone
  <2>2. /\ ctl' \in Control /\ ctl'.at = "observe" /\ ctl'.verdict = ctl.verdict /\ ctl'.items = {}
        /\ ctl'.occ = ctl.occ /\ ctl'.run = ctl.run /\ ctl'.occs = ctl.occs /\ ctl'.back = ctl.back
        /\ ctl'.jobs = ctl.jobs
    BY <1>1, <2>1 DEF Control, Places
  <2>3. Placed(mem, ctl', runs, now) /\ Carried(ctl')
    BY <1>1, <1>5, <2>2 DEF PlaceRight, Placed, Carried, Holds, Turning, Judges, InHands,
       InHandRight, Replying, Judging
  <2> QED BY <1>1, <1>3, <2>2, <2>3, QuietPlaces
<1>6. CASE ctl.then = "claim"
  <2>1. PICK p \in {"claim", "halted"} : ctl' = [Idle EXCEPT !.at = p]
    BY <1>1, <1>6 DEF DeliverDone, Halted
  <2>2. ctl' \in Control
    BY <2>1, IdleRight
  <2>3. ctl'.at = p /\ Placed(mem, ctl', runs, now) /\ Carried(ctl')
    BY <1>1, <1>6, <2>1 DEF PlaceRight, Idle, Placed, Carried, Holds, Turning, Judges, InHands
  <2> QED BY <1>1, <1>3, <2>2, <2>3, QuietPlaces
<1> QED BY <1>2, <1>4, <1>5, <1>6

-----------------------------------------------------------------------------
(* The process ends and begins, and time passes.                              *)

(* Nothing is well formed and fits.                                           *)
LEMMA BlankRight ==
  ASSUME NEW rs
  PROVE  WellFormed(Blank) /\ Fits(Blank, rs)
BY DEF WellFormed, Rec, Fits, Blank, Empty

(* A crash leaves nothing in memory, a restart finds what was written.        *)
LEMMA ProcessPlaces ==
  ASSUME PlaceRight, BoxRight, Crash \/ Restart \/ Clock
  PROVE  Keeps
<1> USE AutomationAssumption
<1>1. CASE Crash
  <2>1. /\ ctl' = [Idle EXCEPT !.at = "down"]
        /\ mem' = Blank
        /\ box' = Empty
        /\ crashes' \in 0 .. MaxCrashes
        /\ UNCHANGED <<disk, torn, broken, boxDisk, boxBroken, published, runs, now>>
    BY <1>1 DEF Crash, Down, PlaceRight, TypesRight, AutomationAssumption
  <2>2. ctl' \in Control
    BY <2>1, IdleRight
  <2>3. WellFormed(mem') /\ Fits(mem', runs') /\ WellFormed(disk') /\ Fits(disk', runs')
    BY <2>1, BlankRight DEF PlaceRight, TypesRight
  <2>4. DOMAIN box' \subseteq ItemsOf(Len(runs)) /\ box' \in [DOMAIN box' -> ItemStates]
    BY <2>1 DEF Empty
  <2>5. TypesRight'
    BY <2>1, <2>2, <2>3, <2>4 DEF PlaceRight, TypesRight
  <2>6. Placed(Blank, ctl', runs, now) /\ ctl'.at = "down" /\ ctl'.items = {}
    BY <2>1 DEF Idle, Placed, Holds, Turning, Judges, InHands, Blank, Empty
  <2>7. Placed(mem, ctl, runs, now)'
    BY <2>1, <2>6
  <2>8. BoxRight'
    BY <2>1, <2>6 DEF BoxRight, Empty
  <2>9. ctl'.at = "down" /\ ~Holds(ctl')
    BY <2>1 DEF Idle, Holds, Turning
  <2>10. ASSUME Accounts PROVE AccountRight' /\ Stays(disk, disk')
    BY <2>1, <2>9, <2>10 DEF Accounts, AccountRight, Sound, Paid, Told, Stays
  <2> QED BY <2>5, <2>7, <2>8, <2>10 DEF PlaceRight, Keeps
<1>2. CASE Restart
  <2>1. ctl' = Idle /\ mem' = disk /\ box' = boxDisk /\ broken' = FALSE /\ boxBroken' = FALSE
        /\ UNCHANGED <<disk, torn, boxDisk, published, runs, now, crashes>>
    BY <1>2 DEF Restart
  <2>2. ctl' \in Control
    BY <2>1, IdleRight
  <2>3. TypesRight'
    BY <2>1, <2>2 DEF PlaceRight, TypesRight, Fits
  <2>4. Placed(disk, ctl', runs, now) /\ ctl'.at = "idle" /\ ctl'.items = {}
    BY <2>1 DEF Idle, Placed, Holds, Turning, Judges, InHands
  <2>5. Placed(mem, ctl, runs, now)'
    BY <2>1, <2>4
  <2>6. BoxRight'
    BY <2>1, <2>4 DEF BoxRight
  <2>7. ctl'.at = "idle" /\ ~Holds(ctl')
    BY <2>1 DEF Idle, Holds, Turning
  <2>8. ASSUME Accounts PROVE AccountRight' /\ Stays(disk, disk')
    BY <2>1, <2>7, <2>8 DEF Accounts, AccountRight, Sound, Paid, Told, Stays, Same
  <2> QED BY <2>3, <2>5, <2>6, <2>8 DEF PlaceRight, Keeps
<1>3. CASE Clock
  <2>1. ctl' = ctl /\ (ctl.at = "idle" \/ ctl.at = "down") /\ now' \in Nat
        /\ UNCHANGED <<disk, torn, broken, mem, box, boxDisk, boxBroken, published, runs, crashes>>
    BY <1>3 DEF Clock, At, store, outbox, PlaceRight, TypesRight
  <2>2. TypesRight'
    BY <2>1 DEF PlaceRight, TypesRight, Fits
  <2>3. Placed(mem, ctl, runs, now')
    BY <2>1 DEF PlaceRight, Placed, Holds, Turning, Judges
  <2>4. Placed(mem, ctl, runs, now)'
    BY <2>1, <2>3
  <2>5. BoxRight'
    BY <2>1 DEF BoxRight
  <2>6. ASSUME Accounts PROVE AccountRight' /\ Stays(disk, disk')
    BY <2>1, <2>6 DEF Accounts, AccountRight, Sound, Paid, Told, Stays, Same
  <2> QED BY <2>2, <2>4, <2>5, <2>6 DEF PlaceRight, Keeps
<1> QED BY <1>1, <1>2, <1>3

-----------------------------------------------------------------------------
(* Steps that write a line.                                                   *)

(* The store in memory after a line is what a replay of it would give, but    *)
(* for keys of requests.                                                      *)
Writes(l, m) ==
  Legal(l, runs) /\ WellFormed(m) /\ Fits(m, runs) /\ Same(Replay(mem, l), m)

(* A job's line that fits the job.                                            *)
LEMMA JobWrites ==
  ASSUME PlaceRight, NEW j \in DOMAIN mem.jobs, NEW l, l.type \in JobTypes, l.job = j,
         \A x \in Job : JobLine(x, l) \in Job,
         NEW b, b = JobLine(mem.jobs[j], l)
  PROVE  Writes(l, JobPut(mem, j, b)) /\ b \in Job
<1>1. WellFormed(mem) /\ Fits(mem, runs) /\ j \in Jobs /\ mem.jobs[j] \in Job
  BY DEF PlaceRight, TypesRight, WellFormed
<1>2. b \in Job
  BY <1>1
<1>3. Legal(l, runs)
  BY DEF Legal
<1>4. WellFormed(JobPut(mem, j, b)) /\ Fits(JobPut(mem, j, b), runs)
  BY <1>1, <1>2, PutsWellFormed, PutsFit
<1>5. Replay(mem, l) = JobPut(mem, j, b)
  BY <1>1, ReplayJob DEF Has
<1> QED BY <1>2, <1>3, <1>4, <1>5 DEF Writes, Same

(* An occurrence's line that fits it.                                         *)
LEMMA OccWrites ==
  ASSUME PlaceRight, NEW o \in DOMAIN mem.occs, NEW l, l.type \in OccTypes, l.occ = o,
         \A x \in Occurrence : OccLine(x, l) \in Occurrence /\ OccLine(x, l).sess = x.sess,
         NEW c, c = OccLine(mem.occs[o], l)
  PROVE  Writes(l, OccPut(mem, o, c)) /\ c \in Occurrence
<1>1. WellFormed(mem) /\ Fits(mem, runs) /\ o \in Occs /\ mem.occs[o] \in Occurrence
  BY DEF PlaceRight, TypesRight, WellFormed
<1>2. c \in Occurrence /\ c.sess = mem.occs[o].sess
  BY <1>1
<1>3. Legal(l, runs)
  BY DEF Legal
<1>4. c.sess = 0 \/ (c.sess \in 1 .. Len(runs) /\ runs[c.sess].occ = o)
  BY <1>1, <1>2 DEF Fits
<1>5. WellFormed(OccPut(mem, o, c)) /\ Fits(OccPut(mem, o, c), runs)
  BY <1>1, <1>2, <1>4, PutsWellFormed, PutsFit
<1>6. Replay(mem, l) = OccPut(mem, o, c)
  BY <1>1, ReplayOcc DEF Has
<1> QED BY <1>2, <1>3, <1>5, <1>6 DEF Writes, Same

(* What the lines do to a job of the right type.                              *)
LEMMA JobLines ==
  ASSUME NEW b \in Job
  PROVE  /\ [b EXCEPT !.state = "paused"] \in Job
         /\ [b EXCEPT !.state = "cancelled"] \in Job
         /\ \A t \in Nat : [b EXCEPT !.state = "active", !.cursor = Later(b.cursor, t)] \in Job
         /\ \A t \in Nat : [b EXCEPT !.cursor = t] \in Job /\ Later(b.cursor, t) \in Nat
         /\ \A x \in Texts \cup {NoText} : [b EXCEPT !.seen = x] \in Job
<1>1. ASSUME NEW t \in Nat
      PROVE  [b EXCEPT !.state = "active", !.cursor = Later(b.cursor, t)] \in Job
  <2>1. Later(b.cursor, t) \in Nat
    BY DEF Later, Job
  <2> QED BY <2>1 DEF Job
<1> QED BY <1>1 DEF Job, Later

(* ... to an occurrence.                                                      *)
LEMMA OccLines ==
  ASSUME NEW c \in Occurrence
  PROVE  /\ [c EXCEPT !.cancel = TRUE] \in Occurrence /\ [c EXCEPT !.cancel = TRUE].sess = c.sess
         /\ \A n \in Nat :
              /\ [c EXCEPT !.missed = n] \in Occurrence /\ [c EXCEPT !.missed = n].sess = c.sess
              /\ [c EXCEPT !.sess = n] \in Occurrence /\ [c EXCEPT !.sess = n].sess = n
         /\ \A v \in Outcomes : /\ [c EXCEPT !.state = "settled", !.outcome = v] \in Occurrence
                                /\ [c EXCEPT !.state = "settled", !.outcome = v].sess = c.sess
         /\ \A n \in Nat \ {0} : /\ [c EXCEPT !.state = "scheduled", !.attempt = n] \in Occurrence
                                 /\ [c EXCEPT !.state = "scheduled", !.attempt = n].sess = c.sess
                                 /\ [c EXCEPT !.state = "claimed", !.attempt = n] \in Occurrence
                                 /\ [c EXCEPT !.state = "claimed", !.attempt = n].sess = c.sess
BY DEF Occurrence

(* A line means the same wherever it is read.                                 *)
LEMMA ReplaysTheSame ==
  ASSUME NEW p, NEW q, WellFormed(p), WellFormed(q), Same(p, q), NEW l, NEW rs, Legal(l, rs)
  PROVE  Same(Replay(p, l), Replay(q, l))
<1>1. CASE l.type = "job.created"
  <2>1. /\ Replay(p, l) = JobMade(p, l.job, l.spec, l.spec.key)
        /\ Replay(q, l) = JobMade(q, l.job, l.spec, l.spec.key)
    BY <1>1, ReplayCreated
  <2> QED BY <2>1 DEF Same, JobMade
<1>2. CASE l.type = "occurrence.created"
  <2>1. /\ Replay(p, l) = OccMade(p, l.occ, NewOccurrence(l.reason, l.missed), l.key)
        /\ Replay(q, l) = OccMade(q, l.occ, NewOccurrence(l.reason, l.missed), l.key)
    BY <1>2, ReplayCreated
  <2> QED BY <2>1 DEF Same, OccMade
<1>3. CASE l.type \in JobTypes
  BY <1>3, ReplayJob DEF Same, JobPut, Has
<1>4. CASE l.type = "occurrence.observed"
  <2> DEFINE J == JobOf(l.occ)
             Is(x) == Has(x.occs, l.occ) /\ l.update /\ Has(x.jobs, J)
  <2>1. Is(p) <=> Is(q)
    BY DEF Same
  <2>2. CASE Is(p)
    <3>1. Replay(p, l) = JobPut(p, J, [p.jobs[J] EXCEPT !.seen = l.text])
      BY <1>4, <2>2, ReplayObserved
    <3>2. Replay(q, l) = JobPut(q, J, [q.jobs[J] EXCEPT !.seen = l.text])
      BY <1>4, <2>1, <2>2, ReplayObserved
    <3> QED BY <3>1, <3>2 DEF Same, JobPut
  <2>3. CASE ~Is(p)
    <3>1. Replay(p, l) = p /\ Replay(q, l) = q
      BY <1>4, <2>1, <2>3, ReplayObserved
    <3> QED BY <3>1
  <2> QED BY <2>2, <2>3
<1>5. CASE l.type \in OccTypes
  BY <1>5, ReplayOcc DEF Same, OccPut, Has
<1> QED BY <1>1, <1>2, <1>3, <1>4, <1>5 DEF Legal

(* What a line must leave, m in memory with the tick at c, for the account    *)
(* to be right.                                                               *)
Accounted(m, c) ==
  /\ Sound(m, runs) /\ Paid(m) /\ Stays(mem, m)
  /\ c.at = "first" => \A o \in DOMAIN m.occs : JobOf(o) # c.job
  /\ Holds(c) => /\ c.occ \in DOMAIN m.occs
                 /\ m.occs[c.occ].state = "claimed" /\ m.occs[c.occ].sess = c.run
  /\ c.at = "open" => c.run = 0
  /\ c.at \in {"settle", "observe"} /\ c.verdict = "succeeded" => Told(c.run)

(* What the lines do to a sound account is seen in what they leave.           *)
LEMMA SameSound ==
  ASSUME NEW p, NEW q, Same(p, q)
  PROVE  (Sound(q, runs) => Sound(p, runs)) /\ (Paid(q) => Paid(p))
BY DEF Same, Sound, Paid

(* A line made as it is meant leads on as it is meant.                        *)
LEMMA LogKeeps ==
  ASSUME PlaceRight, BoxRight, NEW l, NEW m, NEW c, Log(l, m, c), Others, Writes(l, m),
         c \in Control, c.at \notin {"down", "deliver"}, ctl.at # "down", Placed(m, c, runs, now),
         AccountRight /\ Same(mem, disk) /\ ~broken => Accounted(m, c)
  PROVE  Keeps
<1>1. UNCHANGED <<box, boxDisk, boxBroken, published, runs, now, crashes>>
  BY DEF Others, outbox
<1>2. /\ WellFormed(disk)
      /\ Fits(disk, runs)
      /\ WellFormed(mem)
      /\ torn \in BOOLEAN
      /\ broken \in BOOLEAN
  BY DEF PlaceRight, TypesRight
<1>3. WellFormed(Written(l)) /\ Fits(Written(l), runs)
  BY <1>2, ReplayKeeps DEF Written, Writes
<1>4. ASSUME Accounts, ~broken
      PROVE  /\ Same(mem, disk)
             /\ Accounted(m, c)
             /\ Written(l) = Replay(disk, l)
             /\ Same(m, Written(l))
             /\ Sound(Written(l), runs) /\ Paid(Written(l)) /\ Stays(disk, Written(l))
  <2>1. Same(mem, disk) /\ Accounted(m, c) /\ Written(l) = Replay(disk, l)
    BY <1>4 DEF Accounts, AccountRight, Written
  <2>2. Same(Replay(mem, l), Replay(disk, l)) /\ Same(Replay(mem, l), m)
    BY <1>2, <2>1, ReplaysTheSame DEF Writes
  <2>3. Same(m, Written(l)) /\ Same(Written(l), m)
    BY <2>1, <2>2 DEF Same
  <2>4. Sound(Written(l), runs) /\ Paid(Written(l))
    BY <2>1, <2>3, SameSound DEF Accounted
  <2>5. Stays(disk, Written(l))
    BY <2>1, <2>3 DEF Same, Stays, Accounted
  <2> QED BY <2>1, <2>3, <2>4, <2>5
<1>5. CASE Appended(l) /\ mem' = m /\ ctl' = c
  <2>1. disk' = Written(l) /\ torn' = FALSE /\ broken' = broken /\ ~broken
    BY <1>5 DEF Appended
  <2>2. WellFormed(disk') /\ Fits(disk', runs') /\ WellFormed(mem') /\ Fits(mem', runs')
    BY <1>1, <1>3, <1>5, <2>1 DEF Writes
  <2>3. TypesRight'
    BY <1>1, <1>2, <1>5, <2>1, <2>2 DEF PlaceRight, TypesRight
  <2>4. Placed(mem, ctl, runs, now)'
    BY <1>1, <1>5
  <2>5. BoxRight'
    BY <1>1, <1>5 DEF BoxRight
  <2>6. ASSUME Accounts PROVE AccountRight' /\ Stays(disk, disk')
    <3>1. /\ Same(m, disk')
          /\ Accounted(m, c)
          /\ Sound(disk', runs)
          /\ Paid(disk')
          /\ Stays(disk, disk')
      BY <1>4, <2>1, <2>6
    <3>2. Paid(disk)' /\ Sound(disk, runs)'
      BY <1>1, <3>1 DEF Paid, Told
    <3>3. \A q, r \in 1 .. Len(runs) : q < r /\ runs[q].occ = runs[r].occ => ~runs[q].bound
      BY <2>6 DEF Accounts, AccountRight
    <3> QED BY <1>1, <1>5, <2>1, <3>1, <3>2, <3>3 DEF AccountRight, Accounted, Same, Told
  <2> QED BY <2>3, <2>4, <2>5, <2>6 DEF PlaceRight, Keeps
<1>6. CASE AppendFails(l) /\ UNCHANGED mem /\ ctl' = Halted
  <2>1. broken' = TRUE /\ torn' \in BOOLEAN /\ ((~broken /\ disk' = Written(l)) \/ disk' = disk)
    BY <1>2, <1>6 DEF AppendFails
  <2>2. WellFormed(disk') /\ Fits(disk', runs') /\ WellFormed(mem') /\ Fits(mem', runs')
    BY <1>1, <1>2, <1>3, <1>6, <2>1 DEF PlaceRight, TypesRight
  <2>3. ctl' \in Control
    BY <1>6, IdleRight DEF Halted
  <2>4. TypesRight'
    BY <1>1, <1>2, <2>1, <2>2, <2>3 DEF PlaceRight, TypesRight
  <2>5. Placed(mem, Halted, runs, now) /\ Halted.at = "halted" /\ ~Holds(Halted)
    BY DEF Halted, Idle, Placed, Holds, Turning, Judges, InHands
  <2>6. Placed(mem, ctl, runs, now)'
    BY <1>1, <1>6, <2>5
  <2>7. BoxRight'
    BY <1>1, <1>6, <2>5 DEF BoxRight
  <2>8. ASSUME Accounts PROVE AccountRight' /\ Stays(disk, disk')
    <3>1. Sound(disk', runs) /\ Paid(disk') /\ Stays(disk, disk')
      BY <1>4, <2>1, <2>8 DEF Accounts, AccountRight, Stays
    <3>2. Paid(disk)' /\ Sound(disk, runs)'
      BY <1>1, <3>1 DEF Paid, Told
    <3>3. torn' = FALSE
      BY <1>6, <2>8 DEF Accounts, AccountRight, AppendFails
    <3>4. \A q, r \in 1 .. Len(runs) : q < r /\ runs[q].occ = runs[r].occ => ~runs[q].bound
      BY <2>8 DEF Accounts, AccountRight
    <3> QED BY <1>1, <1>6, <2>1, <2>5, <3>1, <3>2, <3>3, <3>4 DEF AccountRight
  <2> QED BY <2>4, <2>6, <2>7, <2>8 DEF PlaceRight, Keeps
<1> QED BY <1>5, <1>6 DEF Log

-----------------------------------------------------------------------------
(* Lines about jobs.                                                          *)

(* One job's entry replaced: the occurrences are as they were.                *)
LEMMA JobPutRight ==
  ASSUME NEW j \in DOMAIN mem.jobs, NEW b
  PROVE  /\ DOMAIN JobPut(mem, j, b).jobs = DOMAIN mem.jobs
         /\ JobPut(mem, j, b).occs = mem.occs
         /\ JobPut(mem, j, b).jobs[j] = b
         /\ ClaimedIn(JobPut(mem, j, b)) = ClaimedIn(mem)
         /\ AccountRight /\ Same(mem, disk) =>
              /\ Sound(JobPut(mem, j, b), runs) /\ Paid(JobPut(mem, j, b))
              /\ Stays(mem, JobPut(mem, j, b))
<1>1. DOMAIN JobPut(mem, j, b).jobs = DOMAIN mem.jobs /\ JobPut(mem, j, b).occs = mem.occs
        /\ JobPut(mem, j, b).jobs[j] = b
  BY DEF JobPut, With
<1>2. ASSUME AccountRight, Same(mem, disk)
      PROVE  /\ Sound(JobPut(mem, j, b), runs)
             /\ Paid(JobPut(mem, j, b))
             /\ Stays(mem, JobPut(mem, j, b))
  <2>1. Sound(mem, runs) /\ Paid(mem)
    BY <1>2, SameSound DEF AccountRight
  <2> QED BY <1>1, <2>1 DEF Sound, Paid, Stays
<1> QED BY <1>1, <1>2 DEF ClaimedIn

Among(p) == p \in {"commands", "sweep", "advance"}

(* Between the commands and among the jobs of a sweep nothing is in hand.     *)
LEMMA AmongCommands ==
  ASSUME PlaceRight, NEW m, NEW c, c \in Control, Among(c.at),
         ~Holds(ctl), c.occ = ctl.occ, c.run = ctl.run, c.items = {}, c.occs = {},
         c.jobs \subseteq DOMAIN m.jobs,
         c.at = "advance" => c.job \in DOMAIN m.jobs /\ DueIn(m.jobs[c.job], now) # {}
  PROVE  Placed(m, c, runs, now)
BY DEF PlaceRight, Among, Placed, Holds, Turning, Judges

(* What a command leaves of the tick.                                         *)
LEMMA TakenForm ==
  ASSUME PlaceRight, At("commands"), NEW v \in 1 .. 4
  PROVE  /\ Taken(v) \in Control /\ Taken(v).at = "commands" /\ Among(Taken(v).at)
         /\ ~Holds(ctl) /\ Taken(v).occ = ctl.occ /\ Taken(v).run = ctl.run
         /\ Taken(v).jobs = ctl.jobs /\ ctl.jobs \subseteq DOMAIN mem.jobs
         /\ Taken(v).items = {} /\ Taken(v).occs = {} /\ ~Holds(Taken(v))
BY DEF PlaceRight, TypesRight, At, Taken, Control, Places, Placed, Holds, Turning, Among

(* A job's line taken as a command.                                           *)
LEMMA JobCommand ==
  ASSUME PlaceRight, BoxRight, NEW v \in Verbs, At("commands"), NEW j \in DOMAIN mem.jobs, NEW b,
         NEW l,
         Writes(l, JobPut(mem, j, b)), Log(l, JobPut(mem, j, b), Taken(v)), Others
  PROVE  Keeps
<1> DEFINE m == JobPut(mem, j, b)
<1>1. v \in 1 .. 4
  BY AutomationAssumption DEF AutomationAssumption
<1>2. /\ DOMAIN m.jobs = DOMAIN mem.jobs
      /\ AccountRight /\ Same(mem, disk) => Sound(m, runs) /\ Paid(m) /\ Stays(mem, m)
  BY JobPutRight
<1> HIDE DEF m
<1>3. Placed(m, Taken(v), runs, now)
  BY <1>1, <1>2, TakenForm, AmongCommands
<1>4. AccountRight /\ Same(mem, disk) => Accounted(m, Taken(v))
  BY <1>1, <1>2, TakenForm DEF Accounted
<1> QED BY <1>1, <1>3, <1>4, TakenForm, LogKeeps DEF m, At

(* PauseJob: the job is found, with another state.                            *)
LEMMA PauseKeeps ==
  ASSUME PlaceRight, BoxRight, NEW j \in Jobs, PauseJob(j)
  PROVE  Keeps
<1> DEFINE l == [type |-> "job.paused", job |-> j]
           b == [mem.jobs[j] EXCEPT !.state = "paused"]
<1>1. /\ 4 \in Verbs /\ At("commands") /\ j \in DOMAIN mem.jobs /\ WellFormed(mem)
      /\ Log(l, [mem EXCEPT !.jobs[j].state = "paused"], Taken(4)) /\ Others
  BY DEF PauseJob, Command, Has, PlaceRight, TypesRight
<1>2. [mem EXCEPT !.jobs[j].state = "paused"] = JobPut(mem, j, b)
  BY <1>1, JobPuts
<1>3. l.type \in JobTypes /\ l.job = j /\ \A x : JobLine(x, l) = [x EXCEPT !.state = "paused"]
  BY DEF JobTypes, JobLine
<1>4. \A x \in Job : JobLine(x, l) \in Job
  BY <1>3, JobLines
<1>5. Writes(l, JobPut(mem, j, b))
  <2> HIDE DEF l
  <2> QED BY <1>1, <1>3, <1>4, JobWrites
<1> HIDE DEF l, b
<1> QED BY <1>1, <1>2, <1>5, JobCommand

(* ResumeJob: ... and with the cursor moved past the pause.                   *)
LEMMA ResumeKeeps ==
  ASSUME PlaceRight, BoxRight, NEW j \in Jobs, ResumeJob(j)
  PROVE  Keeps
<1> DEFINE l == [type |-> "job.resumed", job |-> j, through |-> now]
           b == [mem.jobs[j] EXCEPT !.state = "active", !.cursor = Later(mem.jobs[j].cursor, now)]
<1>1. /\ 4 \in Verbs /\ At("commands") /\ j \in DOMAIN mem.jobs /\ WellFormed(mem) /\ now \in Nat
      /\ Others
      /\ Log(l, [mem EXCEPT !.jobs[j] = Awake(@)], Taken(4))
  BY DEF ResumeJob, Command, Has, PlaceRight, TypesRight
<1>2. [mem EXCEPT !.jobs[j] = Awake(@)] = JobPut(mem, j, b)
  <2>1. [mem EXCEPT !.jobs[j] = Awake(@)]
          = [mem EXCEPT !.jobs[j] = b]
    BY DEF Awake
  <2> HIDE DEF b
  <2> QED BY <1>1, <2>1, JobPuts
<1>3. l.type \in JobTypes /\ l.job = j
        /\ \A x : JobLine(x, l) = [x EXCEPT !.state = "active", !.cursor = Later(x.cursor, now)]
  <2>1. \A x : JobLine(x, l) = Resumed(x, l)
    BY DEF JobLine
  <2> QED BY <2>1 DEF JobTypes, Resumed
<1>4. \A x \in Job : JobLine(x, l) \in Job
  BY <1>1, <1>3, JobLines
<1>5. Writes(l, JobPut(mem, j, b))
  <2> HIDE DEF l
  <2> QED BY <1>1, <1>3, <1>4, JobWrites
<1> HIDE DEF l, b
<1> QED BY <1>1, <1>2, <1>5, JobCommand

(* A new job is one, with its key.                                            *)
LEMMA CreatedIsJob ==
  ASSUME NEW s \in Specs, NEW k \in Keys \cup {NoKey}, now \in Nat
  PROVE  Created(s, k) \in Job /\ Created(s, k).key = k /\ Created(s, k).kind = s.kind
<1>1. s \in Given
  BY AutomationAssumption DEF AutomationAssumption
<1> DEFINE f == [ anchor |-> IF s.kind = "interval" THEN now ELSE 0,
                  due |-> IF s.kind = "once" /\ s.due = 0 THEN now ELSE s.due,
                  cursor |-> IF s.kind = "once" THEN 0 ELSE now,
                  rev |-> 1, state |-> "active", seen |-> NoText, key |-> k ]
<1>2. /\ DOMAIN f = {"anchor", "due", "cursor", "rev", "state", "seen", "key"}
      /\ f.anchor \in Nat /\ f.due \in Nat /\ f.cursor \in Nat /\ f.rev = 1 /\ f.state = "active"
      /\ f.seen = NoText /\ f.key = k
  BY <1>1 DEF Given
<1>3. Created(s, k) = Over(f, s)
  BY DEF Created
<1> HIDE DEF f
<1>4. Over(f, s) = [ kind |-> s.kind, due |-> f.due, period |-> s.period, anchor |-> f.anchor,
                     misfire |-> s.misfire, deadline |-> s.deadline, notify |-> s.notify,
                     rev |-> 1, state |-> "active", cursor |-> f.cursor, seen |-> NoText,
                     key |-> k ]
  BY <1>1, <1>2 DEF Over, Given
<1> QED BY <1>1, <1>2, <1>3, <1>4 DEF Job, Given

(* What an update gives fits any job.                                         *)
LEMMA ChangedIsJob ==
  ASSUME NEW p \in Patches, now \in Nat, NEW b \in Job, NEW rev \in Nat \ {0}
  PROVE  [Over(Anchored(p), b) EXCEPT !.rev = rev] \in Job
<1>1. DOMAIN p \subseteq DOMAIN Plain /\ Over(p, Plain) \in Given
  BY AutomationAssumption DEF AutomationAssumption
<1>2. DOMAIN Plain = {"kind", "due", "period", "misfire", "deadline", "notify"}
  BY DEF Plain
<1>3. \A f \in DOMAIN p : p[f] = Over(p, Plain)[f]
  BY DEF Over
<1>4. /\ "kind" \in DOMAIN p => p.kind \in {"once", "interval", "cron"}
      /\ "due" \in DOMAIN p => p.due \in Nat
      /\ "period" \in DOMAIN p => p.period \in Nat
      /\ "misfire" \in DOMAIN p => p.misfire \in {"coalesce", "skip"}
      /\ "deadline" \in DOMAIN p => p.deadline \in Nat
      /\ "notify" \in DOMAIN p => p.notify \in BOOLEAN
  BY <1>1, <1>3 DEF Given
<1> DEFINE g == Anchored(p)
<1>5. /\ DOMAIN g \subseteq DOMAIN p \cup {"cursor", "anchor"}
      /\ \A f \in DOMAIN p : f \in DOMAIN g /\ (f \notin {"cursor", "anchor"} => g[f] = p[f])
      /\ "cursor" \in DOMAIN g => g.cursor = now
      /\ "anchor" \in DOMAIN g => g.anchor = now
  BY <1>1, <1>2 DEF Anchored, Over
<1> HIDE DEF g
<1> DEFINE At0(f) == IF f \in DOMAIN g THEN g[f] ELSE b[f]
<1>6. DOMAIN b = {"kind", "due", "period", "anchor", "misfire", "deadline", "notify", "rev",
                  "state", "cursor", "seen", "key"}
  BY DEF Job
<1>7. Over(g, b) = [x \in DOMAIN b |-> At0(x)]
  BY <1>1, <1>2, <1>5, <1>6 DEF Over
<1>8. /\ At0("kind") \in {"once", "interval", "cron"} /\ At0("due") \in Nat /\ At0("period") \in Nat
      /\ At0("misfire") \in {"coalesce", "skip"}
      /\ At0("deadline") \in Nat
      /\ At0("notify") \in BOOLEAN
  BY <1>2, <1>4, <1>5 DEF Job
<1>9. /\ At0("anchor") \in Nat /\ At0("cursor") \in Nat /\ At0("rev") \in Nat \ {0}
      /\ At0("state") \in {"active", "paused", "cancelled"}
      /\ At0("seen") \in Texts \cup {NoText} /\ At0("key") \in Keys \cup {NoKey}
  BY <1>1, <1>2, <1>5 DEF Job
<1> HIDE DEF At0
<1>10. Over(g, b) = [ kind |-> At0("kind"), due |-> At0("due"), period |-> At0("period"),
                      anchor |-> At0("anchor"), misfire |-> At0("misfire"),
                      deadline |-> At0("deadline"), notify |-> At0("notify"), rev |-> At0("rev"),
                      state |-> At0("state"), cursor |-> At0("cursor"), seen |-> At0("seen"),
                      key |-> At0("key") ]
  BY <1>6, <1>7
<1>11. Over(g, b) \in Job
  BY <1>8, <1>9, <1>10 DEF Job
<1> QED BY <1>11 DEF Job, g

(* UpdateJob: the changed job is a job.                                       *)
LEMMA UpdateKeeps ==
  ASSUME PlaceRight, BoxRight, NEW j \in Jobs, NEW p \in Patches, UpdateJob(j, p)
  PROVE  Keeps
<1> DEFINE rev == mem.jobs[j].rev + 1
           l == [type |-> "job.updated", job |-> j, patch |-> Anchored(p), to |-> rev]
           b == Changed(mem.jobs[j], p)
<1>1. /\ 3 \in Verbs /\ At("commands") /\ j \in DOMAIN mem.jobs /\ WellFormed(mem) /\ now \in Nat
      /\ Log(l, [mem EXCEPT !.jobs[j] = Changed(@, p)], Taken(3)) /\ Others
  BY DEF UpdateJob, Command, Has, PlaceRight, TypesRight, JobRec
<1>2. [mem EXCEPT !.jobs[j] = Changed(@, p)] = JobPut(mem, j, b)
  <2>1. [mem EXCEPT !.jobs[j] = Changed(@, p)] = [mem EXCEPT !.jobs[j] = b]
    OBVIOUS
  <2> HIDE DEF b
  <2> QED BY <1>1, <2>1, JobPuts
<1>3. rev \in Nat \ {0}
  BY <1>1 DEF WellFormed, Job
<1>4. /\ l.type \in JobTypes /\ l.job = j
      /\ \A x : JobLine(x, l) = [Over(Anchored(p), x) EXCEPT !.rev = rev]
  BY DEF JobTypes, JobLine
<1>5. b = [Over(Anchored(p), mem.jobs[j]) EXCEPT !.rev = rev]
  BY DEF Changed
<1> HIDE DEF l, b, rev
<1>6. \A x \in Job : JobLine(x, l) \in Job
  BY <1>1, <1>3, <1>4, ChangedIsJob
<1>7. b = JobLine(mem.jobs[j], l)
  BY <1>4, <1>5
<1>8. Writes(l, JobPut(mem, j, b))
  BY <1>1, <1>4, <1>6, <1>7, JobWrites
<1> QED BY <1>1, <1>2, <1>8, JobCommand

(* The cursor passes the slots that were due.                                 *)
LEMMA AdvanceKeeps ==
  ASSUME PlaceRight, BoxRight, Advance
  PROVE  Keeps
<1> DEFINE j == ctl.job
           last == Max(Due(j))
           l == [type |-> "job.schedule_advanced", job |-> j, through |-> last]
           b == [mem.jobs[j] EXCEPT !.cursor = last]
           c == [ctl EXCEPT !.at = "sweep", !.jobs = ctl.jobs \ {j}, !.job = 0]
<1>1. /\ ctl.at = "advance" /\ j \in DOMAIN mem.jobs /\ WellFormed(mem) /\ now \in Nat
      /\ Log(l, [mem EXCEPT !.jobs[j].cursor = last], c) /\ Others
      /\ DueIn(mem.jobs[j], now) # {} /\ mem.jobs[j] \in Job /\ ctl \in Control
  BY DEF Advance, At, PlaceRight, TypesRight, Placed, WellFormed
<1>2. last \in Nat /\ Later(mem.jobs[j].cursor, last) = last
  <2>1. mem.jobs[j].cursor \in Nat
    BY <1>1 DEF Job
  <2>2. Due(j) = DueIn(mem.jobs[j], now)
    BY DEF Due, DueIn, JobRec
  <2>3. Due(j) \in SUBSET (0 .. now) /\ Due(j) # {} /\ \A t \in Due(j) : t > mem.jobs[j].cursor
    BY <1>1, <2>1, <2>2 DEF DueIn
  <2>4. last \in Due(j)
    BY <1>1, <2>3, Ends
  <2> QED BY <2>1, <2>3, <2>4 DEF Later
<1>3. [mem EXCEPT !.jobs[j].cursor = last] = JobPut(mem, j, b)
  BY <1>1, JobPuts
<1>4. /\ l.type \in JobTypes /\ l.job = j
      /\ \A x : JobLine(x, l) = [x EXCEPT !.cursor = Later(x.cursor, last)]
  BY DEF JobTypes, JobLine
<1>5. \A x \in Job : JobLine(x, l) \in Job
  <2> HIDE DEF l, last
  <2>1. ASSUME NEW x \in Job PROVE JobLine(x, l) \in Job
    <3>1. Later(x.cursor, last) \in Nat
      BY <1>2, JobLines
    <3> QED BY <1>4, <3>1, JobLines
  <2> QED BY <2>1
<1>6. Writes(l, JobPut(mem, j, b))
  <2>1. b = JobLine(mem.jobs[j], l)
    BY <1>2, <1>4
  <2> HIDE DEF l, b
  <2> QED BY <1>1, <1>4, <1>5, <2>1, JobWrites
<1>7. /\ c \in Control
      /\ c.at = "sweep"
      /\ c.occ = ctl.occ
      /\ c.run = ctl.run
      /\ c.items = ctl.items
      /\ c.occs = ctl.occs /\ c.jobs = ctl.jobs \ {j}
  BY <1>1 DEF Control, Places
<1> DEFINE m == JobPut(mem, j, b)
<1>8. /\ DOMAIN m.jobs = DOMAIN mem.jobs
      /\ AccountRight /\ Same(mem, disk) => Sound(m, runs) /\ Paid(m) /\ Stays(mem, m)
  <2> HIDE DEF b
  <2> QED BY <1>1, JobPutRight
<1> HIDE DEF m, l, b, c, last
<1>9. Placed(m, c, runs, now) /\ ~Holds(c)
  BY <1>1, <1>7, <1>8, AmongCommands DEF PlaceRight, Placed, Holds, Turning, Among
<1>10. AccountRight /\ Same(mem, disk) => Accounted(m, c)
  BY <1>7, <1>8, <1>9 DEF Accounted
<1>11. [mem EXCEPT !.jobs[j].cursor = last] = m
  BY <1>3 DEF m
<1>12. Writes(l, m)
  BY <1>6 DEF m
<1> QED BY <1>1, <1>7, <1>9, <1>10, <1>11, <1>12, LogKeeps

(* A new job has no occurrence yet, as long as no line was lost.              *)
LEMMA CreateKeeps ==
  ASSUME PlaceRight, BoxRight, NEW j \in Jobs, NEW s \in Specs, NEW k \in Keys \cup {NoKey},
         CreateJob(j, s, k)
  PROVE  Keeps
<1> DEFINE b == Created(s, k)
           l == [type |-> "job.created", job |-> j, spec |-> b]
           m == JobMade(mem, j, b, k)
           c == IF s.kind = "once" THEN [Taken(1) EXCEPT !.at = "first", !.job = j] ELSE Taken(1)
<1>1. /\ At("commands") /\ ~Has(mem.jobs, j) /\ Others
      /\ WellFormed(mem) /\ Fits(mem, runs) /\ now \in Nat /\ ctl \in Control
      /\ Log(l, [mem EXCEPT !.jobs = With(@, j, b), !.createKeys = Registered(@, k, j)], c)
  BY DEF CreateJob, Command, PlaceRight, TypesRight
<1>2. b \in Job /\ b.key = k
  BY <1>1, CreatedIsJob
<1>3. l.type = "job.created" /\ l.job = j /\ l.spec = b
  OBVIOUS
<1>4. c \in {[Taken(1) EXCEPT !.at = "first", !.job = j], Taken(1)}
  OBVIOUS
<1> HIDE DEF b, l, c
<1>5. [mem EXCEPT !.jobs = With(@, j, b), !.createKeys = Registered(@, k, j)] = m
  <2> DEFINE x == With(mem.jobs, j, b)
             y == Registered(mem.createKeys, k, j)
  <2>1. [mem EXCEPT !.jobs = x, !.createKeys = y]
          = [[mem EXCEPT !.jobs = x] EXCEPT !.createKeys = y]
    <3> HIDE DEF x, y
    <3> QED OBVIOUS
  <2>2. PICK q : q = [mem EXCEPT !.jobs = x]
    OBVIOUS
  <2>3. q = [jobs |-> x, occs |-> mem.occs, createKeys |-> mem.createKeys, runKeys |-> mem.runKeys]
    <3> HIDE DEF x
    <3> QED BY <1>1, <2>2 DEF WellFormed, Rec
  <2>4. [q EXCEPT !.createKeys = y] =
          [jobs |-> x, occs |-> mem.occs, createKeys |-> y, runKeys |-> mem.runKeys]
    <3> HIDE DEF x, y
    <3> QED BY <2>3
  <2> QED BY <2>1, <2>2, <2>4 DEF JobMade
<1>6. Writes(l, m)
  <2>1. Legal(l, runs)
    BY <1>2, <1>3 DEF Legal
  <2>2. WellFormed(m) /\ Fits(m, runs)
    BY <1>1, <1>2, PutsWellFormed, PutsFit
  <2>3. Replay(mem, l) = m
    BY <1>1, <1>2, <1>3, ReplayCreated
  <2> QED BY <2>1, <2>2, <2>3 DEF Writes, Same
<1>7. DOMAIN m.jobs = DOMAIN mem.jobs \cup {j} /\ m.occs = mem.occs
  BY DEF JobMade, With
<1>8. AccountRight /\ Same(mem, disk) =>
        /\ Sound(m, runs) /\ Paid(m) /\ Stays(mem, m)
        /\ \A o \in DOMAIN m.occs : JobOf(o) # j
  <2>1. AccountRight /\ Same(mem, disk) => Sound(mem, runs) /\ Paid(mem)
    BY SameSound DEF AccountRight
  <2> QED BY <1>1, <1>7, <2>1 DEF Sound, Paid, Stays, Has
<1> HIDE DEF m
<1>9. CASE c = Taken(1)
  <2>1. Placed(m, c, runs, now)
    BY <1>1, <1>7, <1>9, TakenForm, AmongCommands
  <2>2. AccountRight /\ Same(mem, disk) => Accounted(m, c)
    BY <1>1, <1>8, <1>9, TakenForm DEF Accounted
  <2> QED BY <1>1, <1>5, <1>6, <1>9, <2>1, <2>2, TakenForm, LogKeeps DEF At
<1>10. CASE c = [Taken(1) EXCEPT !.at = "first", !.job = j]
  <2>1. /\ c \in Control /\ c.at = "first" /\ c.job = j /\ c.occ = ctl.occ /\ c.run = ctl.run
        /\ c.jobs = ctl.jobs
        /\ c.items = {}
        /\ c.occs = {}
        /\ ctl.jobs \subseteq DOMAIN mem.jobs
        /\ ~Holds(ctl)
    <3>1. /\ Taken(1) \in Control /\ Taken(1).occ = ctl.occ /\ Taken(1).run = ctl.run
          /\ Taken(1).jobs = ctl.jobs /\ Taken(1).items = {} /\ Taken(1).occs = {}
          /\ ctl.jobs \subseteq DOMAIN mem.jobs /\ ~Holds(ctl)
      BY <1>1, TakenForm
    <3> QED BY <1>10, <3>1 DEF Control, Places
  <2>2. Placed(m, c, runs, now) /\ ~Holds(c)
    BY <1>1, <1>7, <2>1 DEF PlaceRight, Placed, Holds, Turning, Judges
  <2>3. AccountRight /\ Same(mem, disk) => Accounted(m, c)
    BY <1>8, <2>1, <2>2 DEF Accounted
  <2> QED BY <1>1, <1>5, <1>6, <2>1, <2>2, <2>3, LogKeeps DEF At
<1> QED BY <1>4, <1>9, <1>10

(* Cancelling a job turns to its occurrences that are not settled.            *)
LEMMA CancelKeeps ==
  ASSUME PlaceRight, BoxRight, NEW j \in Jobs, CancelJob(j)
  PROVE  Keeps
<1> DEFINE l == [type |-> "job.cancelled", job |-> j]
           b == [mem.jobs[j] EXCEPT !.state = "cancelled"]
           O == OfJob(j, {"scheduled", "claimed"})
           c == [Taken(4) EXCEPT !.at = "cancel", !.occs = O]
           m == JobPut(mem, j, b)
<1>1. /\ At("commands") /\ j \in DOMAIN mem.jobs /\ WellFormed(mem) /\ Others
      /\ Log(l, [mem EXCEPT !.jobs[j].state = "cancelled"], c)
  BY DEF CancelJob, Command, Has, PlaceRight, TypesRight
<1>2. [mem EXCEPT !.jobs[j].state = "cancelled"] = m
  BY <1>1, JobPuts
<1>3. l.type \in JobTypes /\ l.job = j /\ \A x : JobLine(x, l) = [x EXCEPT !.state = "cancelled"]
  BY DEF JobTypes, JobLine
<1>4. \A x \in Job : JobLine(x, l) \in Job
  BY <1>3, JobLines
<1>5. Writes(l, m)
  <2> HIDE DEF l
  <2> QED BY <1>1, <1>3, <1>4, JobWrites
<1>6. O \in SUBSET Occs /\ O \subseteq DOMAIN mem.occs /\ \A o \in O : mem.occs[o].state # "settled"
  BY <1>1 DEF WellFormed, OfJob, OccRec
<1>7. /\ DOMAIN m.jobs = DOMAIN mem.jobs /\ m.occs = mem.occs
      /\ AccountRight /\ Same(mem, disk) => Sound(m, runs) /\ Paid(m) /\ Stays(mem, m)
  <2> HIDE DEF b
  <2> QED BY <1>1, JobPutRight
<1> HIDE DEF l, b, m, O
<1>8. /\ c \in Control /\ c.at = "cancel" /\ c.occ = ctl.occ /\ c.run = ctl.run
      /\ c.jobs = ctl.jobs
      /\ c.items = {}
      /\ c.occs = O
      /\ ctl.jobs \subseteq DOMAIN mem.jobs
      /\ ~Holds(ctl)
  <2>1. /\ Taken(4) \in Control /\ Taken(4).occ = ctl.occ /\ Taken(4).run = ctl.run
        /\ Taken(4).jobs = ctl.jobs /\ Taken(4).items = {}
        /\ ctl.jobs \subseteq DOMAIN mem.jobs /\ ~Holds(ctl)
    BY <1>1, TakenForm
  <2> QED BY <1>6, <2>1 DEF Control, Places
<1> HIDE DEF c
<1>9. Placed(m, c, runs, now) /\ ~Holds(c)
  BY <1>1, <1>6, <1>7, <1>8 DEF PlaceRight, Placed, Holds, Turning, Judges
<1>10. AccountRight /\ Same(mem, disk) => Accounted(m, c)
  BY <1>7, <1>8, <1>9 DEF Accounted
<1> QED BY <1>1, <1>2, <1>5, <1>8, <1>9, <1>10, LogKeeps DEF At

(* Only a delivered reply is observed.                                        *)
LEMMA ObserveKeeps ==
  ASSUME PlaceRight, BoxRight, ObserveResult
  PROVE  Keeps
<1> DEFINE j == JobOf(ctl.occ)
           text == IF ctl.run = 0 THEN NoText ELSE runs[ctl.run].text
           update == ctl.verdict = "succeeded"
           l == [type |-> "occurrence.observed", occ |-> ctl.occ, text |-> text, update |-> update]
           m == IF update THEN [mem EXCEPT !.jobs[j].seen = text] ELSE mem
           c == SettleAs(ctl.verdict)
           b == [mem.jobs[j] EXCEPT !.seen = text]
<1>1. /\ ctl.at = "observe" /\ Others /\ Log(l, m, c)
      /\ WellFormed(mem) /\ Fits(mem, runs) /\ ctl \in Control /\ runs \in Seq(Run)
  BY DEF ObserveResult, At, PlaceRight, TypesRight
<1>2. /\ Holds(ctl) /\ Judging(ctl) /\ ~Turning(ctl) /\ ~Replying(ctl)
      /\ InHandRight(mem, ctl, runs, now) /\ ClaimedIn(mem) = ctl.occs \cup {ctl.occ}
  BY <1>1 DEF PlaceRight, Placed, Holds, Turning, Replying, Judging, Judges, InHands
<1>3. text \in Texts \cup {NoText}
  <2>1. ASSUME ctl.run # 0 PROVE runs[ctl.run] \in Run
    BY <1>1, <1>2, <2>1 DEF InHandRight
  <2> QED BY <2>1 DEF Run
<1>4. ctl.verdict \in Outcomes /\ ctl.occ \in DOMAIN mem.occs /\ (update => j \in DOMAIN mem.jobs)
  BY <1>1, <1>2 DEF InHandRight
<1>5. m = IF update THEN JobPut(mem, j, b) ELSE mem
  BY <1>1, <1>4, JobPuts
<1>6. l.type = "occurrence.observed" /\ l.occ = ctl.occ /\ l.text = text /\ l.update = update
  OBVIOUS
<1>7. update => b \in Job /\ j \in Jobs
  BY <1>1, <1>3, <1>4, JobLines DEF WellFormed
<1>8. Replay(mem, l) = m
  <2>1. CASE update
    <3> HIDE DEF l, text, update, m
    <3> QED BY <1>1, <1>4, <1>5, <1>6, <2>1, ReplayObserved DEF Has
  <2>2. CASE ~update
    <3> HIDE DEF l, text, update, m
    <3> QED BY <1>1, <1>4, <1>5, <1>6, <2>2, ReplayObserved DEF Has
  <2> QED BY <2>1, <2>2
<1>9. Legal(l, runs)
  BY <1>3, <1>6 DEF Legal
<1>10. WellFormed(m) /\ Fits(m, runs)
  <2> HIDE DEF b
  <2> QED BY <1>1, <1>5, <1>7, PutsWellFormed, PutsFit
<1>11. Writes(l, m)
  BY <1>8, <1>9, <1>10 DEF Writes, Same
<1>12. /\ DOMAIN m.jobs = DOMAIN mem.jobs /\ m.occs = mem.occs
       /\ AccountRight /\ Same(mem, disk) => Sound(m, runs) /\ Paid(m) /\ Stays(mem, m)
  <2>1. CASE update
    <3> HIDE DEF b, update
    <3> QED BY <1>4, <1>5, <2>1, JobPutRight
  <2>2. CASE ~update
    BY <1>5, <2>2, SameSound DEF AccountRight, Stays
  <2> QED BY <2>1, <2>2
<1>13. /\ c \in Control
       /\ c.at = "settle"
       /\ c.verdict = ctl.verdict
       /\ c.occ = ctl.occ
       /\ c.run = ctl.run
       /\ c.jobs = ctl.jobs /\ c.items = ctl.items /\ c.occs = ctl.occs /\ c.back = ctl.back
  BY <1>1, <1>4 DEF SettleAs, Control, Places
<1> HIDE DEF m, l, c, text, update, b
<1>14. Placed(m, c, runs, now)
  <2>1. ClaimedIn(m) = ClaimedIn(mem)
    BY <1>12 DEF ClaimedIn
  <2>2. InHandRight(m, c, runs, now)
    BY <1>1, <1>2, <1>12, <1>13 DEF InHandRight, Turning, Replying, Judging
  <2>3. ctl.jobs \subseteq DOMAIN mem.jobs /\ ctl.occs \subseteq DOMAIN mem.occs /\ ctl.items = {}
    BY <1>1 DEF PlaceRight, Placed
  <2> QED BY <1>1, <1>2, <1>12, <1>13, <2>1, <2>2, <2>3 DEF Placed, Holds, Turning, Judges, InHands
<1>15. ASSUME AccountRight, Same(mem, disk), ~broken PROVE Accounted(m, c)
  <2>1. disk.occs[ctl.occ].state = "claimed" /\ mem.occs[ctl.occ].sess = ctl.run
    BY <1>2, <1>15 DEF AccountRight
  <2>2. /\ m.occs[ctl.occ].state = "claimed"
        /\ m.occs[ctl.occ].sess = ctl.run
        /\ ctl.occ \in DOMAIN m.occs
    BY <1>4, <1>12, <1>15, <2>1 DEF Same
  <2>3. ctl.verdict = "succeeded" => Told(ctl.run)
    BY <1>1, <1>15 DEF AccountRight
  <2> QED BY <1>12, <1>13, <1>15, <2>2, <2>3 DEF Accounted
<1> QED BY <1>1, <1>11, <1>13, <1>14, <1>15, LogKeeps

-----------------------------------------------------------------------------
(* Lines about occurrences.                                                   *)

(* One entry replaced: what is claimed, and the account if it was not settled *)
(* and keeps its session.                                                     *)
LEMMA OccPutRight ==
  ASSUME NEW o \in DOMAIN mem.occs, NEW c
  PROVE  /\ OccPut(mem, o, c).jobs = mem.jobs
         /\ DOMAIN OccPut(mem, o, c).occs = DOMAIN mem.occs
         /\ OccPut(mem, o, c).occs[o] = c
         /\ \A x \in DOMAIN mem.occs : x # o => OccPut(mem, o, c).occs[x] = mem.occs[x]
         /\ ClaimedIn(OccPut(mem, o, c)) = IF c.state = "claimed" THEN ClaimedIn(mem) \cup {o}
                                           ELSE ClaimedIn(mem) \ {o}
         /\ (/\ AccountRight /\ Same(mem, disk) /\ mem.occs[o].state # "settled"
             /\ c.sess = mem.occs[o].sess /\ (c.state = "scheduled" => c.sess = 0)
             /\ (c.state # "settled" => c.outcome = "none")
             /\ (c.outcome = "succeeded" => Told(c.sess)))
            => /\ Sound(OccPut(mem, o, c), runs) /\ Paid(OccPut(mem, o, c))
               /\ Stays(mem, OccPut(mem, o, c))
<1>1. /\ OccPut(mem, o, c).jobs = mem.jobs
      /\ DOMAIN OccPut(mem, o, c).occs = DOMAIN mem.occs
      /\ OccPut(mem, o, c).occs[o] = c
      /\ \A x \in DOMAIN mem.occs : x # o => OccPut(mem, o, c).occs[x] = mem.occs[x]
  BY DEF OccPut, With
<1>2. ClaimedIn(OccPut(mem, o, c)) = IF c.state = "claimed" THEN ClaimedIn(mem) \cup {o}
                                     ELSE ClaimedIn(mem) \ {o}
  BY <1>1 DEF ClaimedIn
<1>3. ASSUME AccountRight, Same(mem, disk), mem.occs[o].state # "settled",
             c.sess = mem.occs[o].sess, c.state = "scheduled" => c.sess = 0,
             c.state # "settled" => c.outcome = "none", c.outcome = "succeeded" => Told(c.sess)
      PROVE  /\ Sound(OccPut(mem, o, c), runs)
             /\ Paid(OccPut(mem, o, c))
             /\ Stays(mem, OccPut(mem, o, c))
  <2>1. Sound(mem, runs) /\ Paid(mem)
    BY <1>3, SameSound DEF AccountRight
  <2> DEFINE m == OccPut(mem, o, c)
  <2> HIDE DEF m
  <2>2. Sound(m, runs)
    BY <1>1, <1>3, <2>1 DEF Sound, m
  <2>3. Paid(m) /\ Stays(mem, m)
    BY <1>1, <1>3, <2>1 DEF Paid, Stays, m
  <2> QED BY <2>2, <2>3 DEF m
<1> QED BY <1>1, <1>2, <1>3

(* A new occurrence of a job that is known.                                   *)
LEMMA NewOccRight ==
  ASSUME NEW o \in Occs, o \notin DOMAIN mem.occs, JobOf(o) \in DOMAIN mem.jobs,
         NEW c, c.state = "scheduled", c.sess = 0, c.outcome = "none",
         NEW m, m.jobs = mem.jobs, m.occs = With(mem.occs, o, c),
         AccountRight, Same(mem, disk)
  PROVE  Sound(m, runs) /\ Paid(m) /\ Stays(mem, m)
<1>1. Sound(mem, runs) /\ Paid(mem)
  BY SameSound DEF AccountRight
<1>2. /\ DOMAIN m.occs = DOMAIN mem.occs \cup {o} /\ m.occs[o] = c
      /\ \A x \in DOMAIN mem.occs : m.occs[x] = mem.occs[x]
  BY DEF With
<1>3. Sound(m, runs)
  BY <1>1, <1>2 DEF Sound
<1> QED BY <1>1, <1>2, <1>3 DEF Paid, Stays

(* The line of a new occurrence.                                              *)
LEMMA NewOccWrites ==
  ASSUME PlaceRight, NEW o \in Occs, NEW reason \in {"schedule", "run_now"}, NEW missed \in Nat,
         NEW k \in Keys \cup {NoKey}, NEW l, l.type = "occurrence.created", l.occ = o,
         l.reason = reason, l.missed = missed, l.key = k
  PROVE  /\ Writes(l, OccMade(mem, o, NewOccurrence(reason, missed), k))
         /\ Writes(l, OccPut(mem, o, NewOccurrence(reason, missed)))
<1> DEFINE c == NewOccurrence(reason, missed)
<1>1. WellFormed(mem) /\ Fits(mem, runs) /\ c \in Occurrence /\ c.sess = 0
  BY NewFits DEF PlaceRight, TypesRight
<1>2. Legal(l, runs)
  BY <1>1 DEF Legal
<1>3. Replay(mem, l) = OccMade(mem, o, c, k)
  BY <1>1, ReplayCreated
<1> HIDE DEF c
<1>4. WellFormed(OccMade(mem, o, c, k)) /\ WellFormed(OccPut(mem, o, c))
  BY <1>1, PutsWellFormed
<1>5. Fits(OccMade(mem, o, c, k), runs) /\ Fits(OccPut(mem, o, c), runs)
  BY <1>1, PutsFit
<1>6. /\ Same(OccMade(mem, o, c, k), OccPut(mem, o, c))
      /\ Same(OccMade(mem, o, c, k), OccMade(mem, o, c, k))
  BY DEF Same, OccMade, OccPut
<1> QED BY <1>2, <1>3, <1>4, <1>5, <1>6 DEF Writes, c

(* A once job's own occurrence, the second line of its creation.              *)
LEMMA FirstKeeps ==
  ASSUME PlaceRight, BoxRight, FirstOccurrence
  PROVE  Keeps
<1> DEFINE b == mem.jobs[ctl.job]
           o == OccId(ctl.job, 1, b.due)
           l == [type |-> "occurrence.created", occ |-> o, reason |-> "schedule", missed |-> 0,
                 key |-> b.key]
           n == NewOccurrence("schedule", 0)
           c == [ctl EXCEPT !.at = "commands", !.job = 0]
           m == OccPut(mem, o, n)
<1>1. /\ ctl.at = "first" /\ Others /\ ctl \in Control
      /\ WellFormed(mem) /\ ctl.job \in DOMAIN mem.jobs
      /\ Log(l, [mem EXCEPT !.occs = With(@, o, n)], c)
  BY DEF FirstOccurrence, At, JobRec, PlaceRight, TypesRight, Placed
<1>2. ctl.job \in Jobs /\ b \in Job
  BY <1>1 DEF WellFormed
<1>3. o \in Occs /\ JobOf(o) = ctl.job /\ b.key \in Keys \cup {NoKey}
  BY <1>2 DEF OccId, Occs, JobOf, Job
<1>4. n.state = "scheduled" /\ n.sess = 0 /\ n.outcome = "none"
  BY NewFits
<1>5. /\ l.type = "occurrence.created"
      /\ l.occ = o
      /\ l.reason = "schedule"
      /\ l.missed = 0
      /\ l.key = b.key
  OBVIOUS
<1>6. /\ c \in Control
      /\ c.at = "commands"
      /\ c.occ = ctl.occ
      /\ c.run = ctl.run
      /\ c.items = ctl.items
      /\ c.occs = ctl.occs /\ c.jobs = ctl.jobs
  BY <1>1 DEF Control, Places
<1> HIDE DEF l, c, o, b
<1>7. Writes(l, m)
  BY <1>3, <1>5, NewOccWrites
<1>8. m.jobs = mem.jobs /\ m.occs = With(mem.occs, o, n)
  BY DEF OccPut
<1>9. [mem EXCEPT !.occs = With(@, o, n)] = m
  <2> HIDE DEF n
  <2> QED BY <1>1, OccAdds
<1> HIDE DEF m, n
<1>10. Placed(m, c, runs, now) /\ ~Holds(c)
  BY <1>1, <1>6, <1>8, AmongCommands DEF PlaceRight, Placed, Holds, Turning, Among
<1>11. ASSUME AccountRight, Same(mem, disk) PROVE Accounted(m, c)
  <2>1. o \notin DOMAIN mem.occs
    BY <1>1, <1>3, <1>11 DEF AccountRight
  <2>2. Sound(m, runs) /\ Paid(m) /\ Stays(mem, m)
    BY <1>1, <1>3, <1>4, <1>8, <1>11, <2>1, NewOccRight
  <2> QED BY <1>6, <1>10, <2>2 DEF Accounted
<1> QED BY <1>1, <1>6, <1>7, <1>9, <1>10, <1>11, LogKeeps

(* An occurrence asked for besides the schedule.                              *)
LEMMA RunNowKeeps ==
  ASSUME PlaceRight, BoxRight, NEW j \in Jobs, NEW k \in Keys \cup {NoKey}, RequestRunNow(j, k)
  PROVE  Keeps
<1> DEFINE o == OccId(j, mem.jobs[j].rev, now)
           l == [type |-> "occurrence.created", occ |-> o, reason |-> "run_now", missed |-> 0,
                 key |-> k]
           n == NewOccurrence("run_now", 0)
           c == Taken(2)
           m == OccMade(mem, o, n, k)
<1>1. /\ At("commands") /\ Others /\ WellFormed(mem) /\ j \in DOMAIN mem.jobs /\ now \in Nat
      /\ o \notin DOMAIN mem.occs
      /\ Log(l, [mem EXCEPT !.occs = With(@, o, n), !.runKeys = Registered(@, k, o)], c)
  BY DEF RequestRunNow, Command, Has, JobRec, PlaceRight, TypesRight
<1>2. o \in Occs /\ JobOf(o) = j
  <2>1. mem.jobs[j] \in Job
    BY <1>1 DEF WellFormed
  <2> QED BY <1>1, <2>1 DEF OccId, Occs, JobOf, Job
<1>3. n.state = "scheduled" /\ n.sess = 0 /\ n.outcome = "none"
  BY NewFits
<1>4. /\ l.type = "occurrence.created"
      /\ l.occ = o
      /\ l.reason = "run_now"
      /\ l.missed = 0
      /\ l.key = k
  OBVIOUS
<1> HIDE DEF l, o
<1>5. Writes(l, m)
  BY <1>2, <1>4, NewOccWrites
<1>6. [mem EXCEPT !.occs = With(@, o, n), !.runKeys = Registered(@, k, o)] = m
  <2> DEFINE x == With(mem.occs, o, n)
             y == Registered(mem.runKeys, k, o)
  <2>1. [mem EXCEPT !.occs = x, !.runKeys = y] = [[mem EXCEPT !.occs = x] EXCEPT !.runKeys = y]
    <3> HIDE DEF x, y
    <3> QED OBVIOUS
  <2>2. PICK q : q = [mem EXCEPT !.occs = x]
    OBVIOUS
  <2>3. q = [jobs |-> mem.jobs, occs |-> x, createKeys |-> mem.createKeys, runKeys |-> mem.runKeys]
    <3> HIDE DEF x
    <3> QED BY <1>1, <2>2 DEF WellFormed, Rec
  <2>4. [q EXCEPT !.runKeys = y] =
          [jobs |-> mem.jobs, occs |-> x, createKeys |-> mem.createKeys, runKeys |-> y]
    <3> HIDE DEF x, y
    <3> QED BY <2>3
  <2> QED BY <2>1, <2>2, <2>4 DEF OccMade
<1>7. m.jobs = mem.jobs /\ m.occs = With(mem.occs, o, n)
  BY DEF OccMade
<1> HIDE DEF m, n
<1>8. /\ c \in Control
      /\ c.at = "commands"
      /\ Among(c.at)
      /\ ~Holds(ctl)
      /\ c.occ = ctl.occ
      /\ c.run = ctl.run
      /\ c.jobs = ctl.jobs
      /\ ctl.jobs \subseteq DOMAIN mem.jobs
      /\ c.items = {}
      /\ c.occs = {}
      /\ ~Holds(c)
  BY <1>1, TakenForm
<1> HIDE DEF c
<1>9. Placed(m, c, runs, now)
  BY <1>7, <1>8, AmongCommands
<1>10. ASSUME AccountRight, Same(mem, disk) PROVE Accounted(m, c)
  <2>1. Sound(m, runs) /\ Paid(m) /\ Stays(mem, m)
    BY <1>1, <1>2, <1>3, <1>7, <1>10, NewOccRight
  <2> QED BY <1>8, <2>1 DEF Accounted
<1> QED BY <1>1, <1>5, <1>6, <1>8, <1>9, <1>10, LogKeeps DEF At

(* Cancelling goes through the occurrences one by one.                        *)
LEMMA CancelOccurrenceKeeps ==
  ASSUME PlaceRight, BoxRight, NEW o \in ctl.occs, CancelOccurrence(o)
  PROVE  Keeps
<1> DEFINE c == [ctl EXCEPT !.occs = ctl.occs \ {o}]
<1>1. /\ ctl.at = "cancel" /\ Others /\ WellFormed(mem) /\ ctl \in Control
      /\ o \in DOMAIN mem.occs /\ mem.occs[o] \in Occurrence
      /\ \A x \in ctl.occs : x \in DOMAIN mem.occs /\ mem.occs[x].state # "settled"
  BY DEF CancelOccurrence, At, PlaceRight, TypesRight, Placed, WellFormed
<1>2. /\ c \in Control
      /\ c.at = "cancel"
      /\ c.occ = ctl.occ
      /\ c.run = ctl.run
      /\ c.items = ctl.items
      /\ c.occs = ctl.occs \ {o} /\ c.jobs = ctl.jobs
  BY <1>1 DEF Control
<1> HIDE DEF c
<1>3. ASSUME NEW n, NEW l, Log(l, OccPut(mem, o, n), c), Writes(l, OccPut(mem, o, n)),
             n.sess = mem.occs[o].sess, n.state # "scheduled" \/ n.state = mem.occs[o].state,
             n.state # "settled" => n.outcome = mem.occs[o].outcome /\ n.state = mem.occs[o].state,
             n.outcome # "succeeded" \/ n.outcome = mem.occs[o].outcome
      PROVE  Keeps
  <2> DEFINE m == OccPut(mem, o, n)
  <2>1. /\ m.jobs = mem.jobs /\ DOMAIN m.occs = DOMAIN mem.occs
        /\ \A x \in DOMAIN mem.occs : x # o => m.occs[x] = mem.occs[x]
    BY <1>1, OccPutRight
  <2>2. ASSUME AccountRight, Same(mem, disk) PROVE Sound(m, runs) /\ Paid(m) /\ Stays(mem, m)
    <3>1. Sound(mem, runs) /\ Paid(mem)
      BY <2>2, SameSound DEF AccountRight
    <3>2. mem.occs[o].state # "settled" /\ mem.occs[o].outcome = "none"
            /\ (mem.occs[o].state = "scheduled" => mem.occs[o].sess = 0)
      BY <1>1, <3>1 DEF Sound
    <3>3. /\ n.state = "scheduled" => n.sess = 0
          /\ n.state # "settled" => n.outcome = "none"
          /\ n.outcome # "succeeded"
      BY <1>3, <3>2
    <3> QED BY <1>1, <1>3, <2>2, <3>2, <3>3, OccPutRight
  <2> HIDE DEF m
  <2>3. Placed(m, c, runs, now) /\ ~Holds(c)
    BY <1>1, <1>2, <2>1 DEF PlaceRight, Placed, Holds, Turning, Judges
  <2>4. AccountRight /\ Same(mem, disk) => Accounted(m, c)
    BY <1>2, <2>2, <2>3 DEF Accounted
  <2> QED BY <1>1, <1>2, <1>3, <2>3, <2>4, LogKeeps DEF m
<1>4. CASE mem.occs[o].state = "scheduled"
  <2> DEFINE l == [type |-> "occurrence.settled", occ |-> o, outcome |-> "cancelled"]
             n == Closed(mem.occs[o], "cancelled")
  <2>1. Log(l, Settled(o, "cancelled"), c)
    BY <1>4 DEF CancelOccurrence, OccRec, c
  <2>2. Settled(o, "cancelled") = OccPut(mem, o, n)
    <3>1. Settled(o, "cancelled") = [mem EXCEPT !.occs[o] = n]
      BY DEF Settled
    <3> HIDE DEF n
    <3> QED BY <1>1, <3>1, OccPuts
  <2>3. /\ l.type \in OccTypes /\ l.occ = o
        /\ \A x : OccLine(x, l) = [x EXCEPT !.state = "settled", !.outcome = "cancelled"]
    BY DEF OccTypes, OccLine
  <2>4. n = OccLine(mem.occs[o], l)
    BY <2>3 DEF Closed
  <2>5. \A x \in Occurrence : OccLine(x, l) \in Occurrence /\ OccLine(x, l).sess = x.sess
    <3>1. ASSUME NEW x \in Occurrence
          PROVE  OccLine(x, l) \in Occurrence /\ OccLine(x, l).sess = x.sess
      <4> HIDE DEF l
      <4> QED BY <2>3, OccLines DEF Outcomes
    <3> QED BY <3>1
  <2>6. n.sess = mem.occs[o].sess /\ n.state = "settled" /\ n.outcome = "cancelled"
    BY <1>1 DEF Closed, Occurrence
  <2> HIDE DEF l, n
  <2>7. Writes(l, OccPut(mem, o, n))
    BY <1>1, <2>3, <2>4, <2>5, OccWrites
  <2> QED BY <1>3, <2>1, <2>2, <2>6, <2>7
<1>5. CASE mem.occs[o].state # "scheduled"
  <2> DEFINE l == [type |-> "occurrence.cancel_requested", occ |-> o]
             n == Marked(mem.occs[o])
  <2>1. Log(l, [mem EXCEPT !.occs[o] = Marked(@)], c)
    BY <1>5 DEF CancelOccurrence, OccRec, c
  <2>2. [mem EXCEPT !.occs[o] = Marked(@)] = OccPut(mem, o, n)
    <3>1. [mem EXCEPT !.occs[o] = Marked(@)] = [mem EXCEPT !.occs[o] = n]
      OBVIOUS
    <3> HIDE DEF n
    <3> QED BY <1>1, <3>1, OccPuts
  <2>3. /\ l.type \in OccTypes /\ l.occ = o
        /\ \A x : OccLine(x, l) = [x EXCEPT !.cancel = TRUE]
    BY DEF OccTypes, OccLine
  <2>4. n = OccLine(mem.occs[o], l)
    BY <2>3 DEF Marked
  <2>5. \A x \in Occurrence : OccLine(x, l) \in Occurrence /\ OccLine(x, l).sess = x.sess
    <3>1. ASSUME NEW x \in Occurrence
          PROVE  OccLine(x, l) \in Occurrence /\ OccLine(x, l).sess = x.sess
      <4> HIDE DEF l
      <4> QED BY <2>3, OccLines
    <3> QED BY <3>1
  <2>6. /\ n.sess = mem.occs[o].sess /\ n.state = mem.occs[o].state
        /\ n.outcome = mem.occs[o].outcome
    BY <1>1 DEF Marked, Occurrence
  <2> HIDE DEF l, n
  <2>7. Writes(l, OccPut(mem, o, n))
    BY <1>1, <2>3, <2>4, <2>5, OccWrites
  <2> QED BY <1>3, <2>1, <2>2, <2>6, <2>7
<1> QED BY <1>4, <1>5

(* The slots due are finitely many numbers, from the cursor to now.           *)
LEMMA DueSlots ==
  ASSUME PlaceRight, NEW j \in DOMAIN mem.jobs
  PROVE  /\ Due(j) = DueIn(mem.jobs[j], now) /\ Due(j) \in SUBSET (0 .. now)
         /\ Cardinality(Due(j)) \in Nat
         /\ Due(j) # {} => Cardinality(Due(j)) - 1 \in Nat /\ SlotTaken(j) \in Due(j)
<1>1. mem.jobs[j] \in Job /\ now \in Nat
  BY DEF PlaceRight, TypesRight, WellFormed
<1>2. Due(j) = DueIn(mem.jobs[j], now)
  BY DEF Due, DueIn, JobRec
<1>3. Due(j) \in SUBSET (0 .. now)
  BY <1>1, <1>2 DEF DueIn, Job
<1>4. IsFiniteSet(0 .. now)
  BY <1>1, FS_Interval
<1>5. IsFiniteSet(Due(j))
  BY <1>3, <1>4, FS_Subset
<1>6. Cardinality(Due(j)) \in Nat
  BY <1>5, FS_CardinalityType
<1>7. ASSUME Due(j) # {} PROVE Cardinality(Due(j)) - 1 \in Nat /\ SlotTaken(j) \in Due(j)
  <2>1. Cardinality(Due(j)) # 0
    BY <1>5, <1>7, FS_EmptySet
  <2>2. Min(Due(j)) \in Due(j) /\ Max(Due(j)) \in Due(j)
    BY <1>1, <1>3, <1>7, Ends
  <2> QED BY <1>6, <2>1, <2>2 DEF SlotTaken
<1> QED BY <1>2, <1>3, <1>6, <1>7

(* Where a sweep goes from a job that has slots due.                          *)
LEMMA AdvancingForm ==
  ASSUME PlaceRight, NEW j \in ctl.jobs, Sweeping(j), Due(j) # {}
  PROVE  /\ j \in DOMAIN mem.jobs /\ j \in Jobs /\ DueIn(mem.jobs[j], now) # {}
         /\ Due2nd(j) \in Control /\ Due2nd(j).at = "advance" /\ Due2nd(j).job = j
         /\ Due2nd(j).occ = ctl.occ /\ Due2nd(j).run = ctl.run /\ Due2nd(j).items = {}
         /\ Due2nd(j).occs = {} /\ Due2nd(j).jobs = ctl.jobs /\ ~Holds(ctl) /\ ~Holds(Due2nd(j))
<1>1. j \in DOMAIN mem.jobs /\ j \in Jobs /\ ctl \in Control /\ ctl.at = "sweep"
  BY DEF PlaceRight, TypesRight, WellFormed, Placed, Sweeping, At
<1>2. DueIn(mem.jobs[j], now) # {}
  BY <1>1, DueSlots
<1>3. /\ Due2nd(j) \in Control /\ Due2nd(j).at = "advance" /\ Due2nd(j).job = j
      /\ Due2nd(j).occ = ctl.occ /\ Due2nd(j).run = ctl.run /\ Due2nd(j).items = ctl.items
      /\ Due2nd(j).occs = ctl.occs /\ Due2nd(j).jobs = ctl.jobs
  BY <1>1 DEF Due2nd, Control, Places
<1> QED BY <1>1, <1>2, <1>3 DEF PlaceRight, Placed, Holds, Turning

(* The slots due are merged into the occurrence that waits.                   *)
LEMMA MergeKeeps ==
  ASSUME PlaceRight, BoxRight, NEW j \in ctl.jobs, SweepMerge(j)
  PROVE  Keeps
<1> DEFINE N == Cardinality(Due(j))
           c == Due2nd(j)
<1>1. Sweeping(j) /\ Due(j) # {} /\ Others /\ ctl.at = "sweep" /\ WellFormed(mem)
  BY DEF SweepMerge, Sweeping, At, PlaceRight, TypesRight
<1>2. /\ j \in DOMAIN mem.jobs /\ c \in Control /\ c.at = "advance" /\ c.job = j /\ c.occ = ctl.occ
      /\ c.run = ctl.run
      /\ c.items = {}
      /\ c.occs = {}
      /\ c.jobs = ctl.jobs
      /\ ~Holds(ctl)
      /\ ~Holds(c)
      /\ DueIn(mem.jobs[j], now) # {} /\ ctl.jobs \subseteq DOMAIN mem.jobs
  BY <1>1, AdvancingForm DEF PlaceRight, Placed
<1>3. N \in Nat
  BY <1>2, DueSlots
<1>4. PICK o \in Oldest(j) :
        Log([type |-> "occurrence.merged", occ |-> o, missed |-> OccRec(o).missed + N],
            [mem EXCEPT !.occs[o].missed = @ + N], c)
  BY DEF SweepMerge
<1>5. o \in DOMAIN mem.occs /\ mem.occs[o] \in Occurrence /\ mem.occs[o].state = "scheduled"
  BY <1>1 DEF Oldest, Waiting, OfJob, OccRec, WellFormed
<1> DEFINE v == mem.occs[o].missed + N
           l == [type |-> "occurrence.merged", occ |-> o, missed |-> v]
           n == [mem.occs[o] EXCEPT !.missed = v]
           m == OccPut(mem, o, n)
<1>6. Log(l, [mem EXCEPT !.occs[o].missed = v], c)
  BY <1>4 DEF OccRec
<1>7. v \in Nat
  BY <1>3, <1>5 DEF Occurrence
<1> HIDE DEF N, c
<1>8. [mem EXCEPT !.occs[o].missed = v] = m
  <2> HIDE DEF v
  <2> QED BY <1>1, <1>5, OccPuts
<1>9. l.type \in OccTypes /\ l.occ = o /\ \A x : OccLine(x, l) = [x EXCEPT !.missed = v]
  BY DEF OccTypes, OccLine
<1>10. \A x \in Occurrence : OccLine(x, l) \in Occurrence /\ OccLine(x, l).sess = x.sess
  <2>1. ASSUME NEW x \in Occurrence
        PROVE  OccLine(x, l) \in Occurrence /\ OccLine(x, l).sess = x.sess
    <3>1. PICK w \in Nat : w = v
      BY <1>7
    <3>2. OccLine(x, l) = [x EXCEPT !.missed = w]
      BY <1>9, <3>1
    <3> QED BY <3>2 DEF Occurrence
  <2> QED BY <2>1
<1>11. n.sess = mem.occs[o].sess /\ n.state = mem.occs[o].state /\ n.outcome = mem.occs[o].outcome
  BY <1>5 DEF Occurrence
<1>12. n = OccLine(mem.occs[o], l)
  BY <1>9
<1> HIDE DEF l, n, v
<1>13. Writes(l, m)
  BY <1>5, <1>9, <1>10, <1>12, OccWrites
<1>14. m.jobs = mem.jobs
  BY <1>5, OccPutRight
<1>15. ASSUME AccountRight, Same(mem, disk) PROVE Accounted(m, c)
  <2>1. Sound(mem, runs)
    BY <1>15, SameSound DEF AccountRight
  <2>2. Sound(m, runs) /\ Paid(m) /\ Stays(mem, m)
    BY <1>5, <1>11, <1>15, <2>1, OccPutRight DEF Sound
  <2> QED BY <1>2, <2>2 DEF Accounted
<1>16. Placed(m, c, runs, now)
  BY <1>2, <1>14, AmongCommands DEF Among
<1> QED BY <1>1, <1>2, <1>6, <1>8, <1>13, <1>15, <1>16, LogKeeps

(* ... or make a new one.                                                     *)
LEMMA SweepCreateKeeps ==
  ASSUME PlaceRight, BoxRight, NEW j \in ctl.jobs, SweepCreate(j)
  PROVE  Keeps
<1> DEFINE c == Due2nd(j)
           o == Target(j)
           missed == MissedByNew(j)
           n == NewOccurrence("schedule", missed)
           l == [type |-> "occurrence.created", occ |-> o, reason |-> "schedule", missed |-> missed,
                 key |-> NoKey]
           m == OccPut(mem, o, n)
<1>1. /\ Sweeping(j) /\ Due(j) # {} /\ Others /\ ctl.at = "sweep" /\ WellFormed(mem) /\ now \in Nat
      /\ o \notin DOMAIN mem.occs /\ Log(l, [mem EXCEPT !.occs = With(@, o, n)], c)
  BY DEF SweepCreate, Sweeping, At, PlaceRight, TypesRight, Makes, Has
<1>2. /\ j \in DOMAIN mem.jobs /\ j \in Jobs /\ c \in Control /\ c.at = "advance" /\ c.job = j
      /\ c.occ = ctl.occ /\ c.run = ctl.run /\ c.items = {} /\ c.occs = {} /\ c.jobs = ctl.jobs
      /\ ~Holds(ctl)
      /\ ~Holds(c)
      /\ DueIn(mem.jobs[j], now) # {}
      /\ ctl.jobs \subseteq DOMAIN mem.jobs
  BY <1>1, AdvancingForm DEF PlaceRight, Placed
<1>3. missed \in Nat /\ SlotTaken(j) \in Nat
  BY <1>1, <1>2, DueSlots DEF MissedByNew
<1>4. o \in Occs /\ JobOf(o) = j
  <2>1. mem.jobs[j] \in Job
    BY <1>1, <1>2 DEF WellFormed
  <2> QED BY <1>2, <1>3, <2>1 DEF Target, OccId, Occs, JobOf, JobRec, Job
<1>5. n.state = "scheduled" /\ n.sess = 0 /\ n.outcome = "none"
  BY <1>3, NewFits
<1>6. l.type = "occurrence.created" /\ l.occ = o /\ l.reason = "schedule" /\ l.missed = missed
        /\ l.key = NoKey
  OBVIOUS
<1> HIDE DEF c, o, missed, l
<1>7. Writes(l, m)
  BY <1>3, <1>4, <1>6, NewOccWrites
<1>8. m.jobs = mem.jobs /\ m.occs = With(mem.occs, o, n)
  BY DEF OccPut
<1> HIDE DEF n
<1>9. [mem EXCEPT !.occs = With(@, o, n)] = m
  BY <1>1, OccAdds
<1> HIDE DEF m
<1>10. Placed(m, c, runs, now)
  BY <1>2, <1>8, AmongCommands DEF Among
<1>11. ASSUME AccountRight, Same(mem, disk) PROVE Accounted(m, c)
  <2>1. Sound(m, runs) /\ Paid(m) /\ Stays(mem, m)
    BY <1>1, <1>2, <1>4, <1>5, <1>8, <1>11, NewOccRight
  <2> QED BY <1>2, <2>1 DEF Accounted
<1> QED BY <1>1, <1>2, <1>7, <1>9, <1>10, <1>11, LogKeeps

(* A claim without a session is given back.                                   *)
LEMMA RedispatchKeeps ==
  ASSUME PlaceRight, BoxRight, NEW o \in ctl.occs, Redispatch(o)
  PROVE  Keeps
<1> DEFINE a == mem.occs[o].attempt + 1
           l == [type |-> "occurrence.redispatched", occ |-> o, attempt |-> a]
           n == Back(mem.occs[o])
           c == [ctl EXCEPT !.occs = ctl.occs \ {o}]
           m == OccPut(mem, o, n)
<1>1. /\ ctl.at = "recover" /\ Others /\ WellFormed(mem) /\ ctl \in Control
      /\ o \in DOMAIN mem.occs /\ mem.occs[o] \in Occurrence /\ mem.occs[o].sess = 0
      /\ ClaimedIn(mem) = ctl.occs /\ ctl.back = "idle" /\ ctl.run = 0 /\ ctl.occ = NoOcc
      /\ ctl.items = {} /\ ctl.jobs \subseteq DOMAIN mem.jobs
      /\ Log(l, [mem EXCEPT !.occs[o] = Back(@)], c)
  BY DEF Redispatch, Recovering, Redispatchable, OccRec, At, PlaceRight, TypesRight, Placed,
     WellFormed, Judges, Holds, Turning, InHands
<1>2. mem.occs[o].state = "claimed"
  BY <1>1 DEF ClaimedIn
<1>3. /\ c \in Control
      /\ c.at = "recover"
      /\ c.occ = ctl.occ
      /\ c.run = ctl.run
      /\ c.items = ctl.items
      /\ c.occs = ctl.occs \ {o} /\ c.jobs = ctl.jobs /\ c.back = ctl.back
  BY <1>1 DEF Control
<1>4. [mem EXCEPT !.occs[o] = Back(@)] = m
  <2>1. [mem EXCEPT !.occs[o] = Back(@)] = [mem EXCEPT !.occs[o] = n]
    OBVIOUS
  <2> HIDE DEF n
  <2> QED BY <1>1, <2>1, OccPuts
<1>5. /\ l.type \in OccTypes /\ l.occ = o
      /\ \A x : OccLine(x, l) = [x EXCEPT !.state = "scheduled", !.attempt = a]
  BY DEF OccTypes, OccLine
<1>6. a \in Nat \ {0}
  BY <1>1 DEF Occurrence
<1>7. n = [mem.occs[o] EXCEPT !.state = "scheduled", !.attempt = a]
  BY DEF Back
<1>8. n.sess = mem.occs[o].sess /\ n.state = "scheduled" /\ n.outcome = mem.occs[o].outcome
  BY <1>1 DEF Back, Occurrence
<1> HIDE DEF l, n, c, a
<1>9. n = OccLine(mem.occs[o], l)
  BY <1>5, <1>7
<1>10. \A x \in Occurrence : OccLine(x, l) \in Occurrence /\ OccLine(x, l).sess = x.sess
  <2>1. PICK w \in Nat \ {0} : w = a
    BY <1>6
  <2>2. ASSUME NEW x \in Occurrence
        PROVE  OccLine(x, l) \in Occurrence /\ OccLine(x, l).sess = x.sess
    <3>1. OccLine(x, l) = [x EXCEPT !.state = "scheduled", !.attempt = w]
      BY <1>5, <2>1
    <3> QED BY <3>1 DEF Occurrence
  <2> QED BY <2>2
<1>11. Writes(l, m)
  BY <1>1, <1>5, <1>9, <1>10, OccWrites
<1>12. /\ m.jobs = mem.jobs /\ DOMAIN m.occs = DOMAIN mem.occs
       /\ ClaimedIn(m) = ClaimedIn(mem) \ {o}
  BY <1>1, <1>8, OccPutRight
<1>13. ASSUME AccountRight, Same(mem, disk) PROVE Sound(m, runs) /\ Paid(m) /\ Stays(mem, m)
  <2>1. Sound(mem, runs)
    BY <1>13, SameSound DEF AccountRight
  <2>2. mem.occs[o].outcome = "none"
    BY <1>1, <1>2, <2>1 DEF Sound
  <2> QED BY <1>1, <1>2, <1>8, <1>13, <2>2, OccPutRight
<1> HIDE DEF m
<1>14. Placed(m, c, runs, now) /\ ~Holds(c)
  BY <1>1, <1>3, <1>12 DEF Placed, Holds, Turning, Judges, InHands, PlaceRight
<1>15. AccountRight /\ Same(mem, disk) => Accounted(m, c)
  BY <1>3, <1>13, <1>14 DEF Accounted
<1> QED BY <1>1, <1>3, <1>4, <1>11, <1>14, <1>15, LogKeeps

(* What the settlement of an occurrence writes.                               *)
LEMMA SettledWrites ==
  ASSUME PlaceRight, NEW o \in DOMAIN mem.occs, NEW v \in Outcomes,
         NEW l, l = [type |-> "occurrence.settled", occ |-> o, outcome |-> v]
  PROVE  \E n : /\ Settled(o, v) = OccPut(mem, o, n) /\ Writes(l, OccPut(mem, o, n))
                /\ n.state = "settled" /\ n.outcome = v /\ n.sess = mem.occs[o].sess
<1> DEFINE n == Closed(mem.occs[o], v)
<1>1. WellFormed(mem) /\ mem.occs[o] \in Occurrence
  BY DEF PlaceRight, TypesRight, WellFormed
<1>2. Settled(o, v) = OccPut(mem, o, n)
  <2>1. Settled(o, v) = [mem EXCEPT !.occs[o] = n]
    BY DEF Settled
  <2> HIDE DEF n
  <2> QED BY <1>1, <2>1, OccPuts
<1>3. /\ l.type \in OccTypes /\ l.occ = o
      /\ \A x : OccLine(x, l) = [x EXCEPT !.state = "settled", !.outcome = v]
  BY DEF OccTypes, OccLine
<1>4. n = OccLine(mem.occs[o], l)
  BY <1>3 DEF Closed
<1>5. \A x \in Occurrence : OccLine(x, l) \in Occurrence /\ OccLine(x, l).sess = x.sess
  <2>1. ASSUME NEW x \in Occurrence
        PROVE  OccLine(x, l) \in Occurrence /\ OccLine(x, l).sess = x.sess
    <3>1. OccLine(x, l) = [x EXCEPT !.state = "settled", !.outcome = v]
      BY <1>3
    <3> QED BY <3>1 DEF Occurrence
  <2> QED BY <2>1
<1>6. n.sess = mem.occs[o].sess /\ n.state = "settled" /\ n.outcome = v
  BY <1>1 DEF Closed, Occurrence
<1> HIDE DEF n
<1>7. Writes(l, OccPut(mem, o, n))
  BY <1>1, <1>3, <1>4, <1>5, OccWrites
<1> QED BY <1>2, <1>6, <1>7

(* The occurrence in hand is settled.                                         *)
LEMMA SettleKeeps ==
  ASSUME PlaceRight, BoxRight, Settle
  PROVE  Keeps
<1> DEFINE o == ctl.occ
           v == ctl.verdict
           l == [type |-> "occurrence.settled", occ |-> o, outcome |-> v]
           c == [Idle EXCEPT !.at = ctl.back, !.occs = ctl.occs]
<1>1. /\ ctl.at = "settle" /\ Others /\ WellFormed(mem) /\ ctl \in Control
      /\ Log(l, Settled(o, v), c)
  BY DEF Settle, At, PlaceRight, TypesRight
<1>2. /\ Holds(ctl) /\ InHandRight(mem, ctl, runs, now)
      /\ o \in DOMAIN mem.occs /\ o \notin ctl.occs /\ v \in Outcomes
      /\ ClaimedIn(mem) = ctl.occs \cup {o} /\ (ctl.back = "idle" => ctl.occs = {})
      /\ ctl.occs \subseteq DOMAIN mem.occs
      /\ ctl.occs \subseteq Occs
      /\ ctl.back \in {"idle", "recover"}
  BY <1>1 DEF PlaceRight, Placed, Holds, Turning, InHandRight, Judging, Judges, InHands, Control
<1>3. /\ c \in Control /\ c.at = ctl.back /\ c.occ = NoOcc /\ c.run = 0 /\ c.items = {}
      /\ c.occs = ctl.occs /\ c.jobs = {} /\ c.back = "idle"
  <2>1. c \in Control
    BY <1>2, IdleRight
  <2> QED BY <2>1 DEF Idle
<1> HIDE DEF c, l
<1>4. PICK n : /\ Settled(o, v) = OccPut(mem, o, n) /\ Writes(l, OccPut(mem, o, n))
               /\ n.state = "settled" /\ n.outcome = v /\ n.sess = mem.occs[o].sess
  BY <1>2, SettledWrites DEF l
<1> DEFINE m == OccPut(mem, o, n)
<1>5. /\ m.jobs = mem.jobs /\ DOMAIN m.occs = DOMAIN mem.occs
      /\ ClaimedIn(m) = ctl.occs
  <2>1. /\ m.jobs = mem.jobs /\ DOMAIN m.occs = DOMAIN mem.occs
        /\ ClaimedIn(m) = ClaimedIn(mem) \ {o}
    <3>1. o \in DOMAIN mem.occs
      BY <1>2
    <3>2. n.state # "claimed"
      BY <1>4
    <3> HIDE DEF o
    <3> QED BY <3>1, <3>2, OccPutRight
  <2> QED BY <1>2, <2>1
<1>6. ASSUME AccountRight, Same(mem, disk), ~broken PROVE Sound(m, runs) /\ Paid(m) /\ Stays(mem, m)
  <2>1. mem.occs[o].sess = ctl.run /\ (v = "succeeded" => Told(ctl.run))
    BY <1>1, <1>2, <1>6 DEF AccountRight
  <2>2. mem.occs[o].state = "claimed"
    BY <1>2 DEF ClaimedIn
  <2> QED BY <1>2, <1>4, <1>6, <2>1, <2>2, OccPutRight
<1> HIDE DEF m
<1>7. Placed(m, c, runs, now) /\ ~Holds(c)
  BY <1>2, <1>3, <1>5 DEF Placed, Holds, Turning, Judges, InHands
<1>8. AccountRight /\ Same(mem, disk) /\ ~broken => Accounted(m, c)
  BY <1>2, <1>3, <1>6, <1>7 DEF Accounted
<1> QED BY <1>1, <1>2, <1>3, <1>4, <1>7, <1>8, LogKeeps DEF m

(* What must not run any more is settled as cancelled.                        *)
LEMMA CleanKeeps ==
  ASSUME PlaceRight, BoxRight, NEW o \in Scheduled, CleanDoomed(o)
  PROVE  Keeps
<1> DEFINE l == [type |-> "occurrence.settled", occ |-> o, outcome |-> "cancelled"]
<1>1. /\ ctl.at = "clean" /\ Others /\ ctl \in Control /\ Log(l, Settled(o, "cancelled"), ctl)
      /\ o \in DOMAIN mem.occs /\ mem.occs[o].state = "scheduled" /\ "cancelled" \in Outcomes
  BY DEF CleanDoomed, Scheduled, OccRec, At, PlaceRight, TypesRight, Outcomes
<1> HIDE DEF l
<1>2. PICK n : /\ Settled(o, "cancelled") = OccPut(mem, o, n) /\ Writes(l, OccPut(mem, o, n))
               /\ n.state = "settled" /\ n.outcome = "cancelled" /\ n.sess = mem.occs[o].sess
  BY <1>1, SettledWrites DEF l
<1> DEFINE m == OccPut(mem, o, n)
<1>3. /\ m.jobs = mem.jobs /\ DOMAIN m.occs = DOMAIN mem.occs
      /\ ClaimedIn(m) = ClaimedIn(mem) \ {o}
      /\ AccountRight /\ Same(mem, disk) => Sound(m, runs) /\ Paid(m) /\ Stays(mem, m)
  BY <1>1, <1>2, OccPutRight
<1>4. ClaimedIn(m) = ClaimedIn(mem)
  BY <1>1, <1>3 DEF ClaimedIn
<1> HIDE DEF m
<1>5. Placed(m, ctl, runs, now) /\ ~Holds(ctl)
  BY <1>1, <1>3, <1>4 DEF PlaceRight, Placed, Holds, Turning, Judges
<1>6. AccountRight /\ Same(mem, disk) => Accounted(m, ctl)
  BY <1>1, <1>3, <1>5 DEF Accounted
<1> QED BY <1>1, <1>2, <1>5, <1>6, LogKeeps DEF m

(* The oldest that may run is claimed.                                        *)
LEMMA ClaimKeeps ==
  ASSUME PlaceRight, BoxRight, NEW o \in Scheduled, ClaimDue(o)
  PROVE  Keeps
<1> DEFINE a == mem.occs[o].attempt
           l == [type |-> "occurrence.claimed", occ |-> o, attempt |-> a]
           n == [mem.occs[o] EXCEPT !.state = "claimed"]
           c == [Idle EXCEPT !.at = "open", !.occ = o]
           m == OccPut(mem, o, n)
<1>1. /\ ctl.at = "clean" /\ Others /\ WellFormed(mem)
      /\ o \in DOMAIN mem.occs /\ mem.occs[o] \in Occurrence /\ o \in Occs
      /\ mem.occs[o].state = "scheduled" /\ ClaimedIn(mem) = {}
      /\ Log(l, [mem EXCEPT !.occs[o].state = "claimed"], c)
  BY DEF ClaimDue, Scheduled, OccRec, At, PlaceRight, TypesRight, WellFormed, Placed, Judges,
     InHands, Holds, Turning
<1>2. /\ JobOf(o) \in DOMAIN mem.jobs /\ mem.jobs[JobOf(o)].state = "active"
      /\ mem.jobs[JobOf(o)].deadline = 0 \/ now < mem.jobs[JobOf(o)].deadline
  <2>1. o \in Claimable
    BY DEF ClaimDue, First
  <2>2. o \notin Doomed /\ o \in Scheduled /\ StateOfJob(o) = "active"
    BY <2>1 DEF Claimable
  <2>3. Known(o)
    BY <2>2 DEF StateOfJob
  <2>4. ~Expired(JobOf(o))
    BY <2>2, <2>3 DEF Doomed
  <2>5. mem.jobs[JobOf(o)] \in Job /\ now \in Nat
    BY <1>1, <2>3 DEF Known, Has, WellFormed, PlaceRight, TypesRight
  <2> QED BY <2>2, <2>3, <2>4, <2>5 DEF Known, Has, Expired, JobRec, StateOfJob, Job
<1>3. /\ c \in Control /\ c.at = "open" /\ c.occ = o /\ c.run = 0 /\ c.items = {}
      /\ c.occs = {} /\ c.jobs = {} /\ c.back = "idle"
  <2>1. c \in Control
    BY <1>1, IdleRight
  <2> QED BY <2>1 DEF Idle
<1>4. [mem EXCEPT !.occs[o].state = "claimed"] = m
  BY <1>1, OccPuts
<1>5. /\ l.type \in OccTypes /\ l.occ = o
      /\ \A x : OccLine(x, l) = [x EXCEPT !.state = "claimed", !.attempt = a]
  BY DEF OccTypes, OccLine
<1>6. n = OccLine(mem.occs[o], l) /\ a \in Nat \ {0}
  <2>1. a \in Nat \ {0} /\ n \in Occurrence /\ n.attempt = a
    BY <1>1 DEF Occurrence
  <2>2. [n EXCEPT !.attempt = a] = n
    <3> HIDE DEF n, a
    <3> QED BY <2>1 DEF Occurrence
  <2>3. [mem.occs[o] EXCEPT !.state = "claimed", !.attempt = a] = [n EXCEPT !.attempt = a]
    OBVIOUS
  <2> QED BY <1>5, <2>1, <2>2, <2>3
<1>7. n.sess = mem.occs[o].sess /\ n.state = "claimed" /\ n.outcome = mem.occs[o].outcome
  BY <1>1 DEF Occurrence
<1> HIDE DEF l, n, c, a
<1>8. \A x \in Occurrence : OccLine(x, l) \in Occurrence /\ OccLine(x, l).sess = x.sess
  <2>1. PICK w \in Nat \ {0} : w = a
    BY <1>6
  <2>2. ASSUME NEW x \in Occurrence
        PROVE  OccLine(x, l) \in Occurrence /\ OccLine(x, l).sess = x.sess
    <3>1. OccLine(x, l) = [x EXCEPT !.state = "claimed", !.attempt = w]
      BY <1>5, <2>1
    <3> QED BY <3>1 DEF Occurrence
  <2> QED BY <2>2
<1>9. Writes(l, m)
  BY <1>1, <1>5, <1>6, <1>8, OccWrites
<1>10. /\ m.jobs = mem.jobs /\ DOMAIN m.occs = DOMAIN mem.occs /\ m.occs[o] = n
       /\ ClaimedIn(m) = {o}
  BY <1>1, <1>7, OccPutRight
<1>11. ASSUME AccountRight, Same(mem, disk)
       PROVE  Sound(m, runs) /\ Paid(m) /\ Stays(mem, m) /\ mem.occs[o].sess = 0
  <2>1. Sound(mem, runs)
    BY <1>11, SameSound DEF AccountRight
  <2>2. mem.occs[o].outcome = "none" /\ mem.occs[o].sess = 0
    BY <1>1, <2>1 DEF Sound
  <2> QED BY <1>1, <1>7, <1>11, <2>2, OccPutRight
<1> HIDE DEF m
<1>12. Placed(m, c, runs, now)
  <2>1. InHandRight(m, c, runs, now)
    BY <1>1, <1>2, <1>3, <1>10 DEF InHandRight, Turning, Replying, Judging
  <2> QED BY <1>3, <1>10, <2>1 DEF Placed, Holds, Turning, Judges, InHands
<1>13. AccountRight /\ Same(mem, disk) => Accounted(m, c)
  BY <1>1, <1>3, <1>7, <1>10, <1>11 DEF Accounted
<1> QED BY <1>1, <1>3, <1>4, <1>9, <1>12, <1>13, LogKeeps

-----------------------------------------------------------------------------
(* A session is opened for the occurrence in hand.                            *)

(* What there is of the occurrence names no session yet, so no session of     *)
(* before is bound to it; p is the account with or without the line.          *)
LEMMA BoundSound ==
  ASSUME PlaceRight, AccountRight, ctl.at = "open", NEW p, p.jobs = disk.jobs,
         DOMAIN p.occs = DOMAIN disk.occs,
         \A x \in DOMAIN disk.occs : x # ctl.occ => p.occs[x] = disk.occs[x],
         p.occs[ctl.occ].state = "claimed", p.occs[ctl.occ].outcome = "none",
         NEW q \in Run, q.occ = ctl.occ, q.bound => p.occs[ctl.occ].sess = Len(runs) + 1
  PROVE  /\ Sound(p, Append(runs, q)) /\ Paid(p) /\ Stays(disk, p)
         /\ \A x, y \in 1 .. Len(Append(runs, q)) :
              x < y /\ Append(runs, q)[x].occ = Append(runs, q)[y].occ => ~Append(runs, q)[x].bound
<1> DEFINE o == ctl.occ
           qs == Append(runs, q)
<1>1. /\ Holds(ctl) /\ ~broken /\ ctl.run = 0 /\ Same(mem, disk) /\ Sound(disk, runs) /\ Paid(disk)
      /\ o \in DOMAIN disk.occs /\ disk.occs[o].state = "claimed" /\ mem.occs[o].sess = 0
      /\ \A x, y \in 1 .. Len(runs) : x < y /\ runs[x].occ = runs[y].occ => ~runs[x].bound
  BY DEF AccountRight, Holds, Turning
<1>2. disk.occs[o].sess = 0
  BY <1>1 DEF Same
<1>3. /\ runs \in Seq(Run) /\ Len(runs) \in Nat /\ Len(qs) = Len(runs) + 1
      /\ \A x \in 1 .. Len(runs) : qs[x] = runs[x]
      /\ qs[Len(runs) + 1] = q
  BY DEF PlaceRight, TypesRight
<1> HIDE DEF qs
<1>4. \A x \in 1 .. Len(runs) : runs[x].occ = o => ~runs[x].bound
  BY <1>1, <1>2 DEF Sound
<1>5. Sound(p, qs)
  <2>1. \A x \in DOMAIN p.occs : /\ JobOf(x) \in DOMAIN p.jobs
                                 /\ p.occs[x].state = "scheduled" => p.occs[x].sess = 0
                                 /\ p.occs[x].state # "settled" => p.occs[x].outcome = "none"
    BY <1>1 DEF Sound
  <2>2. ASSUME NEW x \in 1 .. Len(qs)
        PROVE  qs[x].occ \in DOMAIN p.occs /\ (qs[x].bound => p.occs[qs[x].occ].sess = x)
    <3>1. CASE x = Len(runs) + 1
      BY <1>1, <1>3, <3>1
    <3>2. CASE x \in 1 .. Len(runs)
      BY <1>1, <1>3, <1>4, <3>2 DEF Sound
    <3> QED BY <1>3, <3>1, <3>2
  <2> QED BY <2>1, <2>2 DEF Sound
<1>6. Paid(p)
  BY <1>1 DEF Paid
<1>7. Stays(disk, p)
  BY <1>1 DEF Stays
<1>8. ASSUME NEW x \in 1 .. Len(qs), NEW y \in 1 .. Len(qs), x < y, qs[x].occ = qs[y].occ
      PROVE  ~qs[x].bound
  <2>1. x \in 1 .. Len(runs) /\ qs[x] = runs[x]
    BY <1>3, <1>8
  <2>2. CASE y = Len(runs) + 1
    BY <1>3, <1>4, <1>8, <2>1, <2>2
  <2>3. CASE y \in 1 .. Len(runs)
    BY <1>1, <1>3, <1>8, <2>1, <2>3
  <2> QED BY <1>3, <2>2, <2>3
<1> QED BY <1>5, <1>6, <1>7, <1>8 DEF qs

(* The line that binds it is legal where the session is known.                *)
LEMMA BoundWrites ==
  ASSUME NEW o \in Occs, NEW rs, NEW r \in 1 .. Len(rs), rs[r].occ = o,
         NEW l, l = [type |-> "occurrence.bound", occ |-> o, sess |-> r]
  PROVE  /\ l.type \in OccTypes /\ Legal(l, rs)
         /\ \A c : OccLine(c, l) = [c EXCEPT !.sess = r]
<1>1. l.type = "occurrence.bound" /\ l.occ = o /\ l.sess = r /\ l.type \in OccTypes
  BY DEF OccTypes
<1>2. \A c : OccLine(c, l) = [c EXCEPT !.sess = r]
  BY <1>1 DEF OccLine
<1>3. r \in Nat
  OBVIOUS
<1>4. ASSUME NEW c \in Occurrence
      PROVE  /\ OccLine(c, l) \in Occurrence
             /\ OccLine(c, l).sess \in 1 .. Len(rs) /\ rs[OccLine(c, l).sess].occ = l.occ
  <2>1. OccLine(c, l) \in Occurrence /\ OccLine(c, l).sess = r
    <3>1. PICK w \in Nat : w = r
      BY <1>3
    <3>2. OccLine(c, l) = [c EXCEPT !.sess = w]
      BY <1>2, <3>1
    <3> QED BY <3>1, <3>2 DEF Occurrence
  <2> QED BY <1>1, <2>1
<1> QED BY <1>1, <1>2, <1>4 DEF Legal

(* The session is opened whether or not the line that binds it is written.    *)
LEMMA OpenKeeps ==
  ASSUME PlaceRight, BoxRight, OpenSession
  PROVE  Keeps
<1> DEFINE o == ctl.occ
           r == Len(runs) + 1
           l == [type |-> "occurrence.bound", occ |-> o, sess |-> r]
           n == [mem.occs[o] EXCEPT !.sess = r]
           m == OccPut(mem, o, n)
<1>1. /\ ctl.at = "open" /\ UNCHANGED <<box, boxDisk, boxBroken, published, now, crashes>>
      /\ ctl' = [ctl EXCEPT !.at = "ask", !.run = r]
      /\ \/ /\ Appended(l)
            /\ mem' = [mem EXCEPT !.occs[o].sess = r]
            /\ runs' = Append(runs, NewRun(o, TRUE))
         \/ /\ AppendFails(l)
            /\ runs' = Append(runs, NewRun(o, FALSE))
            /\ UNCHANGED mem
  BY DEF OpenSession, At, outbox
<1>2. /\ WellFormed(mem)
      /\ WellFormed(disk)
      /\ Fits(mem, runs)
      /\ Fits(disk, runs)
      /\ ctl \in Control
      /\ runs \in Seq(Run)
      /\ Len(runs) \in Nat
      /\ r \in Nat
      /\ torn \in BOOLEAN
      /\ broken \in BOOLEAN
      /\ o \in DOMAIN mem.occs /\ o \in Occs /\ mem.occs[o] \in Occurrence
  BY <1>1 DEF PlaceRight, TypesRight, Placed, Holds, Turning, InHandRight, WellFormed
<1>3. PICK bd \in BOOLEAN :
        /\ runs' = Append(runs, NewRun(o, bd))
        /\ \/ Appended(l) /\ mem' = [mem EXCEPT !.occs[o].sess = r]
           \/ ~bd /\ AppendFails(l) /\ UNCHANGED mem
  BY <1>1
<1> DEFINE q == NewRun(o, bd)
<1>4. q \in Run /\ q.occ = o /\ q.bound = bd
  BY <1>2 DEF NewRun, Run
<1>5. /\ runs' \in Seq(Run) /\ Len(runs') = r /\ r \in 1 .. Len(runs')
      /\ \A x \in 1 .. Len(runs) : runs'[x] = runs[x] /\ x \in 1 .. Len(runs')
      /\ runs'[r] = q
  BY <1>2, <1>3, <1>4
<1> HIDE DEF q
<1>6. Fits(disk, runs') /\ Fits(mem, runs')
  BY <1>2, <1>5 DEF Fits
<1>7. /\ l.type \in OccTypes /\ Legal(l, runs') /\ l.occ = o
      /\ \A c : OccLine(c, l) = [c EXCEPT !.sess = r]
  <2> HIDE DEF r, o
  <2> QED BY <1>2, <1>4, <1>5, BoundWrites
<1>8. /\ n \in Occurrence
      /\ n.sess = r
      /\ n.state = mem.occs[o].state
      /\ n.outcome = mem.occs[o].outcome
  BY <1>2 DEF Occurrence
<1>9. [mem EXCEPT !.occs[o].sess = r] = m
  BY <1>2, OccPuts
<1> HIDE DEF l
<1>10. WellFormed(Written(l)) /\ Fits(Written(l), runs')
  BY <1>2, <1>6, <1>7, ReplayKeeps DEF Written
<1>11. WellFormed(m) /\ Fits(m, runs')
  <2> HIDE DEF n, r, o
  <2> QED BY <1>2, <1>4, <1>5, <1>6, <1>8, PutsWellFormed, PutsFit
<1>12. /\ m.jobs = mem.jobs /\ DOMAIN m.occs = DOMAIN mem.occs /\ m.occs[o] = n
       /\ ClaimedIn(m) = ClaimedIn(mem)
  <2>1. mem.occs[o].state = "claimed" => o \in ClaimedIn(mem)
    BY <1>2 DEF ClaimedIn
  <2>2. mem.occs[o].state # "claimed" => o \notin ClaimedIn(mem)
    BY DEF ClaimedIn
  <2>3. o \in DOMAIN mem.occs /\ n.state = mem.occs[o].state
    BY <1>2, <1>8
  <2> HIDE DEF n, o
  <2>4. /\ m.jobs = mem.jobs /\ DOMAIN m.occs = DOMAIN mem.occs /\ m.occs[o] = n
        /\ ClaimedIn(m) = IF n.state = "claimed" THEN ClaimedIn(mem) \cup {o}
                          ELSE ClaimedIn(mem) \ {o}
    BY <2>3, OccPutRight
  <2> QED BY <2>1, <2>2, <2>3, <2>4
<1>13. /\ ctl' \in Control
       /\ ctl'.at = "ask"
       /\ ctl'.occ = o
       /\ ctl'.run = r
       /\ ctl'.occs = ctl.occs
       /\ ctl'.jobs = ctl.jobs /\ ctl'.items = ctl.items /\ ctl'.back = ctl.back
  BY <1>1, <1>2 DEF Control, Places
<1> HIDE DEF m
<1>14. mem' = m \/ mem' = mem
  BY <1>3, <1>9
<1>15. disk' = Written(l) \/ disk' = disk
  BY <1>3 DEF Appended, AppendFails
<1>16. torn' \in BOOLEAN /\ broken' \in BOOLEAN
  BY <1>2, <1>3 DEF Appended, AppendFails
<1>17. ItemsOf(Len(runs)) \subseteq ItemsOf(Len(runs'))
  BY <1>2, <1>5 DEF ItemsOf
<1>18. TypesRight'
  BY <1>1, <1>2, <1>5, <1>6, <1>10, <1>11, <1>13, <1>14, <1>15, <1>16, <1>17 DEF PlaceRight,
     TypesRight
<1>19. /\ mem'.jobs = mem.jobs
       /\ DOMAIN mem'.occs = DOMAIN mem.occs
       /\ ClaimedIn(mem') = ClaimedIn(mem)
  BY <1>12, <1>14
<1>20. Placed(mem', ctl', runs', now)
  <2>1. InHandRight(mem', ctl', runs', now)
    BY <1>1, <1>4, <1>5, <1>13, <1>19 DEF PlaceRight, Placed, Holds, Turning, InHandRight,
       Replying, Judging
  <2> QED BY <1>1, <1>13, <1>19, <2>1 DEF PlaceRight, Placed, Holds, Turning, Judges, InHands
<1>21. BoxRight'
  BY <1>1, <1>13 DEF BoxRight
<1>22. ASSUME Accounts PROVE AccountRight' /\ Stays(disk, disk')
  <2>1. /\ ~broken
        /\ torn = FALSE
        /\ Same(mem, disk)
        /\ o \in DOMAIN disk.occs
        /\ disk.occs[o].state = "claimed"
        /\ Sound(disk, runs) /\ AccountRight /\ ~TornTails
    BY <1>1, <1>22 DEF Accounts, AccountRight, Holds, Turning
  <2>2. disk.occs[o] = mem.occs[o] /\ disk.occs[o].outcome = "none"
    BY <2>1 DEF Same, Sound
  <2>3. Written(l) = OccPut(disk, o, n)
    <3>1. n = OccLine(disk.occs[o], l)
      BY <1>7, <2>2
    <3> HIDE DEF n, o
    <3>2. Written(l) = Replay(disk, l) /\ Has(disk.occs, l.occ)
      BY <1>7, <2>1 DEF Written, Has
    <3> QED BY <1>2, <1>7, <3>1, <3>2, ReplayOcc
  <2>4. /\ Written(l).jobs = disk.jobs /\ Written(l).occs[o] = n /\ Same(m, Written(l))
        /\ DOMAIN Written(l).occs = DOMAIN disk.occs
        /\ \A x \in DOMAIN disk.occs : x # o => Written(l).occs[x] = disk.occs[x]
    <3> HIDE DEF n
    <3> QED BY <2>1, <2>3 DEF OccPut, With, Same, m
  <2>5. /\ disk'.jobs = disk.jobs /\ DOMAIN disk'.occs = DOMAIN disk.occs
        /\ \A x \in DOMAIN disk.occs : x # o => disk'.occs[x] = disk.occs[x]
        /\ disk'.occs[o].state = "claimed" /\ disk'.occs[o].outcome = "none"
        /\ bd => disk'.occs[o].sess = r
    <3>1. CASE disk' = Written(l)
      BY <1>8, <2>1, <2>2, <2>4, <3>1
    <3>2. CASE disk' = disk
      <4>1. ~bd \/ disk' = Written(l)
        BY <1>3 DEF Appended
      <4> QED BY <2>1, <2>2, <3>2, <4>1, <1>8, <2>4
    <3> QED BY <1>15, <3>1, <3>2
  <2>6. /\ Sound(disk', runs') /\ Paid(disk') /\ Stays(disk, disk')
        /\ \A x, y \in 1 .. Len(runs') : x < y /\ runs'[x].occ = runs'[y].occ => ~runs'[x].bound
    BY <1>1, <1>3, <1>4, <2>1, <2>5, BoundSound DEF q
  <2>7. torn' = FALSE
    BY <1>3, <2>1 DEF Appended, AppendFails
  <2>8. ~broken' => Same(mem', disk') /\ mem'.occs[o].sess = r
    <3>1. ~broken' => disk' = Written(l) /\ mem' = m
      BY <1>3, <1>9 DEF Appended, AppendFails
    <3> QED BY <1>8, <1>12, <2>4, <3>1
  <2>9. Paid(disk)'
    BY <1>1, <2>6 DEF Paid, Told
  <2>10. Sound(disk, runs)'
    BY <2>6 DEF Sound
  <2>11. Holds(ctl') /\ o \in DOMAIN disk'.occs
    BY <1>13, <2>1, <2>5 DEF Holds, Turning
  <2> QED BY <1>13, <2>5, <2>6, <2>7, <2>8, <2>9, <2>10, <2>11 DEF AccountRight
<1>23. Placed(mem, ctl, runs, now)'
  BY <1>1, <1>20
<1> QED BY <1>18, <1>21, <1>22, <1>23 DEF PlaceRight, Keeps

-----------------------------------------------------------------------------
(* The specification.                                                         *)

Inv == PlaceRight /\ BoxRight /\ (~TornTails => AccountRight)

(* All the steps keep what is right.                                          *)
LEMMA NextKeeps ==
  ASSUME PlaceRight, BoxRight, Next
  PROVE  Keeps
<1>1. CASE Commands
  <2>1. ASSUME NEW j \in Jobs, NEW s \in Specs, NEW k \in Keys \cup {NoKey}, CreateJob(j, s, k)
        PROVE  Keeps
    BY <2>1, CreateKeeps
  <2>2. ASSUME NEW j \in Jobs, NEW k \in Keys \cup {NoKey}, RequestRunNow(j, k) PROVE Keeps
    BY <2>2, RunNowKeeps
  <2>3. ASSUME NEW j \in Jobs, NEW p \in Patches, UpdateJob(j, p) PROVE Keeps
    BY <2>3, UpdateKeeps
  <2>4. ASSUME NEW j \in Jobs, PauseJob(j) \/ ResumeJob(j) \/ CancelJob(j) PROVE Keeps
    BY <2>4, PauseKeeps, ResumeKeeps, CancelKeeps
  <2> QED BY <1>1, <2>1, <2>2, <2>3, <2>4 DEF Commands
<1>2. CASE CommandStep
  <2>1. ASSUME NEW o \in ctl.occs, CancelOccurrence(o) PROVE Keeps
    BY <2>1, CancelOccurrenceKeeps
  <2> QED BY <1>2, <2>1, FirstKeeps, SchedulePlaces DEF CommandStep
<1>3. CASE SweepStep
  <2>1. ASSUME NEW j \in ctl.jobs, SweepMerge(j) \/ SweepCreate(j) PROVE Keeps
    BY <2>1, MergeKeeps, SweepCreateKeeps
  <2> QED BY <1>3, <2>1, AdvanceKeeps, SchedulePlaces DEF SweepStep
<1>4. CASE RecoverStep
  <2>1. ASSUME NEW o \in ctl.occs, Redispatch(o) PROVE Keeps
    BY <2>1, RedispatchKeeps
  <2> QED BY <1>4, <2>1, JudgingPlaces DEF RecoverStep
<1>5. CASE DeliverStep
  <2>1. ASSUME NEW d \in ctl.items, Publish(d) \/ PublishFails(d) \/ Flag(d) PROVE Keeps
    BY <2>1, DeliverPlaces
  <2> QED BY <1>5, <2>1, DeliveredPlaces DEF DeliverStep
<1>6. CASE ClaimStep
  <2>1. ASSUME NEW o \in Scheduled, CleanDoomed(o) \/ ClaimDue(o) PROVE Keeps
    BY <2>1, CleanKeeps, ClaimKeeps
  <2> QED BY <1>6, <2>1, JudgingPlaces DEF ClaimStep
<1>7. CASE TurnStep
  BY <1>7, OpenKeeps, TurnPlaces DEF TurnStep
<1>8. CASE TailStep
  BY <1>8, EnqueuePlaces, ObserveKeeps, SettleKeeps DEF TailStep
<1>9. CASE BeginTick \/ CommandsDone
  BY <1>9, SchedulePlaces
<1>10. CASE Crash \/ Restart \/ Clock
  BY <1>10, ProcessPlaces
<1> QED BY <1>1, <1>2, <1>3, <1>4, <1>5, <1>6, <1>7, <1>8, <1>9, <1>10 DEF Next

(* ... and so does a step of something else.                                  *)
LEMMA StutterKeeps ==
  ASSUME PlaceRight, BoxRight, UNCHANGED vars
  PROVE  Keeps
<1>1. UNCHANGED <<disk, torn, broken, mem, box, boxDisk, boxBroken, published, runs, ctl, now,
                  crashes>>
  BY DEF vars, store, outbox
<1>2. TypesRight'
  BY <1>1 DEF PlaceRight, TypesRight, Fits
<1>3. Placed(mem, ctl, runs, now)'
  BY <1>1 DEF PlaceRight
<1>4. BoxRight'
  BY <1>1 DEF BoxRight
<1>5. ASSUME Accounts PROVE AccountRight' /\ Stays(disk, disk')
  BY <1>1, <1>5 DEF Accounts, AccountRight, Sound, Paid, Told, Stays
<1> QED BY <1>2, <1>3, <1>4, <1>5 DEF PlaceRight, Keeps

(* At the start there is nothing.                                             *)
LEMMA InitRight ==
  ASSUME Init
  PROVE  Inv
<1> USE AutomationAssumption
<1>1. ctl \in Control /\ ctl.at = "idle" /\ ~Holds(ctl)
  BY IdleRight DEF Init, Idle, Holds, Turning
<1>2. WellFormed(disk) /\ Fits(disk, runs) /\ WellFormed(mem) /\ Fits(mem, runs)
  BY BlankRight DEF Init
<1>3. DOMAIN Empty = {}
  BY DEF Empty
<1>4. TypesRight
  <2>1. /\ DOMAIN box \subseteq ItemsOf(Len(runs)) /\ box \in [DOMAIN box -> ItemStates]
        /\ DOMAIN boxDisk \subseteq ItemsOf(Len(runs)) /\ boxDisk \in [DOMAIN boxDisk -> ItemStates]
    BY DEF Init, Empty
  <2>2. runs \in Seq(Run) /\ now \in Nat /\ crashes \in 0 .. MaxCrashes
    BY DEF Init, AutomationAssumption
  <2>3. /\ torn \in BOOLEAN
        /\ broken \in BOOLEAN
        /\ boxBroken \in BOOLEAN
        /\ published \subseteq ItemsOf(Len(runs))
    BY DEF Init
  <2> QED BY <1>1, <1>2, <2>1, <2>2, <2>3 DEF TypesRight
<1>5. Placed(mem, ctl, runs, now)
  BY <1>1 DEF Init, Idle, Placed, Judges
<1>6. BoxRight
  BY <1>1, <1>3 DEF Init, BoxRight
<1>7. AccountRight
  <2>1. DOMAIN disk.occs = {} /\ Len(runs) = 0 /\ Same(mem, disk)
    BY <1>3 DEF Init, Blank, Same
  <2> QED BY <1>1, <2>1 DEF Init, AccountRight, Sound, Paid
<1> QED BY <1>4, <1>5, <1>6, <1>7 DEF Inv, PlaceRight

(* A step keeps the invariant; where no line is torn, what is settled too.    *)
LEMMA InvStep ==
  ASSUME Inv, [Next]_vars
  PROVE  Inv' /\ (~TornTails => Stays(disk, disk'))
<1>1. Keeps
  BY NextKeeps, StutterKeeps DEF Inv
<1> QED BY <1>1 DEF Inv, Keeps, Accounts

(* In every reachable state.                                                  *)
THEOREM InvariantHolds == Spec => []Inv
<1>1. Init => Inv
  BY InitRight
<1>2. Inv /\ [Next]_vars => Inv'
  BY InvStep
<1> QED BY <1>1, <1>2, PTL DEF Spec

-----------------------------------------------------------------------------
(* What it says of the system.                                                *)

(* Every variable has its type, in all the states.                            *)
THEOREM TypesHold == Spec => []TypeOK
<1>1. ASSUME Inv PROVE TypeOK
  <2>1. TypesRight /\ Placed(mem, ctl, runs, now) /\ BoxRight
    BY <1>1 DEF Inv, PlaceRight
  <2>2. ASSUME NEW p, WellFormed(p) PROVE IsProjection(p)
    <3>1. DOMAIN p = {"jobs", "occs", "createKeys", "runKeys"}
      BY <2>2 DEF WellFormed, Rec
    <3> QED BY <2>2, <3>1 DEF WellFormed, IsProjection
  <2>3. ASSUME NEW d \in ItemsOf(Len(runs)) PROVE ItemOK(d)
    BY DEF ItemsOf, ItemOK
  <2>4. BoxOK(box) /\ BoxOK(boxDisk) /\ \A d \in published : ItemOK(d)
    BY <2>1, <2>3 DEF TypesRight, BoxOK
  <2>5. \A r \in 1 .. Len(runs) : runs[r] \in Run
    BY <2>1 DEF TypesRight
  <2>6. /\ DOMAIN ctl = DOMAIN Idle /\ ctl.at \in Places /\ ctl.verb \in 1 .. 4
        /\ ctl.verdict \in Outcomes \cup {"none"}
    BY <2>1 DEF TypesRight, Control, Idle
  <2>7. ctl.items \subseteq DOMAIN box
    BY <2>1 DEF BoxRight, Placed
  <2>8. ctl.run \in 0 .. Len(runs) /\ (ctl.occ = NoOcc \/ Has(mem.occs, ctl.occ))
    BY <2>1 DEF TypesRight, Placed, InHandRight, Has
  <2>9. ctl.jobs \subseteq DOMAIN mem.jobs /\ ctl.occs \subseteq DOMAIN mem.occs
    BY <2>1 DEF Placed
  <2>10. IsProjection(disk) /\ IsProjection(mem)
    BY <2>1, <2>2 DEF TypesRight
  <2> QED BY <2>1, <2>4, <2>5, <2>6, <2>7, <2>8, <2>9, <2>10 DEF TypesRight, TypeOK
<1> QED BY <1>1, InvariantHolds, PTL

(* One execution at a time, whatever the account has lost: nothing is claimed *)
(* when work is looked for, and during a turn only its own occurrence is.     *)
THEOREM OneClaimHolds == Spec => []OneClaimInHand
<1>1. ASSUME Inv PROVE OneClaimInHand
  <2>1. Placed(mem, ctl, runs, now)
    BY <1>1 DEF Inv, PlaceRight
  <2>2. Claimed = ClaimedIn(mem)
    BY DEF Claimed, ClaimedIn, OccRec
  <2>3. At("clean") => Claimed = {}
    BY <2>1, <2>2 DEF At, Placed, Judges, InHands, Holds, Turning
  <2>4. InTurn => Claimed = {ctl.occ}
    BY <2>1, <2>2 DEF InTurn, Placed, Judges, InHands, Holds, Turning, InHandRight
  <2> QED BY <2>3, <2>4 DEF OneClaimInHand
<1> QED BY <1>1, InvariantHolds, PTL

(* The model is asked by one step only, of the session in hand.               *)
LEMMA Asked ==
  ASSUME Inv, [Next]_vars, NEW r \in 1 .. Len(runs), ~runs[r].called, runs'[r].called
  PROVE  ctl.at = "ask" /\ r = ctl.run
<1>1. TypesRight /\ Placed(mem, ctl, runs, now) /\ runs \in Seq(Run) /\ runs[r] \in Run
  BY DEF Inv, PlaceRight, TypesRight
<1>2. runs' # runs
  OBVIOUS
<1>3. ASSUME NEW q, runs' = [runs EXCEPT ![q].selected = TRUE] PROVE FALSE
  BY <1>1, <1>3 DEF Run
<1>4. ASSUME NEW q, runs' = [runs EXCEPT ![q].done = TRUE] PROVE FALSE
  BY <1>1, <1>4 DEF Run
<1>5. ASSUME NEW q, NEW t, NEW b, runs' = [runs EXCEPT ![q].text = t, ![q].done = b] PROVE FALSE
  BY <1>1, <1>5 DEF Run
<1>6. ASSUME NEW q, runs' = Append(runs, q) PROVE FALSE
  BY <1>1, <1>6
<1>7. CASE Commands \/ CommandStep \/ SweepStep \/ BeginTick \/ CommandsDone
  BY <1>2, <1>7 DEF Commands, CommandStep, SweepStep, BeginTick, CommandsDone, CreateJob,
     RequestRunNow, UpdateJob, PauseJob, ResumeJob, CancelJob, FirstOccurrence, CancelDone,
     CancelOccurrence, SweepPass, SweepMerge, SweepCreate, SweepDrop, Advance, SweepDone, Others
<1>8. CASE DeliverStep \/ ClaimStep \/ TailStep
  BY <1>2, <1>8 DEF DeliverStep, ClaimStep, TailStep, Publish, PublishFails, Flag, DeliverDone,
     LookForWork, NothingToClaim, CleanDoomed, ClaimDue, Enqueue, ObserveResult, Settle, Others,
     StoreIdle
<1>9. CASE RecoverStep
  BY <1>2, <1>3, <1>9 DEF RecoverStep, Redispatch, GiveUp, RecoverBlind, RecoverUnchanged,
     RecoverReply, RecoverDone, Others
<1>10. CASE TurnFails \/ CutByBudget \/ Select \/ Failed
  BY <1>2, <1>3, <1>4, <1>10 DEF TurnFails, CutByBudget, Select, Failed
<1>11. CASE OpenSession
  BY <1>6, <1>11 DEF OpenSession
<1>12. ASSUME NEW t \in Texts \cup {NoText}, NEW last \in BOOLEAN, Speak(t, last) PROVE FALSE
  BY <1>5, <1>12 DEF Speak
<1>13. CASE AskModel
  <2>1. runs' = [runs EXCEPT ![ctl.run].called = TRUE]
    BY <1>13 DEF AskModel
  <2>2. r = ctl.run
    BY <1>1, <2>1
  <2> QED BY <1>13, <2>2 DEF AskModel, At
<1>14. CASE Crash \/ Restart \/ Clock \/ UNCHANGED vars
  BY <1>2, <1>14 DEF Crash, Restart, Clock, vars
<1> QED BY <1>7, <1>8, <1>9, <1>10, <1>11, <1>12, <1>13, <1>14 DEF Next, TurnStep

(* The model is asked only for a job that is active and not past its          *)
(* deadline: what was cancelled, paused or updated before is heeded.          *)
THEOREM OnlyActiveRun == Spec => RunsOnlyActive
<1>1. ASSUME Inv, [Next]_vars
      PROVE  [\A r \in 1 .. Len(runs) : ~runs[r].called /\ runs'[r].called =>
                LET b == mem.jobs[JobOf(runs[r].occ)]
                IN  b.state = "active" /\ (b.deadline = 0 \/ now < b.deadline)]_vars
  <2>1. ASSUME NEW r \in 1 .. Len(runs), ~runs[r].called, runs'[r].called
        PROVE  /\ mem.jobs[JobOf(runs[r].occ)].state = "active"
               /\ \/ mem.jobs[JobOf(runs[r].occ)].deadline = 0
                  \/ now < mem.jobs[JobOf(runs[r].occ)].deadline
    <3>1. ctl.at = "ask" /\ r = ctl.run
      BY <1>1, <2>1, Asked
    <3> QED BY <1>1, <3>1 DEF Inv, PlaceRight, Placed, Holds, Turning, InHandRight, Replying
  <2> QED BY <2>1
<1> QED BY <1>1, InvariantHolds, PTL DEF Spec, RunsOnlyActive

(* What a store that has not failed has in memory is what a replay of its     *)
(* account would give, if no half line can be left in the file.               *)
THEOREM LogHolds ==
  ASSUME ~TornTails
  PROVE  Spec => []LogIsTruth
<1>1. ASSUME Inv PROVE LogIsTruth
  BY <1>1 DEF Inv, AccountRight, Same, LogIsTruth, At
<1> QED BY <1>1, InvariantHolds, PTL

(* A session that was told it is bound to its occurrence is the last one that *)
(* runs it, however often the process ends.                                   *)
THEOREM BoundRunOnce ==
  ASSUME ~TornTails
  PROVE  Spec => []BoundRunsOnce
<1>1. ASSUME Inv PROVE BoundRunsOnce
  BY <1>1 DEF Inv, AccountRight, BoundRunsOnce
<1> QED BY <1>1, InvariantHolds, PTL

(* The account says succeeded only of what the outbox delivered.              *)
THEOREM SucceededArePublished ==
  ASSUME ~TornTails
  PROVE  Spec => []SucceededIsPublished
<1>1. ASSUME Inv PROVE SucceededIsPublished
  BY <1>1 DEF Inv, AccountRight, Paid, Told, SucceededIsPublished
<1> QED BY <1>1, InvariantHolds, PTL

(* What the account says is settled stays as it is, and the model is not      *)
(* asked for it any more.                                                     *)
THEOREM SettledAreFinal ==
  ASSUME ~TornTails
  PROVE  Spec => SettledIsFinal
<1>1. ASSUME Inv, [Next]_vars
      PROVE  [\A o \in DOMAIN disk.occs : disk.occs[o].state = "settled" =>
                /\ Has(disk'.occs, o)
                /\ disk'.occs[o].state = "settled" /\ disk'.occs[o].outcome = disk.occs[o].outcome
                /\ \A r \in 1 .. Len(runs) :
                     runs[r].occ = o /\ ~runs[r].called => ~runs'[r].called]_vars
  <2>1. Stays(disk, disk')
    BY <1>1, InvStep
  <2>2. ASSUME NEW r \in 1 .. Len(runs), ~runs[r].called, runs'[r].called
        PROVE  disk.occs[runs[r].occ].state = "claimed"
    <3>1. ctl.at = "ask" /\ r = ctl.run
      BY <1>1, <2>2, Asked
    <3>2. runs[r].occ = ctl.occ /\ Holds(ctl)
      BY <1>1, <3>1 DEF Inv, PlaceRight, Placed, Holds, Turning, InHandRight, Replying
    <3> QED BY <1>1, <3>2 DEF Inv, AccountRight
  <2> QED BY <2>1, <2>2 DEF Stays, Has
<1> QED BY <1>1, InvariantHolds, PTL DEF Spec, SettledIsFinal

-----------------------------------------------------------------------------
(* Keys and open occurrences. Each is decided by the lines that make          *)
(* something; all the others leave it alone.                                  *)
LineTypes == JobTypes \cup OccTypes \cup {"job.created", "occurrence.created",
                                          "occurrence.observed"}
Keyless(l) == l.type = "job.updated" => "key" \notin DOMAIN l.patch

(* A job's line leaves its key,                                               *)
LEMMA JobLineKeeps ==
  ASSUME NEW b \in Job, NEW l, l.type \in JobTypes, Keyless(l)
  PROVE  JobLine(b, l).key = b.key
<1>1. CASE l.type = "job.updated"
  <2>1. JobLine(b, l) = [Over(l.patch, b) EXCEPT !.rev = l.to]
    BY <1>1 DEF JobLine
  <2>2. "key" \in DOMAIN b
    BY DEF Job
  <2>3. "key" \in DOMAIN Over(l.patch, b) /\ Over(l.patch, b).key = b.key
    BY <1>1, <2>2 DEF Over, Keyless
  <2>4. [Over(l.patch, b) EXCEPT !.rev = l.to].key = Over(l.patch, b).key
    BY <2>3
  <2> QED BY <2>1, <2>3, <2>4
<1>2. CASE l.type = "job.paused"
  BY <1>2 DEF JobLine, Job
<1>3. CASE l.type = "job.cancelled"
  BY <1>3 DEF JobLine, Job
<1>4. CASE l.type = "job.resumed"
  <2>1. JobLine(b, l) = Resumed(b, l)
    BY <1>4 DEF JobLine
  <2> QED BY <2>1 DEF Resumed, Job
<1>5. CASE l.type = "job.schedule_advanced"
  BY <1>5 DEF JobLine, Job
<1> QED BY <1>1, <1>2, <1>3, <1>4, <1>5 DEF JobTypes

(* ... an occurrence's line why it was made.                                  *)
LEMMA OccLineKeeps ==
  ASSUME NEW c \in Occurrence, NEW l, l.type \in OccTypes
  PROVE  OccLine(c, l).reason = c.reason
BY DEF OccLine, OccTypes, Occurrence

(* What a line leaves of a projection, made nothing.                          *)
LEMMA LineKept ==
  ASSUME NEW p, WellFormed(p), NEW l, l.type \in LineTypes, Keyless(l)
  PROVE  /\ l.type # "job.created" =>
              /\ Replay(p, l).createKeys = p.createKeys
              /\ DOMAIN Replay(p, l).jobs = DOMAIN p.jobs
              /\ \A j \in DOMAIN p.jobs : Replay(p, l).jobs[j].key = p.jobs[j].key
         /\ l.type # "occurrence.created" =>
              /\ Replay(p, l).runKeys = p.runKeys
              /\ DOMAIN Replay(p, l).occs = DOMAIN p.occs
              /\ \A o \in DOMAIN p.occs : Replay(p, l).occs[o].reason = p.occs[o].reason
<1>1. CASE l.type = "job.created"
  BY <1>1, ReplayCreated DEF JobMade
<1>2. CASE l.type = "occurrence.created"
  BY <1>2, ReplayCreated DEF OccMade
<1>3. CASE l.type \in JobTypes
  <2>1. CASE Has(p.jobs, l.job)
    <3>1. Replay(p, l) = JobPut(p, l.job, JobLine(p.jobs[l.job], l))
      BY <1>3, <2>1, ReplayJob
    <3>2. JobLine(p.jobs[l.job], l).key = p.jobs[l.job].key
      BY <1>3, <2>1, JobLineKeeps DEF WellFormed, Has
    <3> QED BY <2>1, <3>1, <3>2 DEF JobPut, With, Has
  <2>2. CASE ~Has(p.jobs, l.job)
    BY <1>3, <2>2, ReplayJob
  <2> QED BY <2>1, <2>2
<1>4. CASE l.type \in OccTypes
  <2>1. CASE Has(p.occs, l.occ)
    <3>1. Replay(p, l) = OccPut(p, l.occ, OccLine(p.occs[l.occ], l))
      BY <1>4, <2>1, ReplayOcc
    <3>2. OccLine(p.occs[l.occ], l).reason = p.occs[l.occ].reason
      BY <1>4, <2>1, OccLineKeeps DEF WellFormed, Has
    <3> QED BY <2>1, <3>1, <3>2 DEF OccPut, With, Has
  <2>2. CASE ~Has(p.occs, l.occ)
    BY <1>4, <2>2, ReplayOcc
  <2> QED BY <2>1, <2>2
<1>5. CASE l.type = "occurrence.observed"
  <2> DEFINE j == JobOf(l.occ)
  <2>1. CASE Has(p.occs, l.occ) /\ l.update /\ Has(p.jobs, j)
    <3>1. Replay(p, l) = JobPut(p, j, [p.jobs[j] EXCEPT !.seen = l.text])
      BY <1>5, <2>1, ReplayObserved
    <3>2. [p.jobs[j] EXCEPT !.seen = l.text].key = p.jobs[j].key
      BY <2>1 DEF WellFormed, Has, Job
    <3> QED BY <2>1, <3>1, <3>2 DEF JobPut, With, Has
  <2>2. CASE ~(Has(p.occs, l.occ) /\ l.update /\ Has(p.jobs, j))
    BY <1>5, <2>2, ReplayObserved
  <2> QED BY <2>1, <2>2
<1> QED BY <1>1, <1>2, <1>3, <1>4, <1>5 DEF LineTypes

(* A job's key is one that a command was given; a store that works knows the  *)
(* requests of the account, but for keys that name a job; the schedule has    *)
(* one occurrence of a job open.                                              *)
Keyed(p) == \A j \in DOMAIN p.jobs : p.jobs[j].key = NoKey \/ Has(p.createKeys, p.jobs[j].key)
Knows(p, m) == \A k \in DOMAIN p.runKeys \ DOMAIN p.createKeys : Has(m.runKeys, k)
OneOpen(p) ==
  \A o, q \in DOMAIN p.occs :
    /\ p.occs[o].state # "settled" /\ p.occs[o].reason = "schedule"
    /\ p.occs[q].state # "settled" /\ p.occs[q].reason = "schedule"
    /\ JobOf(o) = JobOf(q)
    => o = q
KeysRight ==
  /\ Keyed(disk) /\ OneOpen(disk) /\ OneOpen(mem)
  /\ ~broken /\ ctl.at # "down" => Knows(disk, mem)

(* A key keeps its meaning from p to q.                                       *)
KeysStay(p, q) ==
  /\ \A k \in DOMAIN p.createKeys : Has(q.createKeys, k) /\ q.createKeys[k] = p.createKeys[k]
  /\ \A k \in DOMAIN p.runKeys \ DOMAIN q.createKeys :
       Has(q.runKeys, k) /\ q.runKeys[k] = p.runKeys[k]

(* What the store looks at before it writes a line, m what it leaves in       *)
(* memory.                                                                    *)
Meant(l, m) ==
  /\ l.type \in LineTypes /\ Keyless(l)
  /\ l.type = "job.created" => Unused(mem.createKeys, l.spec.key)
  /\ l.type = "occurrence.created" =>
       /\ \/ l.key = NoKey \/ Has(mem.createKeys, l.key)
          \/ ~Has(mem.runKeys, l.key) /\ Has(m.runKeys, l.key)
       /\ l.reason = "schedule" =>
            \A o \in DOMAIN mem.occs : JobOf(o) = JobOf(l.occ) => mem.occs[o].state = "settled"
  /\ \A k \in DOMAIN mem.runKeys : Has(m.runKeys, k)

(* A line that was meant keeps the keys and the order of a job's work on      *)
(* disk.                                                                      *)
LEMMA MeantKeeps ==
  ASSUME WellFormed(disk), Same(mem, disk), Keyed(disk), OneOpen(disk), Knows(disk, mem),
         NEW l, NEW m, Meant(l, m), Stays(disk, Replay(disk, l))
  PROVE  /\ Keyed(Replay(disk, l)) /\ OneOpen(Replay(disk, l)) /\ Knows(Replay(disk, l), m)
         /\ KeysStay(disk, Replay(disk, l))
<1> DEFINE q == Replay(disk, l)
<1>1. CASE l.type = "job.created"
  <2>1. q = JobMade(disk, l.job, l.spec, l.spec.key)
    BY <1>1, ReplayCreated
  <2>2. /\ l.spec.key = NoKey \/ ~Has(disk.createKeys, l.spec.key)
        /\ \A k \in DOMAIN mem.runKeys : Has(m.runKeys, k)
    BY <1>1 DEF Meant, Unused, Same
  <2>3. /\ \A k \in DOMAIN disk.createKeys :
             Has(q.createKeys, k) /\ q.createKeys[k] = disk.createKeys[k]
        /\ l.spec.key = NoKey \/ Has(q.createKeys, l.spec.key)
        /\ q.runKeys = disk.runKeys /\ q.occs = disk.occs
    BY <2>1, <2>2 DEF JobMade, Registered, With, Has
  <2>4. Keyed(q)
    BY <2>1, <2>3 DEF Keyed, JobMade, With, Has
  <2>5. OneOpen(q)
    BY <2>3 DEF OneOpen
  <2>6. Knows(q, m)
    BY <2>2, <2>3 DEF Knows, Has
  <2>7. KeysStay(disk, q)
    BY <2>3 DEF KeysStay, Has
  <2> QED BY <2>4, <2>5, <2>6, <2>7
<1>2. CASE l.type = "occurrence.created"
  <2> DEFINE c == NewOccurrence(l.reason, l.missed)
  <2>1. q = OccMade(disk, l.occ, c, l.key)
    BY <1>2, ReplayCreated
  <2>2. /\ \/ l.key = NoKey \/ Has(disk.createKeys, l.key)
           \/ ~Has(mem.runKeys, l.key) /\ Has(m.runKeys, l.key)
        /\ \A k \in DOMAIN mem.runKeys : Has(m.runKeys, k)
        /\ l.reason = "schedule" =>
             \A o \in DOMAIN disk.occs : JobOf(o) = JobOf(l.occ) => disk.occs[o].state = "settled"
    BY <1>2 DEF Meant, Same
  <2>3. /\ q.createKeys = disk.createKeys /\ q.jobs = disk.jobs
        /\ q.occs = With(disk.occs, l.occ, c)
        /\ q.runKeys = Registered(disk.runKeys, l.key, l.occ)
    BY <2>1 DEF OccMade
  <2>4. c.reason = l.reason
    BY DEF NewOccurrence
  <2> HIDE DEF q, c
  <2>5. Keyed(q)
    BY <2>3 DEF Keyed
  <2>6. OneOpen(q)
    BY <2>2, <2>3, <2>4 DEF OneOpen, With
  <2>7. \A k \in DOMAIN disk.runKeys \ DOMAIN disk.createKeys :
          Has(q.runKeys, k) /\ q.runKeys[k] = disk.runKeys[k]
    BY <2>2, <2>3 DEF Registered, With, Has, Knows
  <2>8. Knows(q, m)
    BY <2>2, <2>3 DEF Knows, Registered, With, Has
  <2>9. KeysStay(disk, q)
    BY <2>3, <2>7 DEF KeysStay, Has
  <2> QED BY <2>5, <2>6, <2>8, <2>9 DEF q
<1>3. CASE l.type \notin {"job.created", "occurrence.created"}
  <2>1. /\ q.createKeys = disk.createKeys /\ DOMAIN q.jobs = DOMAIN disk.jobs
        /\ \A j \in DOMAIN disk.jobs : q.jobs[j].key = disk.jobs[j].key
        /\ q.runKeys = disk.runKeys /\ DOMAIN q.occs = DOMAIN disk.occs
        /\ \A o \in DOMAIN disk.occs : q.occs[o].reason = disk.occs[o].reason
    BY <1>3, LineKept DEF Meant
  <2>2. \A k \in DOMAIN mem.runKeys : Has(m.runKeys, k)
    BY DEF Meant
  <2>3. \A o \in DOMAIN disk.occs : q.occs[o].state # "settled" => disk.occs[o].state # "settled"
    BY DEF Stays
  <2> HIDE DEF q
  <2>4. Keyed(q) /\ Knows(q, m) /\ KeysStay(disk, q)
    BY <2>1, <2>2 DEF Keyed, Knows, KeysStay, Has
  <2>5. OneOpen(q)
    BY <2>1, <2>3 DEF OneOpen
  <2> QED BY <2>4, <2>5 DEF q
<1> QED BY <1>1, <1>2, <1>3

(* A step that writes what it may, and one that does not touch the store.     *)
Notes ==
  \E l, m : /\ Meant(l, m)
            /\ \/ Appended(l) /\ mem' = m
               \/ AppendFails(l) /\ UNCHANGED mem
Working == ctl.at # "down" /\ (Notes \/ UNCHANGED store)

LEMMA LogNotes ==
  ASSUME NEW l, NEW m, NEW c, Log(l, m, c), Meant(l, m)
  PROVE  Notes
BY DEF Log, Notes

(* Lines that make nothing and change no job's rules.                         *)
LEMMA PlainNotes ==
  ASSUME NEW l, NEW m, NEW c, Log(l, m, c),
         l.type \in LineTypes \ {"job.created", "job.updated", "occurrence.created"},
         m.runKeys = mem.runKeys
  PROVE  Notes
<1>1. Meant(l, m)
  BY DEF Meant, Keyless, Has
<1> QED BY <1>1, LogNotes

(* The fields of a projection are apart.                                      *)
LEMMA Apart ==
  ASSUME NEW p, WellFormed(p)
  PROVE  /\ \A x : [p EXCEPT !.jobs = x].runKeys = p.runKeys
         /\ \A x : [p EXCEPT !.occs = x].runKeys = p.runKeys
         /\ \A x, y : [p EXCEPT !.jobs = x, !.createKeys = y].runKeys = p.runKeys
         /\ \A x, y : [p EXCEPT !.occs = x, !.runKeys = y].runKeys = y
BY JobsAndKeys, OccsAndKeys DEF WellFormed, Rec

(* Commands.                                                                  *)
LEMMA CommandsNote ==
  ASSUME Inv, Commands
  PROVE  Working
<1>1. WellFormed(mem) /\ now \in Nat
  BY DEF Inv, PlaceRight, TypesRight
<1>2. ASSUME NEW j \in Jobs, NEW s \in Specs, NEW k \in Keys \cup {NoKey}, CreateJob(j, s, k)
      PROVE  Working
  <2> DEFINE b == Created(s, k)
             l == [type |-> "job.created", job |-> j, spec |-> b]
             m == [mem EXCEPT !.jobs = With(@, j, b), !.createKeys = Registered(@, k, j)]
             c == IF s.kind = "once" THEN [Taken(1) EXCEPT !.at = "first", !.job = j] ELSE Taken(1)
  <2>1. Log(l, m, c) /\ Unused(mem.createKeys, k) /\ ctl.at # "down"
    BY <1>2 DEF CreateJob, Command, At
  <2>2. b.key = k
    BY <1>1, <1>2, CreatedIsJob
  <2>3. m.runKeys = mem.runKeys
    BY <1>1, Apart
  <2>4. l.type = "job.created" /\ l.spec = b
    OBVIOUS
  <2> HIDE DEF l, m, c, b
  <2>5. Meant(l, m)
    BY <2>1, <2>2, <2>3, <2>4 DEF Meant, Keyless, LineTypes, Has
  <2> QED BY <2>1, <2>5, LogNotes DEF Working
<1>3. ASSUME NEW j \in Jobs, NEW k \in Keys \cup {NoKey}, RequestRunNow(j, k) PROVE Working
  <2> DEFINE o == OccId(j, mem.jobs[j].rev, now)
             l == [type |-> "occurrence.created", occ |-> o, reason |-> "run_now",
                   missed |-> 0, key |-> k]
             m == [mem EXCEPT !.occs = With(@, o, NewOccurrence("run_now", 0)),
                              !.runKeys = Registered(@, k, o)]
  <2>1. Log(l, m, Taken(2)) /\ Unused(mem.runKeys, k) /\ ctl.at # "down"
    BY <1>3 DEF RequestRunNow, Command, At, JobRec
  <2>2. m.runKeys = Registered(mem.runKeys, k, o)
    BY <1>1, Apart
  <2>3. l.type = "occurrence.created" /\ l.key = k /\ l.reason = "run_now"
    OBVIOUS
  <2> HIDE DEF l, m, o
  <2>4. Meant(l, m)
    BY <2>1, <2>2, <2>3 DEF Meant, Keyless, LineTypes, Has, Unused, Registered, With
  <2> QED BY <2>1, <2>4, LogNotes DEF Working
<1>4. ASSUME NEW j \in Jobs, NEW p \in Patches, UpdateJob(j, p) PROVE Working
  <2> DEFINE l == [type |-> "job.updated", job |-> j, patch |-> Anchored(p),
                   to |-> mem.jobs[j].rev + 1]
             m == [mem EXCEPT !.jobs[j] = Changed(@, p)]
  <2>1. Log(l, m, Taken(3)) /\ ctl.at # "down"
    BY <1>4 DEF UpdateJob, Command, At, JobRec
  <2>2. "key" \notin DOMAIN Anchored(p)
    <3>1. DOMAIN p \subseteq DOMAIN Plain
      BY AutomationAssumption DEF AutomationAssumption
    <3> QED BY <3>1 DEF Plain, Anchored, Over
  <2>3. m.runKeys = mem.runKeys
    BY <1>1, Apart
  <2>4. l.type = "job.updated" /\ l.patch = Anchored(p)
    OBVIOUS
  <2> HIDE DEF l, m
  <2>5. Meant(l, m)
    BY <2>2, <2>3, <2>4 DEF Meant, Keyless, LineTypes, JobTypes, Has
  <2> QED BY <2>1, <2>5, LogNotes DEF Working
<1>5. ASSUME NEW j \in Jobs, PauseJob(j) \/ ResumeJob(j) \/ CancelJob(j) PROVE Working
  <2>1. CASE PauseJob(j)
    <3> DEFINE m == [mem EXCEPT !.jobs[j].state = "paused"]
               l == [type |-> "job.paused", job |-> j]
    <3>1. Log(l, m, Taken(4)) /\ ctl.at # "down" /\ m.runKeys = mem.runKeys
      BY <1>1, <2>1, Apart DEF PauseJob, Command, At
    <3>2. l.type \in LineTypes \ {"job.created", "job.updated", "occurrence.created"}
      BY DEF LineTypes, JobTypes
    <3> HIDE DEF l, m
    <3> QED BY <3>1, <3>2, PlainNotes DEF Working
  <2>2. CASE ResumeJob(j)
    <3> DEFINE m == [mem EXCEPT !.jobs[j] = Awake(@)]
               l == [type |-> "job.resumed", job |-> j, through |-> now]
    <3>1. Log(l, m, Taken(4)) /\ ctl.at # "down" /\ m.runKeys = mem.runKeys
      BY <1>1, <2>2, Apart DEF ResumeJob, Command, At
    <3>2. l.type \in LineTypes \ {"job.created", "job.updated", "occurrence.created"}
      BY DEF LineTypes, JobTypes
    <3> HIDE DEF l, m
    <3> QED BY <3>1, <3>2, PlainNotes DEF Working
  <2>3. CASE CancelJob(j)
    <3> DEFINE m == [mem EXCEPT !.jobs[j].state = "cancelled"]
               l == [type |-> "job.cancelled", job |-> j]
               c == [Taken(4) EXCEPT !.at = "cancel", !.occs = OfJob(j, {"scheduled", "claimed"})]
    <3>1. Log(l, m, c) /\ ctl.at # "down" /\ m.runKeys = mem.runKeys
      BY <1>1, <2>3, Apart DEF CancelJob, Command, At
    <3>2. l.type \in LineTypes \ {"job.created", "job.updated", "occurrence.created"}
      BY DEF LineTypes, JobTypes
    <3> HIDE DEF l, m, c
    <3> QED BY <3>1, <3>2, PlainNotes DEF Working
  <2> QED BY <1>5, <2>1, <2>2, <2>3
<1> QED BY <1>2, <1>3, <1>4, <1>5 DEF Commands

(* The steps after a command.                                                 *)
LEMMA CommandStepsNote ==
  ASSUME Inv, AccountRight, KeysRight, CommandStep
  PROVE  Working
<1>1. WellFormed(mem) /\ Placed(mem, ctl, runs, now)
  BY DEF Inv, PlaceRight, TypesRight
<1>2. CASE FirstOccurrence
  <2> DEFINE b == mem.jobs[ctl.job]
             o == OccId(ctl.job, 1, b.due)
             l == [type |-> "occurrence.created", occ |-> o, reason |-> "schedule", missed |-> 0,
                   key |-> b.key]
             m == [mem EXCEPT !.occs = With(@, o, NewOccurrence("schedule", 0))]
  <2>1. Log(l, m, [ctl EXCEPT !.at = "commands", !.job = 0]) /\ ctl.at = "first"
    BY <1>2 DEF FirstOccurrence, At, JobRec
  <2>2. m.runKeys = mem.runKeys
    BY <1>1, Apart
  <2>3. l.type = "occurrence.created" /\ l.key = b.key /\ JobOf(l.occ) = ctl.job
    BY DEF OccId, JobOf
  <2>4. ~broken /\ Same(mem, disk)
    BY <2>1 DEF AccountRight, Holds, Turning
  <2>5. b.key = NoKey \/ Has(mem.createKeys, b.key)
    BY <1>1, <2>1, <2>4 DEF KeysRight, Keyed, Placed, Same
  <2>6. \A x \in DOMAIN mem.occs : JobOf(x) # ctl.job
    BY <2>1 DEF AccountRight
  <2> HIDE DEF l, m, b, o
  <2>7. Meant(l, m)
    BY <2>2, <2>3, <2>5, <2>6 DEF Meant, Keyless, LineTypes, Has
  <2> QED BY <2>1, <2>7, LogNotes DEF Working
<1>3. CASE CancelDone
  BY <1>3 DEF CancelDone, At, Working
<1>4. ASSUME NEW o \in ctl.occs, CancelOccurrence(o) PROVE Working
  <2>1. ctl.at # "down"
    BY <1>4 DEF CancelOccurrence, At
  <2>2. CASE mem.occs[o].state = "scheduled"
    <3> DEFINE m == Settled(o, "cancelled")
               l == [type |-> "occurrence.settled", occ |-> o, outcome |-> "cancelled"]
               c == [ctl EXCEPT !.occs = @ \ {o}]
    <3>1. Log(l, m, c)
      BY <1>4, <2>2 DEF CancelOccurrence, OccRec
    <3>2. m.runKeys = mem.runKeys
      BY <1>1, Apart DEF Settled
    <3>3. l.type \in LineTypes \ {"job.created", "job.updated", "occurrence.created"}
      BY DEF LineTypes, OccTypes
    <3> HIDE DEF l, m, c
    <3> QED BY <2>1, <3>1, <3>2, <3>3, PlainNotes DEF Working
  <2>3. CASE mem.occs[o].state # "scheduled"
    <3> DEFINE m == [mem EXCEPT !.occs[o] = Marked(@)]
               l == [type |-> "occurrence.cancel_requested", occ |-> o]
               c == [ctl EXCEPT !.occs = @ \ {o}]
    <3>1. Log(l, m, c)
      BY <1>4, <2>3 DEF CancelOccurrence, OccRec
    <3>2. m.runKeys = mem.runKeys
      BY <1>1, Apart
    <3>3. l.type \in LineTypes \ {"job.created", "job.updated", "occurrence.created"}
      BY DEF LineTypes, OccTypes
    <3> HIDE DEF l, m, c
    <3> QED BY <2>1, <3>1, <3>2, <3>3, PlainNotes DEF Working
  <2> QED BY <2>2, <2>3
<1> QED BY <1>2, <1>3, <1>4 DEF CommandStep

(* The sweep makes an occurrence only where none of the job is open.          *)
LEMMA SweepNotes ==
  ASSUME Inv, SweepStep
  PROVE  Working
<1>1. WellFormed(mem)
  BY DEF Inv, PlaceRight, TypesRight
<1>2. ASSUME NEW j \in ctl.jobs, SweepPass(j) \/ SweepDrop(j) PROVE Working
  BY <1>2 DEF SweepPass, SweepDrop, Sweeping, At, Working
<1>3. ASSUME NEW j \in ctl.jobs, SweepMerge(j) PROVE Working
  <2>1. PICK o \in Oldest(j) :
          Log([type |-> "occurrence.merged", occ |-> o,
               missed |-> OccRec(o).missed + Cardinality(Due(j))],
              [mem EXCEPT !.occs[o].missed = @ + Cardinality(Due(j))], Due2nd(j))
    BY <1>3 DEF SweepMerge
  <2> DEFINE l == [type |-> "occurrence.merged", occ |-> o,
                   missed |-> OccRec(o).missed + Cardinality(Due(j))]
             m == [mem EXCEPT !.occs[o].missed = @ + Cardinality(Due(j))]
  <2>2. Log(l, m, Due2nd(j)) /\ ctl.at # "down"
    BY <1>3, <2>1 DEF SweepMerge, Sweeping, At
  <2>3. m.runKeys = mem.runKeys
    BY <1>1, Apart
  <2>4. l.type \in LineTypes \ {"job.created", "job.updated", "occurrence.created"}
    BY DEF LineTypes, OccTypes
  <2> HIDE DEF l, m
  <2> QED BY <2>2, <2>3, <2>4, PlainNotes DEF Working
<1>4. ASSUME NEW j \in ctl.jobs, SweepCreate(j) PROVE Working
  <2> DEFINE o == Target(j)
             l == [type |-> "occurrence.created", occ |-> o, reason |-> "schedule",
                   missed |-> MissedByNew(j), key |-> NoKey]
             m == [mem EXCEPT !.occs = With(@, o, NewOccurrence("schedule", MissedByNew(j)))]
  <2>1. Log(l, m, Due2nd(j)) /\ ctl.at # "down" /\ Waiting(j) = {} /\ OfJob(j, {"claimed"}) = {}
    BY <1>4 DEF SweepCreate, Sweeping, At, Makes, Eligible
  <2>2. m.runKeys = mem.runKeys
    BY <1>1, Apart
  <2>3. l.type = "occurrence.created" /\ l.key = NoKey /\ JobOf(l.occ) = j
    BY DEF Target, OccId, JobOf
  <2>4. ASSUME NEW x \in DOMAIN mem.occs, JobOf(x) = j PROVE mem.occs[x].state = "settled"
    <3>1. mem.occs[x].state \in {"scheduled", "claimed", "settled"}
      BY <1>1 DEF WellFormed, Occurrence
    <3> QED BY <2>1, <2>4, <3>1 DEF Waiting, OfJob, OccRec
  <2> HIDE DEF l, m, o
  <2>5. Meant(l, m)
    BY <2>2, <2>3, <2>4 DEF Meant, Keyless, LineTypes, Has
  <2> QED BY <2>1, <2>5, LogNotes DEF Working
<1>5. CASE Advance
  <2> DEFINE t == Max(Due(ctl.job))
             m == [mem EXCEPT !.jobs[ctl.job].cursor = t]
             l == [type |-> "job.schedule_advanced", job |-> ctl.job, through |-> t]
             c == [ctl EXCEPT !.at = "sweep", !.jobs = @ \ {ctl.job}, !.job = 0]
  <2>1. Log(l, m, c) /\ ctl.at # "down"
    BY <1>5 DEF Advance, At
  <2>2. m.runKeys = mem.runKeys
    BY <1>1, Apart
  <2>3. l.type \in LineTypes \ {"job.created", "job.updated", "occurrence.created"}
    BY DEF LineTypes, JobTypes
  <2> HIDE DEF l, m, c
  <2> QED BY <2>1, <2>2, <2>3, PlainNotes DEF Working
<1>6. CASE SweepDone
  BY <1>6 DEF SweepDone, At, Working
<1> QED BY <1>2, <1>3, <1>4, <1>5, <1>6 DEF SweepStep

(* Recovery, delivery, claims and turns.                                      *)
LEMMA TurnsNote ==
  ASSUME Inv, RecoverStep \/ DeliverStep \/ ClaimStep \/ TurnStep
  PROVE  Working
<1>1. WellFormed(mem)
  BY DEF Inv, PlaceRight, TypesRight
<1>2. ASSUME NEW o \in ctl.occs, Redispatch(o) PROVE Working
  <2> DEFINE attempt == OccRec(o).attempt + 1
             l == [type |-> "occurrence.redispatched", occ |-> o, attempt |-> attempt]
             m == [mem EXCEPT !.occs[o] = Back(@)]
             c == [ctl EXCEPT !.occs = @ \ {o}]
  <2>1. Log(l, m, c) /\ ctl.at # "down"
    BY <1>2 DEF Redispatch, Recovering, At
  <2>2. m.runKeys = mem.runKeys
    BY <1>1, Apart
  <2>3. l.type \in LineTypes \ {"job.created", "job.updated", "occurrence.created"}
    BY DEF LineTypes, OccTypes
  <2> HIDE DEF l, m, c
  <2> QED BY <2>1, <2>2, <2>3, PlainNotes DEF Working
<1>3. ASSUME NEW o \in ctl.occs,
             GiveUp(o) \/ RecoverBlind(o) \/ RecoverUnchanged(o) \/ RecoverReply(o)
      PROVE  Working
  BY <1>3 DEF GiveUp, RecoverBlind, RecoverUnchanged, RecoverReply, StoreAside, Recovering, At,
     Working
<1>4. CASE RecoverDone
  BY <1>4 DEF RecoverDone, StoreAside, At, Working
<1>5. ASSUME NEW d \in ctl.items, Publish(d) \/ PublishFails(d) \/ Flag(d) PROVE Working
  BY <1>5 DEF Publish, PublishFails, Flag, Delivering, StoreIdle, At, Working
<1>6. CASE DeliverDone
  BY <1>6 DEF DeliverDone, StoreIdle, At, Working
<1>7. CASE LookForWork \/ NothingToClaim
  BY <1>7 DEF LookForWork, NothingToClaim, StoreAside, At, Working
<1>8. ASSUME NEW o \in Scheduled, CleanDoomed(o) PROVE Working
  <2> DEFINE l == [type |-> "occurrence.settled", occ |-> o, outcome |-> "cancelled"]
             m == Settled(o, "cancelled")
  <2>1. Log(l, m, ctl) /\ ctl.at # "down"
    BY <1>8 DEF CleanDoomed, At
  <2>2. m.runKeys = mem.runKeys
    BY <1>1, Apart DEF Settled
  <2>3. l.type \in LineTypes \ {"job.created", "job.updated", "occurrence.created"}
    BY DEF LineTypes, OccTypes
  <2> HIDE DEF l, m
  <2> QED BY <2>1, <2>2, <2>3, PlainNotes DEF Working
<1>9. ASSUME NEW o \in Scheduled, ClaimDue(o) PROVE Working
  <2> DEFINE l == [type |-> "occurrence.claimed", occ |-> o, attempt |-> OccRec(o).attempt]
             m == [mem EXCEPT !.occs[o].state = "claimed"]
             c == [Idle EXCEPT !.at = "open", !.occ = o]
  <2>1. Log(l, m, c) /\ ctl.at # "down"
    BY <1>9 DEF ClaimDue, At
  <2>2. m.runKeys = mem.runKeys
    BY <1>1, Apart
  <2>3. l.type \in LineTypes \ {"job.created", "job.updated", "occurrence.created"}
    BY DEF LineTypes, OccTypes
  <2> HIDE DEF l, m, c
  <2> QED BY <2>1, <2>2, <2>3, PlainNotes DEF Working
<1>10. CASE OpenSession
  <2> DEFINE r == Len(runs) + 1
             l == [type |-> "occurrence.bound", occ |-> ctl.occ, sess |-> r]
             m == [mem EXCEPT !.occs[ctl.occ].sess = r]
  <2>1. /\ ctl.at # "down"
        /\ \/ Appended(l) /\ mem' = m
           \/ AppendFails(l) /\ UNCHANGED mem
    BY <1>10 DEF OpenSession, At
  <2>2. m.runKeys = mem.runKeys
    BY <1>1, Apart
  <2>3. l.type \in LineTypes \ {"job.created", "job.updated", "occurrence.created"}
    BY DEF LineTypes, OccTypes
  <2> HIDE DEF l, m
  <2>4. Meant(l, m)
    BY <2>2, <2>3 DEF Meant, Keyless, Has
  <2> QED BY <2>1, <2>4 DEF Working, Notes
<1>11. CASE TurnFails \/ AskModel \/ CutByBudget \/ Select \/ Failed
  BY <1>11 DEF TurnFails, Failing, AskModel, CutByBudget, Select, Failed, StoreAside, At, Working
<1>12. ASSUME NEW t \in Texts \cup {NoText}, NEW last \in BOOLEAN, Speak(t, last) PROVE Working
  BY <1>12 DEF Speak, StoreAside, At, Working
<1> QED BY <1>2, <1>3, <1>4, <1>5, <1>6, <1>7, <1>8, <1>9, <1>10, <1>11, <1>12 DEF RecoverStep,
           DeliverStep, ClaimStep, TurnStep

(* The ends of an occurrence.                                                 *)
LEMMA TailNotes ==
  ASSUME Inv, TailStep
  PROVE  Working
<1>1. WellFormed(mem)
  BY DEF Inv, PlaceRight, TypesRight
<1>2. CASE Enqueue
  BY <1>2 DEF Enqueue, StoreIdle, At, Working
<1>3. CASE ObserveResult
  <2> DEFINE text == IF ctl.run = 0 THEN NoText ELSE runs[ctl.run].text
             update == ctl.verdict = "succeeded"
             l == [type |-> "occurrence.observed", occ |-> ctl.occ, text |-> text,
                   update |-> update]
             m == IF update THEN [mem EXCEPT !.jobs[JobOf(ctl.occ)].seen = text] ELSE mem
  <2>1. Log(l, m, SettleAs(ctl.verdict)) /\ ctl.at # "down"
    BY <1>3 DEF ObserveResult, At
  <2>2. m.runKeys = mem.runKeys
    BY <1>1, Apart
  <2>3. l.type \in LineTypes \ {"job.created", "job.updated", "occurrence.created"}
    BY DEF LineTypes
  <2> HIDE DEF l, m
  <2> QED BY <2>1, <2>2, <2>3, PlainNotes DEF Working
<1>4. CASE Settle
  <2> DEFINE l == [type |-> "occurrence.settled", occ |-> ctl.occ, outcome |-> ctl.verdict]
             m == Settled(ctl.occ, ctl.verdict)
             c == [Idle EXCEPT !.at = ctl.back, !.occs = ctl.occs]
  <2>1. Log(l, m, c) /\ ctl.at # "down"
    BY <1>4 DEF Settle, At
  <2>2. m.runKeys = mem.runKeys
    BY <1>1, Apart DEF Settled
  <2>3. l.type \in LineTypes \ {"job.created", "job.updated", "occurrence.created"}
    BY DEF LineTypes, OccTypes
  <2> HIDE DEF l, m, c
  <2> QED BY <2>1, <2>2, <2>3, PlainNotes DEF Working
<1> QED BY <1>2, <1>3, <1>4 DEF TailStep

(* Whatever step is taken, the keys and the order of a job's work stay right. *)
LEMMA KeysStep ==
  ASSUME ~TornTails, Inv, KeysRight, [Next]_vars
  PROVE  KeysRight' /\ KeysStay(disk, disk')
<1>1. Inv' /\ Stays(disk, disk') /\ AccountRight /\ AccountRight'
  BY InvStep DEF Inv
<1>2. WellFormed(disk) /\ torn = FALSE /\ Placed(mem, ctl, runs, now)'
  BY <1>1 DEF Inv, PlaceRight, TypesRight, AccountRight
<1>3. OneOpen(Blank)
  BY DEF OneOpen, Blank, Empty
<1>4. ASSUME UNCHANGED disk PROVE Keyed(disk') /\ OneOpen(disk') /\ KeysStay(disk, disk')
  BY <1>4 DEF KeysRight, KeysStay, Has
<1>5. CASE Working
  <2>1. CASE UNCHANGED store
    <3>1. UNCHANGED <<disk, mem, broken>>
      BY <2>1 DEF store
    <3> QED BY <1>4, <1>5, <3>1 DEF KeysRight, Working
  <2>2. CASE Notes
    <3>1. PICK l, m : /\ Meant(l, m)
                      /\ \/ Appended(l) /\ mem' = m
                         \/ AppendFails(l) /\ UNCHANGED mem
      BY <2>2 DEF Notes
    <3>2. ctl.at # "down"
      BY <1>5 DEF Working
    <3>3. ASSUME ~broken, disk' = Written(l)
          PROVE  Keyed(disk') /\ OneOpen(disk') /\ Knows(disk', m) /\ KeysStay(disk, disk')
      <4>1. disk' = Replay(disk, l)
        BY <1>2, <3>3 DEF Written
      <4>2. Same(mem, disk) /\ Knows(disk, mem)
        BY <1>1, <3>2, <3>3 DEF AccountRight, KeysRight
      <4>3. Stays(disk, Replay(disk, l))
        BY <1>1, <4>1
      <4>4. /\ Keyed(Replay(disk, l)) /\ OneOpen(Replay(disk, l)) /\ Knows(Replay(disk, l), m)
            /\ KeysStay(disk, Replay(disk, l))
        BY <1>2, <3>1, <4>2, <4>3, MeantKeeps DEF KeysRight
      <4> QED BY <4>1, <4>4
    <3>4. CASE Appended(l) /\ mem' = m
      <4>1. ~broken /\ disk' = Written(l) /\ broken' = broken
        BY <3>4 DEF Appended
      <4>2. OneOpen(mem')
        <5>1. CASE ctl'.at = "down"
          BY <1>2, <1>3, <5>1 DEF Placed
        <5>2. CASE ctl'.at # "down"
          <6>1. Same(mem', disk')
            BY <1>1, <4>1, <5>2 DEF AccountRight, Same
          <6> QED BY <3>3, <4>1, <6>1 DEF OneOpen, Same
        <5> QED BY <5>1, <5>2
      <4> QED BY <3>3, <3>4, <4>1, <4>2 DEF KeysRight
    <3>5. CASE AppendFails(l) /\ UNCHANGED mem
      <4>1. broken' = TRUE /\ ((~broken /\ disk' = Written(l)) \/ disk' = disk)
        BY <3>5 DEF AppendFails
      <4>2. Keyed(disk') /\ OneOpen(disk') /\ KeysStay(disk, disk')
        BY <1>4, <3>3, <4>1
      <4> QED BY <3>5, <4>1, <4>2 DEF KeysRight
    <3> QED BY <3>1, <3>4, <3>5
  <2> QED BY <1>5, <2>1, <2>2 DEF Working
<1>6. CASE Crash
  <2>1. UNCHANGED disk /\ mem' = Blank /\ ctl'.at = "down"
    BY <1>6 DEF Crash, Down, Idle
  <2> QED BY <1>3, <1>4, <2>1 DEF KeysRight
<1>7. CASE Restart
  <2>1. UNCHANGED disk /\ mem' = disk
    BY <1>7 DEF Restart
  <2>2. Knows(disk, disk)
    BY DEF Knows, Has
  <2> QED BY <1>4, <2>1, <2>2 DEF KeysRight
<1>8. CASE Clock \/ UNCHANGED vars
  <2>1. UNCHANGED <<disk, mem, broken, ctl>>
    BY <1>8 DEF Clock, vars, store
  <2> QED BY <1>4, <2>1 DEF KeysRight
<1>9. CASE BeginTick \/ CommandsDone
  <2>1. Working
    BY <1>9 DEF BeginTick, CommandsDone, At, Working
  <2> QED BY <1>5, <2>1
<1> QED BY <1>1, <1>5, <1>6, <1>7, <1>8, <1>9, CommandsNote, CommandStepsNote, SweepNotes,
           TurnsNote, TailNotes DEF Next

(* At the start there are no keys.                                            *)
LEMMA KeysStart ==
  ASSUME Init
  PROVE  KeysRight
BY DEF Init, KeysRight, Keyed, OneOpen, Knows, Blank, Empty

(* In every reachable state.                                                  *)
LEMMA KeysHold ==
  ASSUME ~TornTails
  PROVE  Spec => [](Inv /\ KeysRight)
<1>1. Init => Inv /\ KeysRight
  BY InitRight, KeysStart
<1>2. Inv /\ KeysRight /\ [Next]_vars => Inv' /\ KeysRight'
  BY InvStep, KeysStep
<1> QED BY <1>1, <1>2, PTL DEF Spec

(* A key a command was given means one job, or one run asked for, for ever:   *)
(* a command sent again after a crash does not do its work twice.             *)
THEOREM KeysKeepMeaning ==
  ASSUME ~TornTails
  PROVE  Spec => KeyKeepsMeaning
<1>1. ASSUME Inv, KeysRight, [Next]_vars
      PROVE  [/\ \A k \in DOMAIN disk.createKeys :
                   Has(disk'.createKeys, k) /\ disk'.createKeys[k] = disk.createKeys[k]
              /\ \A k \in DOMAIN disk.runKeys \ DOMAIN disk'.createKeys :
                   Has(disk'.runKeys, k) /\ disk'.runKeys[k] = disk.runKeys[k]]_vars
  BY <1>1, KeysStep DEF KeysStay
<1> QED BY <1>1, KeysHold, PTL DEF Spec, KeyKeepsMeaning

(* The schedule has one occurrence of a job open at a time, in memory and     *)
(* after every restart.                                                       *)
THEOREM OneIsOpen ==
  ASSUME ~TornTails
  PROVE  Spec => []OneOpenPerJob
<1>1. ASSUME Inv, KeysRight PROVE OneOpenPerJob
  <2>1. SUFFICES ASSUME NEW j \in DOMAIN mem.jobs
                 PROVE  Cardinality({o \in OfJob(j, {"scheduled", "claimed"}) :
                                       OccRec(o).reason = "schedule"}) <= 1
    BY DEF OneOpenPerJob
  <2> DEFINE S == {o \in OfJob(j, {"scheduled", "claimed"}) : OccRec(o).reason = "schedule"}
  <2>2. \A o, q \in S : o = q
    BY <1>1 DEF KeysRight, OneOpen, OfJob, OccRec
  <2> HIDE DEF S
  <2>3. CASE S = {}
    <3>1. Cardinality(S) = 0
      BY <2>3, FS_EmptySet
    <3> QED BY <3>1 DEF S
  <2>4. CASE S # {}
    <3>1. PICK o : S = {o}
      BY <2>2, <2>4
    <3>2. Cardinality(S) = 1
      BY <3>1, FS_Singleton
    <3> QED BY <3>2 DEF S
  <2> QED BY <2>3, <2>4
<1> QED BY <1>1, KeysHold, PTL

-----------------------------------------------------------------------------
(* Replies to a heartbeat job. A session's reply waits in the outbox, or was  *)
(* told; the job has seen it, or the session is still to be judged.           *)
JobOfRun(r) == JobOf(runs[r].occ)
Tells(j) == Has(disk.jobs, j) /\ disk.jobs[j].notify
Entered(r) == Has(boxDisk, Reply(r))
Waits(r) == Entered(r) /\ boxDisk[Reply(r)] = "pending"
Seen(r) == disk.jobs[JobOfRun(r)].seen = runs[r].text
Unjudged(r) ==
  /\ r = Len(runs)
  /\ disk.occs[runs[r].occ].state = "claimed" /\ disk.occs[runs[r].occ].sess = r
LatestTold(r) == \A m \in r + 1 .. Len(runs) : ToldBy(m) => JobOfRun(m) # JobOfRun(r)
OtherBetween(q, r) ==
  \E m \in q + 1 .. r - 1 :
    ToldBy(m) /\ JobOfRun(m) = JobOfRun(q) /\ runs[m].text # runs[q].text

OneClaim ==
  /\ \A o, q \in ClaimedIn(disk) : o = q
  /\ \A o \in ClaimedIn(disk) : disk.occs[o].sess # 0 => disk.occs[o].sess = Len(runs)
RepliesRight ==
  /\ boxBroken = FALSE
  /\ \A r \in 1 .. Len(runs) :
       /\ Entered(r) => runs[r].text # NoText
       /\ Waits(r) => Unjudged(r) /\ (Tells(JobOfRun(r)) => ~Seen(r))
       /\ ToldBy(r) /\ LatestTold(r) /\ Tells(JobOfRun(r)) => Seen(r) \/ Unjudged(r)
  /\ \A q, r \in 1 .. Len(runs) :
       /\ q < r /\ JobOfRun(q) = JobOfRun(r) /\ Tells(JobOfRun(q))
       /\ ToldBy(q) /\ (ToldBy(r) \/ Waits(r)) /\ runs[q].text = runs[r].text
       => OtherBetween(q, r)

(* What the place of the tick says of the reply in hand.                      *)
ReplyPlace ==
  /\ ctl.at \notin {"failed", "notice"} /\ ctl.then # "noticed"
  /\ ctl.at \in {"ask", "turn", "select"} =>
       /\ ctl.run = Len(runs) /\ ~Entered(ctl.run)
       /\ runs[ctl.run].bound => ~broken
  /\ ctl.at = "select" => runs[ctl.run].text # NoText
  /\ ctl.at = "enqueue" =>
       /\ runs[ctl.run].text # NoText
       /\ ~Entered(ctl.run) /\ Tells(JobOfRun(ctl.run)) => ~Seen(ctl.run)
  /\ ctl.at \in {"enqueue", "deliver"} => ~broken
  /\ ctl.at = "deliver" => \A r \in 1 .. Len(runs) : Waits(r) => Reply(r) \in ctl.items
  /\ ctl.at \in {"observe", "settle"} => \A r \in 1 .. Len(runs) : ~Waits(r)
  /\ /\ ctl.at = "settle" \/ (ctl.at = "observe" /\ ctl.verdict # "succeeded")
     /\ ctl.run # 0 /\ ToldBy(ctl.run) /\ Tells(JobOfRun(ctl.run))
     => Seen(ctl.run)

NewsRight == OneClaim /\ RepliesRight /\ ReplyPlace

(* What can make a heartbeat repeat itself is left out: a line or a reply     *)
(* that is lost, a turn that is given up, a job that is told to keep quiet.   *)
Steady ==
  /\ ~TornTails /\ ~OutboxFaults /\ ~TurnFaults
  /\ \A p \in Patches : "notify" \notin DOMAIN p

(* Jobs, claims and sessions as far as replies depend on them.                *)
JobsStay(p, q) ==
  \A j \in DOMAIN p.jobs :
    j \in DOMAIN q.jobs /\ q.jobs[j].notify = p.jobs[j].notify /\ q.jobs[j].seen = p.jobs[j].seen
NoneClaimed(p, q) ==
  \A o \in ClaimedIn(q) : o \in ClaimedIn(p) /\ q.occs[o].sess = p.occs[o].sess
BoundStay(p, q) ==
  \A o \in ClaimedIn(p) : p.occs[o].sess # 0 =>
    o \in ClaimedIn(q) /\ q.occs[o].sess = p.occs[o].sess
Leaves(p, q) == JobsStay(p, q) /\ NoneClaimed(p, q) /\ BoundStay(p, q)
SameTexts ==
  /\ Len(runs') = Len(runs)
  /\ \A r \in 1 .. Len(runs) :
       runs'[r].occ = runs[r].occ /\ (Entered(r) => runs'[r].text = runs[r].text)

(* What the proofs below keep needing.                                        *)
LEMMA Basics ==
  ASSUME Steady, Inv
  PROVE  /\ torn = FALSE /\ WellFormed(disk) /\ WellFormed(mem) /\ runs \in Seq(Run)
         /\ Len(runs) \in Nat /\ ctl \in Control
         /\ ~broken /\ ctl.at # "down" => Same(mem, disk)
         /\ \A r \in 1 .. Len(runs) :
              /\ runs[r] \in Run /\ runs[r].occ \in DOMAIN disk.occs
              /\ JobOfRun(r) \in DOMAIN disk.jobs
         /\ \A o \in DOMAIN disk.occs : disk.occs[o].state = "scheduled" => disk.occs[o].sess = 0
<1>1. /\ TypesRight /\ AccountRight
  BY DEF Inv, PlaceRight, Steady
<1>2. runs \in Seq(Run) /\ Len(runs) \in Nat /\ \A r \in 1 .. Len(runs) : runs[r] \in Run
  BY <1>1 DEF TypesRight
<1> QED BY <1>1, <1>2 DEF TypesRight, AccountRight, Sound, JobOfRun

(* Where the outbox and the sessions are left alone, replies stay right if    *)
(* what was to be judged is, or has nothing more to tell.                     *)
LEMMA RepliesStay ==
  ASSUME RepliesRight, Len(runs) \in Nat,
         \A r \in 1 .. Len(runs) : JobOfRun(r) \in DOMAIN disk.jobs,
         UNCHANGED <<boxDisk, boxBroken>>, SameTexts, JobsStay(disk, disk'),
         \A r \in 1 .. Len(runs) :
           Unjudged(r) => \/ Unjudged(r)'
                          \/ ~Waits(r) /\ (ToldBy(r) /\ Tells(JobOfRun(r)) => Seen(r))
  PROVE  RepliesRight'
<1>1. Len(runs') = Len(runs)
  BY DEF SameTexts
<1>2. ASSUME NEW r \in 1 .. Len(runs)
      PROVE  /\ JobOfRun(r)' = JobOfRun(r)
             /\ Tells(JobOfRun(r))' <=> Tells(JobOfRun(r))
             /\ Entered(r) => runs'[r].text = runs[r].text /\ (Seen(r)' <=> Seen(r))
  BY DEF SameTexts, JobsStay, JobOfRun, Tells, Has, Seen
<1>3. \A r : /\ Entered(r)' <=> Entered(r)
             /\ Waits(r)' <=> Waits(r)
             /\ ToldBy(r)' <=> ToldBy(r)
             /\ Waits(r) \/ ToldBy(r) => Entered(r)
  BY DEF Entered, Waits, ToldBy
<1>4. ASSUME NEW r \in 1 .. Len(runs) PROVE LatestTold(r)' <=> LatestTold(r)
  <2>1. \A m \in r + 1 .. Len(runs) : m \in 1 .. Len(runs)
    OBVIOUS
  <2> QED BY <1>1, <1>2, <1>3, <2>1 DEF LatestTold
<1>5. ASSUME NEW q \in 1 .. Len(runs), NEW r \in 1 .. Len(runs), OtherBetween(q, r), ToldBy(q)
      PROVE  OtherBetween(q, r)'
  <2>1. \A m \in q + 1 .. r - 1 : m \in 1 .. Len(runs)
    OBVIOUS
  <2> QED BY <1>2, <1>3, <1>5, <2>1 DEF OtherBetween
<1>6. ASSUME NEW r \in 1 .. Len(runs)
      PROVE  /\ Entered(r)' => runs'[r].text # NoText
             /\ Waits(r)' => Unjudged(r)' /\ (Tells(JobOfRun(r))' => ~Seen(r)')
             /\ ToldBy(r)' /\ LatestTold(r)' /\ Tells(JobOfRun(r))' => Seen(r)' \/ Unjudged(r)'
  BY <1>2, <1>3, <1>4 DEF RepliesRight
<1>7. ASSUME NEW q \in 1 .. Len(runs), NEW r \in 1 .. Len(runs),
             q < r, JobOfRun(q)' = JobOfRun(r)', Tells(JobOfRun(q))',
             ToldBy(q)', ToldBy(r)' \/ Waits(r)', runs'[q].text = runs'[r].text
      PROVE  OtherBetween(q, r)'
  <2>1. OtherBetween(q, r) /\ ToldBy(q)
    BY <1>2, <1>3, <1>7 DEF RepliesRight
  <2> QED BY <1>5, <2>1
<1>8. boxBroken' = FALSE
  BY DEF RepliesRight
<1> QED BY <1>1, <1>6, <1>7, <1>8 DEF RepliesRight

(* Claims stay as they are, or end.                                           *)
LEMMA ClaimStays ==
  ASSUME OneClaim, Len(runs') = Len(runs), NoneClaimed(disk, disk')
  PROVE  OneClaim'
BY DEF OneClaim, NoneClaimed

(* Together.                                                                  *)
LEMMA LeavesReplies ==
  ASSUME Steady, Inv, OneClaim, RepliesRight, Leaves(disk, disk'), SameTexts,
         UNCHANGED <<boxDisk, boxBroken>>
  PROVE  OneClaim' /\ RepliesRight'
<1>1. /\ Len(runs) \in Nat
      /\ \A r \in 1 .. Len(runs) :
           runs[r].occ \in DOMAIN disk.occs /\ JobOfRun(r) \in DOMAIN disk.jobs
  BY Basics
<1>2. ASSUME NEW r \in 1 .. Len(runs), Unjudged(r) PROVE Unjudged(r)'
  <2>1. runs[r].occ \in ClaimedIn(disk) /\ disk.occs[runs[r].occ].sess # 0
    BY <1>1, <1>2 DEF Unjudged, ClaimedIn
  <2>2. runs[r].occ \in ClaimedIn(disk') /\ disk'.occs[runs[r].occ].sess = r
    BY <1>2, <2>1 DEF Leaves, BoundStay, Unjudged
  <2> QED BY <1>2, <2>2 DEF SameTexts, Unjudged, ClaimedIn
<1>3. RepliesRight'
  BY <1>1, <1>2, RepliesStay DEF Leaves
<1>4. OneClaim'
  BY ClaimStays DEF Leaves, SameTexts
<1> QED BY <1>3, <1>4

(* Places that say nothing of a reply.                                        *)
Silent(c) ==
  /\ c.at \in {"idle", "commands", "first", "cancel", "sweep", "advance", "recover", "claim",
               "clean", "open", "halted", "down"}
  /\ c.then # "noticed"
LEMMA SilentPlace ==
  ASSUME Silent(ctl')
  PROVE  ReplyPlace'
BY DEF Silent, ReplyPlace

(* Lines that are about no claim and no reply.                                *)
Tame(l, p) ==
  /\ l.type \in LineTypes \ {"occurrence.claimed", "occurrence.bound", "occurrence.observed"}
  /\ l.type = "job.created" => l.job \notin DOMAIN p.jobs
  /\ l.type = "occurrence.created" => l.occ \notin DOMAIN p.occs
  /\ l.type = "job.updated" => "notify" \notin DOMAIN l.patch /\ "seen" \notin DOMAIN l.patch
  /\ l.type = "occurrence.settled" =>
       (l.occ \in DOMAIN p.occs => p.occs[l.occ].state # "claimed")
  /\ l.type = "occurrence.redispatched" =>
       (l.occ \in DOMAIN p.occs => p.occs[l.occ].sess = 0)

(* A job's line leaves what it has seen,                                      *)
LEMMA JobLineStays ==
  ASSUME NEW b \in Job, NEW l, l.type \in JobTypes,
         l.type = "job.updated" => "notify" \notin DOMAIN l.patch /\ "seen" \notin DOMAIN l.patch
  PROVE  JobLine(b, l).notify = b.notify /\ JobLine(b, l).seen = b.seen
<1>1. CASE l.type = "job.updated"
  <2>1. JobLine(b, l) = [Over(l.patch, b) EXCEPT !.rev = l.to]
    BY <1>1 DEF JobLine
  <2>2. "notify" \in DOMAIN b /\ "seen" \in DOMAIN b
    BY DEF Job
  <2>3. /\ "notify" \in DOMAIN Over(l.patch, b) /\ Over(l.patch, b).notify = b.notify
        /\ "seen" \in DOMAIN Over(l.patch, b) /\ Over(l.patch, b).seen = b.seen
    BY <1>1, <2>2 DEF Over
  <2>4. /\ [Over(l.patch, b) EXCEPT !.rev = l.to].notify = Over(l.patch, b).notify
        /\ [Over(l.patch, b) EXCEPT !.rev = l.to].seen = Over(l.patch, b).seen
    BY <2>3
  <2> QED BY <2>1, <2>3, <2>4
<1>2. CASE l.type = "job.paused"
  BY <1>2 DEF JobLine, Job
<1>3. CASE l.type = "job.cancelled"
  BY <1>3 DEF JobLine, Job
<1>4. CASE l.type = "job.resumed"
  <2>1. JobLine(b, l) = Resumed(b, l)
    BY <1>4 DEF JobLine
  <2> QED BY <2>1 DEF Resumed, Job
<1>5. CASE l.type = "job.schedule_advanced"
  BY <1>5 DEF JobLine, Job
<1> QED BY <1>1, <1>2, <1>3, <1>4, <1>5 DEF JobTypes

(* ... and what is tame leaves claims and jobs.                               *)
LEMMA TameLeaves ==
  ASSUME NEW p, WellFormed(p), NEW l, Tame(l, p)
  PROVE  Leaves(p, Replay(p, l))
<1> DEFINE q == Replay(p, l)
<1>1. CASE l.type = "job.created"
  <2>1. q.occs = p.occs /\ q.jobs = With(p.jobs, l.job, l.spec) /\ l.job \notin DOMAIN p.jobs
    BY <1>1, ReplayCreated DEF JobMade, Tame
  <2> HIDE DEF q
  <2> QED BY <2>1 DEF q, Leaves, JobsStay, NoneClaimed, BoundStay, ClaimedIn, With
<1>2. CASE l.type = "occurrence.created"
  <2>1. /\ q.jobs = p.jobs /\ q.occs = With(p.occs, l.occ, NewOccurrence(l.reason, l.missed))
        /\ l.occ \notin DOMAIN p.occs
    BY <1>2, ReplayCreated DEF OccMade, Tame
  <2>2. NewOccurrence(l.reason, l.missed).state = "scheduled"
    BY DEF NewOccurrence
  <2> HIDE DEF q
  <2> QED BY <2>1, <2>2 DEF q, Leaves, JobsStay, NoneClaimed, BoundStay, ClaimedIn, With
<1>3. CASE l.type \in JobTypes
  <2>1. CASE Has(p.jobs, l.job)
    <3>1. q = JobPut(p, l.job, JobLine(p.jobs[l.job], l))
      BY <1>3, <2>1, ReplayJob
    <3>2. /\ JobLine(p.jobs[l.job], l).notify = p.jobs[l.job].notify
          /\ JobLine(p.jobs[l.job], l).seen = p.jobs[l.job].seen
      BY <1>3, <2>1, JobLineStays DEF WellFormed, Has, Tame
    <3>3. q.occs = p.occs /\ q.jobs = With(p.jobs, l.job, JobLine(p.jobs[l.job], l))
      BY <3>1 DEF JobPut
    <3> HIDE DEF q
    <3> QED BY <3>2, <3>3 DEF q, Leaves, JobsStay, NoneClaimed, BoundStay, ClaimedIn, With
  <2>2. CASE ~Has(p.jobs, l.job)
    <3>1. q = p
      BY <1>3, <2>2, ReplayJob
    <3> QED BY <3>1 DEF Leaves, JobsStay, NoneClaimed, BoundStay
  <2> QED BY <2>1, <2>2
<1>4. CASE l.type \in OccTypes
  <2>1. CASE Has(p.occs, l.occ)
    <3> DEFINE c == p.occs[l.occ]
               d == OccLine(c, l)
    <3>1. q = OccPut(p, l.occ, d)
      BY <1>4, <2>1, ReplayOcc
    <3>2. q.jobs = p.jobs /\ q.occs = With(p.occs, l.occ, d)
      BY <3>1 DEF OccPut
    <3>3. c \in Occurrence
      BY <2>1 DEF WellFormed, Has
    <3>4. /\ d.state = "claimed" => c.state = "claimed" /\ d.sess = c.sess
          /\ c.state = "claimed" /\ c.sess # 0 => d.state = "claimed"
      BY <1>4, <2>1, <3>3 DEF Tame, OccTypes, OccLine, Occurrence, Has
    <3> HIDE DEF q, d
    <3> QED BY <2>1, <3>2, <3>4 DEF q, Leaves, JobsStay, NoneClaimed, BoundStay, ClaimedIn,
               With, Has
  <2>2. CASE ~Has(p.occs, l.occ)
    <3>1. q = p
      BY <1>4, <2>2, ReplayOcc
    <3> QED BY <3>1 DEF Leaves, JobsStay, NoneClaimed, BoundStay
  <2> QED BY <2>1, <2>2
<1> QED BY <1>1, <1>2, <1>3, <1>4 DEF Tame, LineTypes

(* Such a line, written or not, leaves the replies right.                     *)
LEMMA TameLog ==
  ASSUME Steady, Inv, NewsRight, NEW l, NEW m, NEW c, Log(l, m, c), Others, ctl.at # "down",
         Tame(l, mem), Silent(c)
  PROVE  NewsRight'
<1>1. torn = FALSE /\ WellFormed(disk) /\ (~broken => Same(mem, disk))
  BY Basics
<1>2. ASSUME ~broken, disk' = Written(l) PROVE Leaves(disk, disk')
  <2>1. Tame(l, disk)
    BY <1>1, <1>2 DEF Same, Tame
  <2>2. disk' = Replay(disk, l)
    BY <1>1, <1>2 DEF Written
  <2> QED BY <1>1, <2>1, <2>2, TameLeaves
<1>3. Leaves(disk, disk)
  BY DEF Leaves, JobsStay, NoneClaimed, BoundStay
<1>4. Leaves(disk, disk')
  BY <1>2, <1>3 DEF Log, Appended, AppendFails
<1>5. Silent(ctl')
  BY DEF Log, Silent, Halted, Idle
<1>6. UNCHANGED <<boxDisk, boxBroken, runs>>
  BY DEF Others, outbox
<1>7. SameTexts
  BY <1>6 DEF SameTexts
<1>8. OneClaim' /\ RepliesRight'
  BY <1>4, <1>6, <1>7, LeavesReplies DEF NewsRight
<1> QED BY <1>5, <1>8, SilentPlace DEF NewsRight

(* A step that writes nothing and goes to a place that says nothing.          *)
LEMMA SilentStep ==
  ASSUME Steady, Inv, NewsRight, UNCHANGED <<disk, boxDisk, runs>>, boxBroken' = FALSE,
         Silent(ctl')
  PROVE  NewsRight'
<1>1. Leaves(disk, disk')
  BY DEF Leaves, JobsStay, NoneClaimed, BoundStay
<1>2. SameTexts
  BY DEF SameTexts
<1>3. OneClaim' /\ RepliesRight'
  BY <1>1, <1>2, LeavesReplies DEF NewsRight, RepliesRight
<1> QED BY <1>3, SilentPlace DEF NewsRight

(* Commands, and what follows them.                                           *)
LEMMA CommandsNews ==
  ASSUME Steady, Inv, NewsRight, Commands
  PROVE  NewsRight'
<1>1. ctl \in Control /\ ctl.then # "noticed"
  BY Basics DEF NewsRight, ReplyPlace
<1>2. \A v : ctl.at = "commands" => Silent(Taken(v))
  BY <1>1 DEF Silent, Taken, Control
<1>3. ASSUME NEW j \in Jobs, NEW s \in Specs, NEW k \in Keys \cup {NoKey}, CreateJob(j, s, k)
      PROVE  NewsRight'
  <2> DEFINE b == Created(s, k)
             l == [type |-> "job.created", job |-> j, spec |-> b]
             m == [mem EXCEPT !.jobs = With(@, j, b), !.createKeys = Registered(@, k, j)]
             c == IF s.kind = "once" THEN [Taken(1) EXCEPT !.at = "first", !.job = j] ELSE Taken(1)
  <2>1. Log(l, m, c) /\ Others /\ ctl.at = "commands" /\ ~Has(mem.jobs, j)
    BY <1>3 DEF CreateJob, Command, At
  <2>2. Silent(c)
    BY <1>1, <1>2, <2>1 DEF Silent, Taken, Control
  <2>3. l.type = "job.created" /\ l.job = j
    OBVIOUS
  <2> HIDE DEF l, m, c, b
  <2>4. Tame(l, mem)
    BY <2>1, <2>3 DEF Tame, LineTypes, Has
  <2> QED BY <2>1, <2>2, <2>4, TameLog
<1>4. ASSUME NEW j \in Jobs, NEW k \in Keys \cup {NoKey}, RequestRunNow(j, k) PROVE NewsRight'
  <2> DEFINE o == OccId(j, mem.jobs[j].rev, now)
             l == [type |-> "occurrence.created", occ |-> o, reason |-> "run_now",
                   missed |-> 0, key |-> k]
             m == [mem EXCEPT !.occs = With(@, o, NewOccurrence("run_now", 0)),
                              !.runKeys = Registered(@, k, o)]
  <2>1. Log(l, m, Taken(2)) /\ Others /\ ctl.at = "commands" /\ ~Has(mem.occs, o)
    BY <1>4 DEF RequestRunNow, Command, At, JobRec
  <2>2. l.type = "occurrence.created" /\ l.occ = o
    OBVIOUS
  <2> HIDE DEF l, m, o
  <2>3. Tame(l, mem)
    BY <2>1, <2>2 DEF Tame, LineTypes, Has
  <2> QED BY <1>2, <2>1, <2>3, TameLog
<1>5. ASSUME NEW j \in Jobs, NEW p \in Patches, UpdateJob(j, p) PROVE NewsRight'
  <2> DEFINE l == [type |-> "job.updated", job |-> j, patch |-> Anchored(p),
                   to |-> mem.jobs[j].rev + 1]
             m == [mem EXCEPT !.jobs[j] = Changed(@, p)]
  <2>1. Log(l, m, Taken(3)) /\ Others /\ ctl.at = "commands"
    BY <1>5 DEF UpdateJob, Command, At, JobRec
  <2>2. "notify" \notin DOMAIN Anchored(p) /\ "seen" \notin DOMAIN Anchored(p)
    <3>1. DOMAIN p \subseteq DOMAIN Plain /\ "notify" \notin DOMAIN p
      BY AutomationAssumption DEF AutomationAssumption, Steady
    <3> QED BY <3>1 DEF Plain, Anchored, Over
  <2>3. l.type = "job.updated" /\ l.patch = Anchored(p)
    OBVIOUS
  <2> HIDE DEF l, m
  <2>4. Tame(l, mem)
    BY <2>2, <2>3 DEF Tame, LineTypes, JobTypes
  <2> QED BY <1>2, <2>1, <2>4, TameLog
<1>6. ASSUME NEW j \in Jobs, PauseJob(j) PROVE NewsRight'
  <2> DEFINE m == [mem EXCEPT !.jobs[j].state = "paused"]
             l == [type |-> "job.paused", job |-> j]
  <2>1. Log(l, m, Taken(4)) /\ Others /\ ctl.at = "commands"
    BY <1>6 DEF PauseJob, Command, At
  <2>2. Tame(l, mem)
    BY DEF Tame, LineTypes, JobTypes
  <2> HIDE DEF l, m
  <2> QED BY <1>2, <2>1, <2>2, TameLog
<1>7. ASSUME NEW j \in Jobs, ResumeJob(j) PROVE NewsRight'
  <2> DEFINE m == [mem EXCEPT !.jobs[j] = Awake(@)]
             l == [type |-> "job.resumed", job |-> j, through |-> now]
  <2>1. Log(l, m, Taken(4)) /\ Others /\ ctl.at = "commands"
    BY <1>7 DEF ResumeJob, Command, At
  <2>2. Tame(l, mem)
    BY DEF Tame, LineTypes, JobTypes
  <2> HIDE DEF l, m
  <2> QED BY <1>2, <2>1, <2>2, TameLog
<1>8. ASSUME NEW j \in Jobs, CancelJob(j) PROVE NewsRight'
  <2> DEFINE m == [mem EXCEPT !.jobs[j].state = "cancelled"]
             l == [type |-> "job.cancelled", job |-> j]
             c == [Taken(4) EXCEPT !.at = "cancel", !.occs = OfJob(j, {"scheduled", "claimed"})]
  <2>1. Log(l, m, c) /\ Others /\ ctl.at = "commands"
    BY <1>8 DEF CancelJob, Command, At
  <2>2. Silent(c)
    BY <1>1 DEF Silent, Taken, Control
  <2>3. Tame(l, mem)
    BY DEF Tame, LineTypes, JobTypes
  <2> HIDE DEF l, m, c
  <2> QED BY <2>1, <2>2, <2>3, TameLog
<1> QED BY <1>3, <1>4, <1>5, <1>6, <1>7, <1>8 DEF Commands

(* Second lines of a command.                                                 *)
LEMMA CommandStepsNews ==
  ASSUME Steady, Inv, NewsRight, CommandStep
  PROVE  NewsRight'
<1>1. ctl \in Control /\ ctl.then # "noticed" /\ boxBroken = FALSE
  BY Basics DEF NewsRight, ReplyPlace, RepliesRight
<1>2. CASE FirstOccurrence
  <2> DEFINE b == JobRec(ctl.job)
             o == OccId(ctl.job, 1, b.due)
             l == [type |-> "occurrence.created", occ |-> o, reason |-> "schedule",
                   missed |-> 0, key |-> b.key]
             m == [mem EXCEPT !.occs = With(@, o, NewOccurrence("schedule", 0))]
             c == [ctl EXCEPT !.at = "commands", !.job = 0]
  <2>1. Log(l, m, c) /\ Others /\ ctl.at = "first"
    BY <1>2 DEF FirstOccurrence, At
  <2>2. Silent(c)
    BY <1>1 DEF Silent, Control
  <2>3. l.type = "occurrence.created" /\ l.occ = o /\ JobOf(o) = ctl.job
    BY DEF OccId, JobOf
  <2>4. o \notin DOMAIN mem.occs
    BY <2>1, <2>3 DEF Inv, AccountRight, Steady
  <2> HIDE DEF l, m, c, o, b
  <2>5. Tame(l, mem)
    BY <2>3, <2>4 DEF Tame, LineTypes
  <2> QED BY <2>1, <2>2, <2>5, TameLog
<1>3. CASE CancelDone
  <2>1. /\ UNCHANGED <<disk, boxDisk, boxBroken, runs>>
        /\ ctl' = [ctl EXCEPT !.at = "commands"]
    BY <1>3 DEF CancelDone, Go, Others, store, outbox
  <2>2. Silent(ctl')
    BY <1>1, <2>1 DEF Silent, Control
  <2> QED BY <1>1, <2>1, <2>2, SilentStep
<1>4. ASSUME NEW o \in ctl.occs, CancelOccurrence(o) PROVE NewsRight'
  <2>1. Others /\ ctl.at = "cancel"
    BY <1>4 DEF CancelOccurrence, At
  <2> DEFINE c == [ctl EXCEPT !.occs = @ \ {o}]
  <2>2. Silent(c)
    BY <1>1, <2>1 DEF Silent, Control
  <2>3. CASE mem.occs[o].state = "scheduled"
    <3> DEFINE m == Settled(o, "cancelled")
               l == [type |-> "occurrence.settled", occ |-> o, outcome |-> "cancelled"]
    <3>1. Log(l, m, c)
      BY <1>4, <2>3 DEF CancelOccurrence, OccRec
    <3>2. Tame(l, mem)
      BY <2>3 DEF Tame, LineTypes, OccTypes
    <3> HIDE DEF l, m, c
    <3> QED BY <2>1, <2>2, <3>1, <3>2, TameLog
  <2>4. CASE mem.occs[o].state # "scheduled"
    <3> DEFINE m == [mem EXCEPT !.occs[o] = Marked(@)]
               l == [type |-> "occurrence.cancel_requested", occ |-> o]
    <3>1. Log(l, m, c)
      BY <1>4, <2>4 DEF CancelOccurrence, OccRec
    <3>2. Tame(l, mem)
      BY DEF Tame, LineTypes, OccTypes
    <3> HIDE DEF l, m, c
    <3> QED BY <2>1, <2>2, <3>1, <3>2, TameLog
  <2> QED BY <2>3, <2>4
<1> QED BY <1>2, <1>3, <1>4 DEF CommandStep

(* The sweep.                                                                 *)
LEMMA SweepNews ==
  ASSUME Steady, Inv, NewsRight, SweepStep
  PROVE  NewsRight'
<1>1. ctl \in Control /\ ctl.then # "noticed" /\ boxBroken = FALSE
  BY Basics DEF NewsRight, ReplyPlace, RepliesRight
<1>2. ASSUME NEW j \in ctl.jobs, SweepPass(j) \/ SweepDrop(j) PROVE NewsRight'
  <2>1. UNCHANGED <<disk, boxDisk, boxBroken, runs>>
    BY <1>2 DEF SweepPass, SweepDrop, Others, store, outbox
  <2>2. Silent(ctl')
    BY <1>1, <1>2 DEF Silent, Control, SweepPass, SweepDrop, Sweeping, At, Due2nd
  <2> QED BY <1>1, <2>1, <2>2, SilentStep
<1>3. \A j : ctl.at = "sweep" => Silent(Due2nd(j))
  BY <1>1 DEF Silent, Due2nd, Control
<1>4. ASSUME NEW j \in ctl.jobs, SweepMerge(j) PROVE NewsRight'
  <2>1. PICK o \in Oldest(j) :
          Log([type |-> "occurrence.merged", occ |-> o,
               missed |-> OccRec(o).missed + Cardinality(Due(j))],
              [mem EXCEPT !.occs[o].missed = @ + Cardinality(Due(j))], Due2nd(j))
    BY <1>4 DEF SweepMerge
  <2> DEFINE l == [type |-> "occurrence.merged", occ |-> o,
                   missed |-> OccRec(o).missed + Cardinality(Due(j))]
             m == [mem EXCEPT !.occs[o].missed = @ + Cardinality(Due(j))]
  <2>2. Log(l, m, Due2nd(j)) /\ Others /\ ctl.at = "sweep"
    BY <1>4, <2>1 DEF SweepMerge, Sweeping, At
  <2>3. Tame(l, mem)
    BY DEF Tame, LineTypes, OccTypes
  <2> HIDE DEF l, m
  <2> QED BY <1>3, <2>2, <2>3, TameLog
<1>5. ASSUME NEW j \in ctl.jobs, SweepCreate(j) PROVE NewsRight'
  <2> DEFINE o == Target(j)
             l == [type |-> "occurrence.created", occ |-> o, reason |-> "schedule",
                   missed |-> MissedByNew(j), key |-> NoKey]
             m == [mem EXCEPT !.occs = With(@, o, NewOccurrence("schedule", MissedByNew(j)))]
  <2>1. Log(l, m, Due2nd(j)) /\ Others /\ ctl.at = "sweep" /\ ~Has(mem.occs, o)
    BY <1>5 DEF SweepCreate, Sweeping, At, Makes
  <2>2. l.type = "occurrence.created" /\ l.occ = o
    OBVIOUS
  <2> HIDE DEF l, m, o
  <2>3. Tame(l, mem)
    BY <2>1, <2>2 DEF Tame, LineTypes, Has
  <2> QED BY <1>3, <2>1, <2>3, TameLog
<1>6. CASE Advance
  <2> DEFINE t == Max(Due(ctl.job))
             m == [mem EXCEPT !.jobs[ctl.job].cursor = t]
             l == [type |-> "job.schedule_advanced", job |-> ctl.job, through |-> t]
             c == [ctl EXCEPT !.at = "sweep", !.jobs = @ \ {ctl.job}, !.job = 0]
  <2>1. Log(l, m, c) /\ Others /\ ctl.at = "advance"
    BY <1>6 DEF Advance, At
  <2>2. Silent(c)
    BY <1>1 DEF Silent, Control
  <2>3. Tame(l, mem)
    BY DEF Tame, LineTypes, JobTypes
  <2> HIDE DEF l, m, c
  <2> QED BY <2>1, <2>2, <2>3, TameLog
<1>7. CASE SweepDone
  <2>1. UNCHANGED <<disk, boxDisk, boxBroken, runs>>
    BY <1>7 DEF SweepDone, Others, store, outbox
  <2>2. Silent(ctl')
    BY <1>7 DEF Silent, Idle, SweepDone
  <2> QED BY <1>1, <2>1, <2>2, SilentStep
<1> QED BY <1>2, <1>4, <1>5, <1>6, <1>7 DEF SweepStep

(* What begins and ends ticks and processes.                                  *)
LEMMA ProcessNews ==
  ASSUME Steady, Inv, NewsRight,
         BeginTick \/ CommandsDone \/ Crash \/ Restart \/ Clock \/ LookForWork \/ NothingToClaim
  PROVE  NewsRight'
<1>1. ctl \in Control /\ ctl.then # "noticed" /\ boxBroken = FALSE
  BY Basics DEF NewsRight, ReplyPlace, RepliesRight
<1>2. UNCHANGED <<disk, boxDisk, runs>> /\ boxBroken' = FALSE
  BY <1>1 DEF BeginTick, CommandsDone, Crash, Restart, Clock, LookForWork, NothingToClaim,
     StoreAside, Others, store, outbox
<1>3. Silent(ctl')
  <2>1. CASE BeginTick
    BY <1>1, <2>1 DEF BeginTick, Go, Silent, Control
  <2>2. CASE CommandsDone
    BY <2>2 DEF CommandsDone, Silent, Idle
  <2>3. CASE LookForWork \/ NothingToClaim
    BY <2>3 DEF LookForWork, NothingToClaim, Silent, Idle
  <2>4. CASE Clock
    BY <1>1, <2>4 DEF Clock, At, Silent
  <2>5. CASE Crash \/ Restart
    BY <2>5 DEF Crash, Restart, Down, Silent, Idle
  <2> QED BY <2>1, <2>2, <2>3, <2>4, <2>5
<1> QED BY <1>2, <1>3, SilentStep

(* Recovery gives out again only what was never bound.                        *)
LEMMA RedispatchNews ==
  ASSUME Steady, Inv, NewsRight, NEW o \in ctl.occs, Redispatch(o)
  PROVE  NewsRight'
<1>1. ctl \in Control /\ ctl.then # "noticed"
  BY Basics DEF NewsRight, ReplyPlace
<1> DEFINE attempt == OccRec(o).attempt + 1
           l == [type |-> "occurrence.redispatched", occ |-> o, attempt |-> attempt]
           m == [mem EXCEPT !.occs[o] = Back(@)]
           c == [ctl EXCEPT !.occs = @ \ {o}]
<1>2. Log(l, m, c) /\ Others /\ ctl.at = "recover" /\ mem.occs[o].sess = 0
  BY DEF Redispatch, Recovering, At, Redispatchable, OccRec
<1>3. Silent(c)
  BY <1>1, <1>2 DEF Silent, Control
<1>4. Tame(l, mem)
  BY <1>2 DEF Tame, LineTypes, OccTypes
<1> HIDE DEF l, m, c
<1> QED BY <1>2, <1>3, <1>4, TameLog

(* A claim is given up only before it is claimed.                             *)
LEMMA CleanNews ==
  ASSUME Steady, Inv, NewsRight, NEW o \in Scheduled, CleanDoomed(o)
  PROVE  NewsRight'
<1>1. ctl \in Control /\ ctl.then # "noticed"
  BY Basics DEF NewsRight, ReplyPlace
<1> DEFINE l == [type |-> "occurrence.settled", occ |-> o, outcome |-> "cancelled"]
           m == Settled(o, "cancelled")
<1>2. Log(l, m, ctl) /\ Others /\ ctl.at = "clean" /\ mem.occs[o].state = "scheduled"
  BY DEF CleanDoomed, At, Scheduled, OccRec
<1>3. Silent(ctl)
  BY <1>1, <1>2 DEF Silent
<1>4. Tame(l, mem)
  BY <1>2 DEF Tame, LineTypes, OccTypes
<1> HIDE DEF l, m
<1> QED BY <1>2, <1>3, <1>4, TameLog

(* A step of the turn or of recovery, which writes neither account nor        *)
(* outbox: the place it goes to is all that can be wrong.                     *)
LEMMA AsideNews ==
  ASSUME Steady, Inv, NewsRight, StoreAside, SameTexts
  PROVE  /\ OneClaim' /\ RepliesRight'
         /\ UNCHANGED <<disk, mem, broken, boxDisk>>
         /\ \A r : /\ Entered(r)' <=> Entered(r)
                   /\ Waits(r)' <=> Waits(r)
                   /\ ToldBy(r)' <=> ToldBy(r)
                   /\ Waits(r) \/ ToldBy(r) => Entered(r)
         /\ \A r \in 1 .. Len(runs) :
              /\ JobOfRun(r)' = JobOfRun(r)
              /\ Tells(JobOfRun(r))' <=> Tells(JobOfRun(r))
              /\ runs'[r].text = runs[r].text => (Seen(r)' <=> Seen(r))
<1>1. UNCHANGED <<disk, mem, broken, boxDisk, boxBroken>>
  BY DEF StoreAside, store, outbox
<1>2. Leaves(disk, disk')
  BY <1>1 DEF Leaves, JobsStay, NoneClaimed, BoundStay
<1>3. OneClaim' /\ RepliesRight'
  BY <1>1, <1>2, LeavesReplies DEF NewsRight
<1>4. \A r \in 1 .. Len(runs) : runs'[r].occ = runs[r].occ
  BY DEF SameTexts
<1> QED BY <1>1, <1>3, <1>4 DEF Entered, Waits, ToldBy, JobOfRun, Tells, Seen

(* What is noted of a session is not its answer.                              *)
LEMMA NotedTexts ==
  ASSUME Steady, Inv, NEW r \in 1 .. Len(runs), NEW b \in BOOLEAN,
         \/ runs' = runs
         \/ runs' = [runs EXCEPT ![r].selected = TRUE]
         \/ runs' = [runs EXCEPT ![r].called = TRUE]
         \/ runs' = [runs EXCEPT ![r].done = TRUE]
  PROVE  /\ SameTexts /\ runs'[r].text = runs[r].text /\ runs'[r].bound = runs[r].bound
         /\ \A q \in 1 .. Len(runs) : runs'[q].text = runs[q].text
<1>1. runs \in Seq(Run) /\ runs[r] \in Run
  BY Basics
<1>2. Len(runs') = Len(runs)
  BY <1>1
<1>3. ASSUME NEW q \in 1 .. Len(runs)
      PROVE  /\ runs'[q].occ = runs[q].occ /\ runs'[q].text = runs[q].text
             /\ runs'[q].bound = runs[q].bound
  <2>1. runs[q] \in Run /\ q \in DOMAIN runs
    BY <1>1
  <2>2. CASE runs' = runs
    BY <2>2
  <2>3. CASE runs' = [runs EXCEPT ![r].selected = TRUE]
    BY <1>1, <2>1, <2>3 DEF Run
  <2>4. CASE runs' = [runs EXCEPT ![r].called = TRUE]
    BY <1>1, <2>1, <2>4 DEF Run
  <2>5. CASE runs' = [runs EXCEPT ![r].done = TRUE]
    BY <1>1, <2>1, <2>5 DEF Run
  <2> QED BY <2>2, <2>3, <2>4, <2>5
<1> QED BY <1>2, <1>3 DEF SameTexts

(* The session of a turn is the last one and nothing waits.                   *)
LEMMA TurnsNews ==
  ASSUME Steady, Inv, NewsRight, AskModel \/ CutByBudget \/ Select
  PROVE  NewsRight'
<1>0. PICK r : r = ctl.run
  OBVIOUS
<1>1. /\ ctl \in Control /\ r = Len(runs) /\ r \in 1 .. Len(runs) /\ ~Entered(r)
      /\ ctl.then # "noticed" /\ (runs[r].bound => ~broken) /\ runs[r].occ = ctl.occ
  <2>1. ctl.at \in {"ask", "turn", "select"}
    BY DEF AskModel, CutByBudget, Select, At
  <2>2. r # 0 /\ r \in 1 .. Len(runs) /\ runs[r].occ = ctl.occ
    BY <1>0, <2>1 DEF Inv, PlaceRight, Placed, Holds, Turning, InHandRight, Replying
  <2> QED BY <1>0, <2>1, <2>2, Basics DEF NewsRight, ReplyPlace
<1>2. StoreAside
  BY DEF AskModel, CutByBudget, Select
<1>3. /\ SameTexts /\ runs'[r].text = runs[r].text /\ runs'[r].bound = runs[r].bound
      /\ \A q \in 1 .. Len(runs) : runs'[q].text = runs[q].text
  BY <1>0, <1>1, NotedTexts DEF AskModel, CutByBudget, Select
<1>4. /\ OneClaim' /\ RepliesRight'
      /\ UNCHANGED <<disk, mem, broken, boxDisk>>
      /\ ~Entered(r)' /\ ~ToldBy(r)'
      /\ \A q \in 1 .. Len(runs) : Waits(q)' <=> Waits(q)
      /\ JobOfRun(r)' = JobOfRun(r)
      /\ Tells(JobOfRun(r))' <=> Tells(JobOfRun(r))
      /\ Seen(r)' <=> Seen(r)
  BY <1>1, <1>2, <1>3, AsideNews
<1>5. Len(runs') = Len(runs)
  BY <1>3 DEF SameTexts
<1>6. \A q \in 1 .. Len(runs) : ~Waits(q)
  BY <1>1 DEF NewsRight, RepliesRight, Unjudged, Waits
<1>7. CASE AskModel \/ CutByBudget
  <2>1. /\ ctl'.at \in {"turn", "select"} /\ ctl'.run = r /\ ctl'.then = ctl.then
        /\ ctl'.at = "select" => runs[r].text # NoText
    BY <1>0, <1>1, <1>7 DEF AskModel, CutByBudget, Go, Control
  <2>2. ReplyPlace'
    BY <1>1, <1>3, <1>4, <1>5, <2>1 DEF ReplyPlace
  <2> QED BY <1>4, <2>2 DEF NewsRight
<1>8. CASE Select
  <2>1. runs[r].text # NoText
    BY <1>0, <1>8 DEF Select, At, NewsRight, ReplyPlace
  <2>2. CASE ~runs[r].bound \/ Unchanged(ctl.occ, r)
    <3>1. /\ ctl'.at \in {"settle", "observe"} /\ ctl'.run = r /\ ctl'.then = ctl.then
      BY <1>0, <1>1, <1>8, <2>2 DEF Select, SettleAs, Control
    <3> QED BY <1>1, <1>4, <1>5, <1>6, <3>1 DEF ReplyPlace, NewsRight
  <2>3. CASE runs[r].bound /\ ~Unchanged(ctl.occ, r)
    <3>1. ctl'.at = "enqueue" /\ ctl'.run = r /\ ctl'.then = ctl.then
      BY <1>0, <1>1, <1>8, <2>3 DEF Select, Control
    <3>2. Tells(JobOfRun(r)) => ~Seen(r)
      <4>1. Same(mem, disk)
        BY <1>1, <1>8, <2>3, Basics DEF Select, At
      <4> QED BY <1>1, <2>1, <2>3, <4>1 DEF Same, Unchanged, Heartbeat, Known, JobRec, Has,
                 Tells, Seen, JobOfRun
    <3> QED BY <1>1, <1>3, <1>4, <1>5, <2>1, <2>3, <3>1, <3>2 DEF ReplyPlace, NewsRight
  <2> QED BY <2>2, <2>3
<1> QED BY <1>7, <1>8

(* The answer changes only while it is not entered.                           *)
LEMMA SpeakNews ==
  ASSUME Steady, Inv, NewsRight, NEW t \in Texts \cup {NoText}, NEW last \in BOOLEAN,
         Speak(t, last)
  PROVE  NewsRight'
<1>0. PICK r : r = ctl.run
  OBVIOUS
<1>1. /\ ctl \in Control /\ r = Len(runs) /\ r \in 1 .. Len(runs) /\ ~Entered(r)
      /\ ctl.then # "noticed" /\ (runs[r].bound => ~broken)
  <2>1. ctl.at = "turn"
    BY DEF Speak, At
  <2>2. r # 0 /\ r \in 1 .. Len(runs)
    BY <1>0, <2>1 DEF Inv, PlaceRight, Placed, Holds, Turning, InHandRight, Replying
  <2> QED BY <1>0, <2>1, <2>2, Basics DEF NewsRight, ReplyPlace
<1>2. /\ StoreAside /\ runs' = [runs EXCEPT ![r].text = t, ![r].done = last]
      /\ (last => t # NoText) /\ ctl' = [ctl EXCEPT !.at = IF last THEN "select" ELSE "turn"]
  BY <1>0 DEF Speak, Go
<1>3. runs \in Seq(Run) /\ runs[r] \in Run
  BY <1>1, Basics
<1>4. runs' = [runs EXCEPT ![r] = [runs[r] EXCEPT !.text = t, !.done = last]]
  BY <1>2
<1>5. /\ runs'[r].text = t /\ runs'[r].bound = runs[r].bound /\ runs'[r].occ = runs[r].occ
      /\ \A q \in 1 .. Len(runs) : q # r => runs'[q] = runs[q]
      /\ Len(runs') = Len(runs)
  BY <1>1, <1>3, <1>4 DEF Run
<1>6. SameTexts
  BY <1>1, <1>5 DEF SameTexts
<1>7. OneClaim' /\ RepliesRight' /\ ~Entered(r)' /\ UNCHANGED broken
  BY <1>1, <1>2, <1>6, AsideNews
<1>8. /\ ctl'.at = (IF last THEN "select" ELSE "turn") /\ ctl'.run = r /\ ctl'.then = ctl.then
  BY <1>0, <1>1, <1>2 DEF Control
<1> QED BY <1>1, <1>2, <1>5, <1>7, <1>8 DEF ReplyPlace, NewsRight

(* Recovery has the one claim to judge, which is bound to the last session.   *)
LEMMA RecoveryNews ==
  ASSUME Steady, Inv, NewsRight, NEW o \in ctl.occs,
         GiveUp(o) \/ RecoverBlind(o) \/ RecoverUnchanged(o) \/ RecoverReply(o)
  PROVE  NewsRight'
<1>0. PICK r : r = mem.occs[o].sess
  OBVIOUS
<1>1. /\ ctl \in Control /\ ctl.at = "recover" /\ ~broken /\ Same(mem, disk)
      /\ ctl.then # "noticed" /\ o \in ClaimedIn(disk)
  <2>1. ctl.at = "recover"
    BY DEF GiveUp, RecoverBlind, RecoverUnchanged, RecoverReply, Recovering, At
  <2>2. ~broken
    BY <2>1 DEF Inv, AccountRight, Steady, Holds, Turning
  <2>3. Same(mem, disk) /\ ctl \in Control
    BY <2>1, <2>2, Basics
  <2>4. o \in ClaimedIn(mem)
    BY <2>1 DEF Inv, PlaceRight, Placed, Judges, InHands
  <2> QED BY <2>1, <2>2, <2>3, <2>4 DEF NewsRight, ReplyPlace, ClaimedIn, Same
<1>2. r = disk.occs[o].sess /\ (r # 0 => r = Len(runs))
  BY <1>0, <1>1 DEF Same, ClaimedIn, NewsRight, OneClaim
<1>3. r # 0 => r \in 1 .. Len(runs) /\ runs[r].occ = o
  BY <1>1, <1>2 DEF Inv, PlaceRight, TypesRight, Fits, ClaimedIn
<1>4. ASSUME NEW q \in 1 .. Len(runs), Waits(q) PROVE q = r /\ r # 0
  <2>1. Unjudged(q)
    BY <1>4 DEF NewsRight, RepliesRight
  <2>2. runs[q].occ \in ClaimedIn(disk)
    BY <2>1, Basics DEF Unjudged, ClaimedIn
  <2>3. runs[q].occ = o
    BY <1>1, <2>2 DEF NewsRight, OneClaim
  <2> QED BY <1>2, <2>1, <2>3 DEF Unjudged
<1>5. StoreAside
  BY DEF GiveUp, RecoverBlind, RecoverUnchanged, RecoverReply
<1>6. CASE GiveUp(o)
  <2>1. UNCHANGED runs /\ r = 0 /\ ctl'.at = "settle" /\ ctl'.run = r /\ ctl'.then = ctl.then
    BY <1>0, <1>1, <1>6 DEF GiveUp, Judged, InHand, OccRec, Control
  <2>2. SameTexts
    BY <2>1 DEF SameTexts
  <2>3. /\ OneClaim' /\ RepliesRight'
        /\ \A q : Waits(q)' <=> Waits(q)
    BY <1>5, <2>2, AsideNews
  <2> QED BY <1>1, <1>4, <2>1, <2>3 DEF ReplyPlace, NewsRight
<1>7. CASE RecoverBlind(o)
  <2>1. /\ UNCHANGED runs /\ r # 0 /\ runs[r].text = NoText
        /\ ctl'.at = "settle" /\ ctl'.run = r /\ ctl'.then = ctl.then
    BY <1>0, <1>1, <1>7 DEF RecoverBlind, Judged, InHand, OccRec, Control, Steady
  <2>2. SameTexts
    BY <2>1 DEF SameTexts
  <2>3. /\ OneClaim' /\ RepliesRight'
        /\ \A q : /\ Waits(q)' <=> Waits(q)
                  /\ ToldBy(q)' <=> ToldBy(q)
                  /\ Waits(q) \/ ToldBy(q) => Entered(q)
    BY <1>5, <2>2, AsideNews
  <2>4. ~Entered(r)
    BY <1>3, <2>1 DEF NewsRight, RepliesRight
  <2> QED BY <1>1, <1>4, <2>1, <2>3, <2>4 DEF ReplyPlace, NewsRight
<1>8. CASE RecoverUnchanged(o)
  <2>1. /\ UNCHANGED runs /\ r # 0 /\ Unchanged(o, r)
        /\ ctl'.at = "observe" /\ ctl'.run = r /\ ctl'.then = ctl.then
    BY <1>0, <1>1, <1>8 DEF RecoverUnchanged, Answered, Judged, InHand, OccRec, Control
  <2>2. SameTexts
    BY <2>1 DEF SameTexts
  <2>3. /\ OneClaim' /\ RepliesRight'
        /\ \A q : Waits(q)' <=> Waits(q)
        /\ Seen(r)' <=> Seen(r)
    BY <1>3, <1>5, <2>1, <2>2, AsideNews
  <2>4. Tells(JobOfRun(r)) /\ Seen(r)
    BY <1>1, <1>3, <2>1 DEF Same, Unchanged, Heartbeat, Known, JobRec, Has, Tells, Seen, JobOfRun
  <2>5. \A q \in 1 .. Len(runs) : ~Waits(q)
    BY <1>4, <2>4 DEF NewsRight, RepliesRight
  <2> QED BY <1>1, <2>1, <2>3, <2>4, <2>5 DEF ReplyPlace, NewsRight
<1>9. CASE RecoverReply(o)
  <2>1. /\ runs' = [runs EXCEPT ![r].selected = TRUE]
        /\ r # 0 /\ runs[r].text # NoText /\ ~Unchanged(o, r)
        /\ ctl'.at = "enqueue" /\ ctl'.run = r /\ ctl'.then = ctl.then
    BY <1>0, <1>1, <1>9 DEF RecoverReply, Answered, InHand, OccRec, Control, Steady
  <2>2. SameTexts /\ runs'[r].text = runs[r].text
    BY <1>3, <2>1, NotedTexts
  <2>3. /\ OneClaim' /\ RepliesRight' /\ UNCHANGED broken
        /\ Tells(JobOfRun(r))' <=> Tells(JobOfRun(r))
        /\ Seen(r)' <=> Seen(r)
    BY <1>3, <1>5, <2>1, <2>2, AsideNews
  <2>4. Tells(JobOfRun(r)) => ~Seen(r)
    BY <1>1, <1>3, <2>1 DEF Same, Unchanged, Heartbeat, Known, JobRec, Has, Tells, Seen, JobOfRun
  <2> QED BY <1>1, <2>1, <2>2, <2>3, <2>4 DEF ReplyPlace, NewsRight
<1> QED BY <1>6, <1>7, <1>8, <1>9

(* When recovery is done there is no claim left, so nothing waits.            *)
LEMMA RecoveredNews ==
  ASSUME Steady, Inv, NewsRight, RecoverDone
  PROVE  NewsRight'
<1>1. /\ ctl \in Control /\ ctl.at = "recover" /\ ctl.occs = {} /\ UNCHANGED runs /\ StoreAside
      /\ ctl' = Deliver(box, "claim")
  BY Basics DEF RecoverDone, At
<1>2. ~broken /\ ~Holds(ctl)
  BY <1>1 DEF Inv, AccountRight, Steady, Holds, Turning
<1>3. ClaimedIn(mem) = {} /\ Same(mem, disk)
  BY <1>1, <1>2, Basics DEF Inv, PlaceRight, Placed, Judges, InHands
<1>4. \A q \in 1 .. Len(runs) : ~Waits(q)
  BY <1>3, Basics DEF NewsRight, RepliesRight, Unjudged, ClaimedIn, Same
<1>5. SameTexts
  BY <1>1 DEF SameTexts
<1>6. /\ OneClaim' /\ RepliesRight' /\ UNCHANGED broken
      /\ \A q : Waits(q)' <=> Waits(q)
  BY <1>1, <1>5, AsideNews
<1>7. ctl'.at = "deliver" /\ ctl'.then = "claim"
  BY <1>1 DEF Deliver, Control
<1> QED BY <1>1, <1>2, <1>4, <1>6, <1>7 DEF ReplyPlace, NewsRight

(* What is in hand while the store works is the one claim, and its session    *)
(* the last.                                                                  *)
LEMMA LastInHand ==
  ASSUME Steady, Inv, NewsRight, Holds(ctl), ~broken
  PROVE  /\ Same(mem, disk) /\ ctl.occ \in ClaimedIn(disk) /\ ctl.occ \in DOMAIN disk.occs
         /\ disk.occs[ctl.occ].sess = ctl.run
         /\ ctl.run # 0 =>
              ctl.run = Len(runs) /\ ctl.run \in 1 .. Len(runs) /\ runs[ctl.run].occ = ctl.occ
         /\ \A q \in 1 .. Len(runs) : Unjudged(q) => q = ctl.run /\ q # 0
<1>1. AccountRight /\ ctl.at # "down" /\ InHandRight(mem, ctl, runs, now)
  BY DEF Inv, Steady, Holds, Turning, PlaceRight, Placed
<1>2. Same(mem, disk) /\ ctl.occ \in ClaimedIn(disk) /\ disk.occs[ctl.occ].sess = ctl.run
  BY <1>1 DEF AccountRight, Same, ClaimedIn
<1>3. ctl.run # 0 => ctl.run = Len(runs)
  BY <1>2 DEF NewsRight, OneClaim
<1>4. ctl.run # 0 => ctl.run \in 1 .. Len(runs) /\ runs[ctl.run].occ = ctl.occ
  BY <1>1 DEF InHandRight
<1>5. ASSUME NEW q \in 1 .. Len(runs), Unjudged(q) PROVE q = ctl.run /\ q # 0
  <2>1. runs[q].occ \in ClaimedIn(disk)
    BY <1>5, Basics DEF Unjudged, ClaimedIn
  <2>2. runs[q].occ = ctl.occ
    BY <1>2, <2>1 DEF NewsRight, OneClaim
  <2> QED BY <1>2, <1>5, <2>2 DEF Unjudged
<1> QED BY <1>2, <1>3, <1>4, <1>5 DEF ClaimedIn

(* A claim is made when there is none, and is bound to no session.            *)
LEMMA ClaimNews ==
  ASSUME Steady, Inv, NewsRight, NEW o \in Scheduled, ClaimDue(o)
  PROVE  NewsRight'
<1> DEFINE l == [type |-> "occurrence.claimed", occ |-> o, attempt |-> OccRec(o).attempt]
           m == [mem EXCEPT !.occs[o].state = "claimed"]
           c == [Idle EXCEPT !.at = "open", !.occ = o]
<1>1. Log(l, m, c) /\ Others /\ ctl.at = "clean" /\ o \in DOMAIN mem.occs
  BY DEF ClaimDue, At, Scheduled
<1>2. /\ ~broken /\ ClaimedIn(mem) = {} /\ torn = FALSE
      /\ Same(mem, disk) /\ WellFormed(disk) /\ Len(runs) \in Nat
  <2>1. ~broken /\ ~Holds(ctl)
    BY <1>1 DEF Inv, AccountRight, Steady, Holds, Turning
  <2>2. ClaimedIn(mem) = {}
    BY <1>1, <2>1 DEF Inv, PlaceRight, Placed, Judges, InHands
  <2> QED BY <1>1, <2>1, <2>2, Basics
<1>3. ClaimedIn(disk) = {} /\ o \in DOMAIN disk.occs /\ disk.occs[o].sess = 0
  <2>1. disk.occs[o].state = "scheduled"
    BY <1>1, <1>2 DEF Scheduled, OccRec, Same
  <2> QED BY <1>1, <1>2, <2>1, Basics DEF Same, ClaimedIn
<1>4. l.type = "occurrence.claimed" /\ l.occ = o /\ c.at = "open" /\ c.then = "idle"
  BY DEF Idle
<1>5. UNCHANGED <<boxDisk, boxBroken, runs>> /\ SameTexts
  BY <1>1 DEF Others, outbox, SameTexts
<1> HIDE DEF l, m, c
<1>6. disk' = Replay(disk, l) \/ disk' = disk
  BY <1>1, <1>2 DEF Log, Appended, AppendFails, Written
<1>7. Silent(ctl')
  BY <1>1, <1>4 DEF Log, Silent, Halted, Idle
<1>8. /\ JobsStay(disk, disk')
      /\ \A q \in ClaimedIn(disk') : q = o /\ disk'.occs[q].sess = 0
  <2>1. CASE disk' = disk
    BY <1>3, <2>1 DEF JobsStay
  <2>2. CASE disk' = Replay(disk, l)
    <3>1. disk' = OccPut(disk, o, OccLine(disk.occs[o], l))
      BY <1>2, <1>3, <1>4, <2>2, ReplayOcc DEF OccTypes, Has
    <3>2. disk'.jobs = disk.jobs /\ disk'.occs = With(disk.occs, o, OccLine(disk.occs[o], l))
      BY <3>1 DEF OccPut
    <3>3. OccLine(disk.occs[o], l)
            = [disk.occs[o] EXCEPT !.state = "claimed", !.attempt = l.attempt]
      BY <1>4 DEF OccLine
    <3>4. disk.occs[o] \in Occurrence
      BY <1>2, <1>3 DEF WellFormed
    <3>5. OccLine(disk.occs[o], l).sess = 0
      BY <1>3, <3>3, <3>4 DEF Occurrence
    <3> QED BY <1>3, <3>2, <3>5 DEF JobsStay, ClaimedIn, With
  <2> QED BY <1>6, <2>1, <2>2
<1>9. OneClaim'
  BY <1>8 DEF OneClaim
<1>10. \A r \in 1 .. Len(runs) : ~Unjudged(r) /\ JobOfRun(r) \in DOMAIN disk.jobs
  BY <1>3, Basics DEF Unjudged, ClaimedIn
<1>11. RepliesRight'
  BY <1>2, <1>5, <1>8, <1>10, RepliesStay DEF NewsRight
<1> QED BY <1>7, <1>9, <1>11, SilentPlace DEF NewsRight

(* A new session has told nothing; before it is opened nothing waits.         *)
LEMMA OpenNews ==
  ASSUME Steady, Inv, NewsRight, OpenSession
  PROVE  NewsRight'
<1> DEFINE o == ctl.occ
           n == Len(runs)
           l == [type |-> "occurrence.bound", occ |-> o, sess |-> n + 1]
<1>1. /\ ctl.at = "open" /\ ~broken /\ ctl.run = 0 /\ Holds(ctl)
      /\ ctl \in Control /\ ctl.then # "noticed"
  <2>1. ctl.at = "open"
    BY DEF OpenSession, At
  <2> QED BY <2>1, Basics DEF Inv, AccountRight, Steady, Holds, Turning, NewsRight, ReplyPlace
<1>2. /\ Same(mem, disk) /\ o \in DOMAIN disk.occs /\ disk.occs[o].sess = 0
      /\ torn = FALSE /\ WellFormed(disk) /\ n \in Nat /\ runs \in Seq(Run)
      /\ o \in ClaimedIn(disk)
      /\ \A q \in 1 .. n : ~Unjudged(q) /\ runs[q].occ \in DOMAIN disk.occs
  BY <1>1, LastInHand, Basics
<1>3. /\ ctl' = [ctl EXCEPT !.at = "ask", !.run = n + 1]
      /\ UNCHANGED <<boxDisk, boxBroken>>
      /\ \/ runs' = Append(runs, NewRun(o, TRUE)) /\ ~broken'
         \/ runs' = Append(runs, NewRun(o, FALSE))
      /\ disk' = Replay(disk, l) \/ disk' = disk
  <2>1. /\ ctl' = [ctl EXCEPT !.at = "ask", !.run = n + 1] /\ UNCHANGED outbox
        /\ \/ Appended(l) /\ runs' = Append(runs, NewRun(o, TRUE))
           \/ AppendFails(l) /\ runs' = Append(runs, NewRun(o, FALSE))
    BY DEF OpenSession
  <2> HIDE DEF l, o, n
  <2>2. Appended(l) => ~broken' /\ disk' = Replay(disk, l)
    BY <1>1, <1>2 DEF Appended, Written
  <2>3. AppendFails(l) => disk' = Replay(disk, l) \/ disk' = disk
    BY <1>1, <1>2 DEF AppendFails, Written
  <2> QED BY <2>1, <2>2, <2>3 DEF outbox
<1>4. /\ ctl'.at = "ask" /\ ctl'.run = n + 1 /\ ctl'.then = ctl.then
  BY <1>1, <1>3 DEF Control
<1>5. /\ Len(runs') = n + 1 /\ \A q \in 1 .. n : runs'[q] = runs[q]
      /\ runs'[n + 1].occ = o /\ (runs'[n + 1].bound => ~broken')
  BY <1>2, <1>3 DEF NewRun
<1>6. l.type = "occurrence.bound" /\ l.occ = o /\ l.sess = n + 1
  OBVIOUS
<1> HIDE DEF l
<1>7. /\ disk'.jobs = disk.jobs
      /\ \A q \in ClaimedIn(disk') : q \in ClaimedIn(disk) /\ disk'.occs[q].sess \in {0, n + 1}
  <2>1. \A q \in ClaimedIn(disk) : q = o
    BY <1>2 DEF NewsRight, OneClaim
  <2>2. CASE disk' = disk
    BY <1>2, <2>1, <2>2
  <2>3. CASE disk' = Replay(disk, l)
    <3>1. disk' = OccPut(disk, o, OccLine(disk.occs[o], l))
      BY <1>2, <1>6, <2>3, ReplayOcc DEF OccTypes, Has
    <3>2. disk'.jobs = disk.jobs /\ disk'.occs = With(disk.occs, o, OccLine(disk.occs[o], l))
      BY <3>1 DEF OccPut
    <3>3. OccLine(disk.occs[o], l) = [disk.occs[o] EXCEPT !.sess = n + 1]
      BY <1>6 DEF OccLine
    <3>4. OccLine(disk.occs[o], l).sess = n + 1
      BY <1>2, <3>3 DEF WellFormed, Occurrence
    <3> QED BY <1>2, <2>1, <3>2, <3>4 DEF ClaimedIn, With
  <2> QED BY <1>3, <2>2, <2>3
<1> HIDE DEF o, n
<1>8. OneClaim'
  BY <1>2, <1>5, <1>7 DEF NewsRight, OneClaim
<1>9. PICK k : k = n
  OBVIOUS
<1>10. Reply(k + 1) \notin DOMAIN boxDisk
  BY <1>2, <1>9 DEF Inv, PlaceRight, TypesRight, ItemsOf, Reply, n
<1>11. \A r : /\ Entered(r)' <=> Entered(r)
              /\ Waits(r)' <=> Waits(r)
              /\ ToldBy(r)' <=> ToldBy(r)
              /\ Waits(r) \/ ToldBy(r) => Entered(r)
  BY <1>3 DEF Entered, Waits, ToldBy
<1>12. ~Entered(k + 1)
  BY <1>10 DEF Entered, Has
<1>13. ASSUME NEW r \in 1 .. k
       PROVE  /\ JobOfRun(r)' = JobOfRun(r)
              /\ Tells(JobOfRun(r))' <=> Tells(JobOfRun(r))
              /\ Seen(r)' <=> Seen(r)
              /\ runs'[r].text = runs[r].text /\ ~Unjudged(r)
  BY <1>2, <1>5, <1>7, <1>9 DEF JobOfRun, Tells, Seen
<1>14. Len(runs) = k /\ Len(runs') = k + 1 /\ k \in Nat
  BY <1>2, <1>5, <1>9 DEF n
<1>15. ASSUME NEW r \in 1 .. k, LatestTold(r)' PROVE LatestTold(r)
  <2>1. \A j \in r + 1 .. k : j \in 1 .. k /\ j \in r + 1 .. k + 1
    BY <1>14
  <2> QED BY <1>11, <1>13, <1>14, <1>15, <2>1 DEF LatestTold
<1>16. ASSUME NEW q \in 1 .. k, NEW r \in 1 .. k, OtherBetween(q, r) PROVE OtherBetween(q, r)'
  <2>1. \A j \in q + 1 .. r - 1 : j \in 1 .. k
    BY <1>14
  <2> QED BY <1>11, <1>13, <1>16, <2>1 DEF OtherBetween
<1>17. ASSUME NEW r \in 1 .. k + 1
       PROVE  /\ Entered(r)' => runs'[r].text # NoText
              /\ Waits(r)' => Unjudged(r)' /\ (Tells(JobOfRun(r))' => ~Seen(r)')
              /\ ToldBy(r)' /\ LatestTold(r)' /\ Tells(JobOfRun(r))' => Seen(r)' \/ Unjudged(r)'
  <2>1. CASE r = k + 1
    BY <1>11, <1>12, <2>1
  <2>2. CASE r # k + 1
    <3>1. r \in 1 .. k
      BY <1>14, <2>2
    <3> QED BY <1>11, <1>13, <1>14, <1>15, <3>1 DEF NewsRight, RepliesRight
  <2> QED BY <2>1, <2>2
<1>18. ASSUME NEW q \in 1 .. k + 1, NEW r \in 1 .. k + 1,
              q < r, JobOfRun(q)' = JobOfRun(r)', Tells(JobOfRun(q))',
              ToldBy(q)', ToldBy(r)' \/ Waits(r)', runs'[q].text = runs'[r].text
       PROVE  OtherBetween(q, r)'
  <2>1. q \in 1 .. k /\ r \in 1 .. k
    BY <1>11, <1>12, <1>14, <1>18
  <2>2. OtherBetween(q, r)
    BY <1>11, <1>13, <1>14, <1>18, <2>1 DEF NewsRight, RepliesRight
  <2> QED BY <1>16, <2>1, <2>2
<1>19. boxBroken' = FALSE
  BY <1>3 DEF NewsRight, RepliesRight
<1>20. RepliesRight'
  BY <1>14, <1>17, <1>18, <1>19 DEF RepliesRight
<1>21. ReplyPlace'
  BY <1>1, <1>4, <1>5, <1>9, <1>11, <1>12, <1>14 DEF ReplyPlace
<1> QED BY <1>8, <1>20, <1>21 DEF NewsRight

(* Of the sessions of a job that were told, one is the latest.                *)
LEMMA LatestExists ==
  ASSUME Len(runs) \in Nat, NEW q \in 1 .. Len(runs), ToldBy(q)
  PROVE  \E t \in 1 .. Len(runs) :
           q <= t /\ ToldBy(t) /\ JobOfRun(t) = JobOfRun(q) /\ LatestTold(t)
<1> DEFINE S == {t \in q .. Len(runs) : ToldBy(t) /\ JobOfRun(t) = JobOfRun(q)}
<1>1. S \in SUBSET (0 .. Len(runs)) /\ q \in S
  OBVIOUS
<1>2. Max(S) \in S /\ \A k \in S : k <= Max(S)
  BY <1>1, Ends
<1>3. PICK t \in S : \A k \in S : k <= t
  BY <1>2
<1>4. ASSUME NEW m \in t + 1 .. Len(runs), ToldBy(m), JobOfRun(m) = JobOfRun(t) PROVE FALSE
  <2>1. m \in S
    BY <1>3, <1>4
  <2> QED BY <1>3, <1>4, <2>1
<1>5. LatestTold(t)
  BY <1>4 DEF LatestTold
<1> QED BY <1>3, <1>5

(* The account of the outbox is written, the rest stays.                      *)
LEMMA EnteredNews ==
  ASSUME Steady, Inv, NewsRight, NEW r, r = ctl.run, ctl.at = "enqueue", ~Entered(r),
         UNCHANGED <<store, runs>>, boxBroken' = FALSE,
         boxDisk' = With(boxDisk, Reply(r), "pending")
  PROVE  OneClaim' /\ RepliesRight'
<1>1. /\ r = Len(runs) /\ r \in 1 .. Len(runs) /\ Unjudged(r) /\ runs[r].text # NoText
      /\ Tells(JobOfRun(r)) => ~Seen(r)
  <2>1. ~broken /\ Holds(ctl) /\ r # 0
    <3>1. Holds(ctl) /\ Replying(ctl)
      BY DEF Holds, Replying
    <3> QED BY <3>1 DEF NewsRight, ReplyPlace, Inv, PlaceRight, Placed, InHandRight
  <2>2. /\ ctl.occ \in ClaimedIn(disk) /\ disk.occs[ctl.occ].sess = r
        /\ r = Len(runs) /\ r \in 1 .. Len(runs) /\ runs[r].occ = ctl.occ
    BY <2>1, LastInHand
  <2> QED BY <2>2 DEF NewsRight, ReplyPlace, Unjudged, ClaimedIn
<1>2. /\ UNCHANGED <<disk, runs>> /\ Len(runs) \in Nat
  BY Basics DEF store
<1>3. \A q : Reply(q) = Reply(r) => q = r
  BY DEF Reply
<1>4. /\ Entered(r)' /\ Waits(r)' /\ ~ToldBy(r)' /\ ~ToldBy(r) /\ ~Waits(r)
      /\ \A q : q # r => /\ Entered(q)' <=> Entered(q)
                         /\ Waits(q)' <=> Waits(q)
      /\ \A q : ToldBy(q)' <=> ToldBy(q)
  BY <1>3 DEF Entered, Waits, ToldBy, With, Has
<1>5. \A q : /\ JobOfRun(q)' = JobOfRun(q)
             /\ Tells(JobOfRun(q))' <=> Tells(JobOfRun(q))
             /\ Seen(q)' <=> Seen(q)
             /\ Unjudged(q)' <=> Unjudged(q)
  BY <1>2 DEF JobOfRun, Tells, Seen, Unjudged
<1>6. \A q : LatestTold(q)' <=> LatestTold(q)
  BY <1>2, <1>4, <1>5 DEF LatestTold
<1>7. \A p, q : OtherBetween(p, q)' <=> OtherBetween(p, q)
  BY <1>2, <1>4, <1>5 DEF OtherBetween
<1>8. ASSUME NEW q \in 1 .. Len(runs)
      PROVE  /\ Entered(q)' => runs[q].text # NoText
             /\ Waits(q)' => Unjudged(q)' /\ (Tells(JobOfRun(q))' => ~Seen(q)')
             /\ ToldBy(q)' /\ LatestTold(q)' /\ Tells(JobOfRun(q))' => Seen(q)' \/ Unjudged(q)'
  <2>1. CASE q = r
    BY <1>1, <1>4, <1>5, <2>1
  <2>2. CASE q # r
    BY <1>4, <1>5, <1>6, <2>2 DEF NewsRight, RepliesRight
  <2> QED BY <2>1, <2>2
<1>9. ASSUME NEW q \in 1 .. Len(runs), NEW s \in 1 .. Len(runs),
             q < s, JobOfRun(q) = JobOfRun(s), Tells(JobOfRun(q)),
             ToldBy(q), ToldBy(s) \/ Waits(s)', runs[q].text = runs[s].text
      PROVE  OtherBetween(q, s)
  <2>1. CASE s # r
    BY <1>4, <1>9, <2>1 DEF NewsRight, RepliesRight
  <2>2. CASE s = r
    <3>1. PICK t \in 1 .. Len(runs) :
            q <= t /\ ToldBy(t) /\ JobOfRun(t) = JobOfRun(q) /\ LatestTold(t)
      BY <1>2, <1>9, LatestExists
    <3>2. t # r /\ t < r
      BY <1>1, <1>4, <3>1
    <3>3. ~Unjudged(t)
      BY <1>1, <3>2 DEF Unjudged
    <3>4. Seen(t)
      BY <1>9, <3>1, <3>3 DEF NewsRight, RepliesRight
    <3>5. ~Seen(r)
      BY <1>1, <1>9, <2>2
    <3>6. runs[t].text # runs[q].text
      BY <1>9, <2>2, <3>1, <3>4, <3>5 DEF Seen
    <3>7. t \in q + 1 .. r - 1
      BY <1>1, <3>1, <3>2, <3>6
    <3> QED BY <2>2, <3>1, <3>6, <3>7 DEF OtherBetween
  <2> QED BY <2>1, <2>2
<1>10. RepliesRight'
  BY <1>2, <1>4, <1>5, <1>7, <1>8, <1>9 DEF RepliesRight
<1>11. OneClaim'
  BY <1>2 DEF NewsRight, OneClaim
<1> QED BY <1>10, <1>11

(* An item that waits is told or flagged.                                     *)
LEMMA ToldNews ==
  ASSUME Steady, Inv, NewsRight, NEW d \in DOMAIN boxDisk, boxDisk[d] = "pending",
         NEW v \in {"delivered", "flagged"}, UNCHANGED <<store, runs>>, boxBroken' = FALSE,
         boxDisk' = [boxDisk EXCEPT ![d] = v]
  PROVE  /\ OneClaim' /\ RepliesRight'
         /\ \A q : Waits(q)' => Waits(q) /\ Reply(q) # d
<1>1. /\ UNCHANGED <<disk, runs>> /\ Len(runs) \in Nat
  BY Basics DEF store
<1>2. \A q : /\ Entered(q)' <=> Entered(q)
             /\ Waits(q)' => Waits(q) /\ Reply(q) # d
             /\ ToldBy(q) => ToldBy(q)'
             /\ ToldBy(q)' => ToldBy(q) \/ Waits(q)
  BY DEF Entered, Waits, ToldBy, Has
<1>3. \A q : /\ JobOfRun(q)' = JobOfRun(q)
             /\ Tells(JobOfRun(q))' <=> Tells(JobOfRun(q))
             /\ Seen(q)' <=> Seen(q)
             /\ Unjudged(q)' <=> Unjudged(q)
  BY <1>1 DEF JobOfRun, Tells, Seen, Unjudged
<1>4. \A q : LatestTold(q)' => LatestTold(q)
  BY <1>1, <1>2, <1>3 DEF LatestTold
<1>5. \A p, q : OtherBetween(p, q) => OtherBetween(p, q)'
  BY <1>1, <1>2, <1>3 DEF OtherBetween
<1>6. ASSUME NEW q \in 1 .. Len(runs)
      PROVE  /\ Entered(q)' => runs[q].text # NoText
             /\ Waits(q)' => Unjudged(q)' /\ (Tells(JobOfRun(q))' => ~Seen(q)')
             /\ ToldBy(q)' /\ LatestTold(q)' /\ Tells(JobOfRun(q))' => Seen(q)' \/ Unjudged(q)'
  BY <1>2, <1>3, <1>4 DEF NewsRight, RepliesRight
<1>7. ASSUME NEW q \in 1 .. Len(runs), NEW s \in 1 .. Len(runs),
             q < s, JobOfRun(q) = JobOfRun(s), Tells(JobOfRun(q)),
             ToldBy(q)', ToldBy(s)' \/ Waits(s)', runs[q].text = runs[s].text
      PROVE  OtherBetween(q, s)'
  <2>1. ~Waits(q)
    BY <1>7 DEF NewsRight, RepliesRight, Unjudged
  <2>2. ToldBy(q) /\ (ToldBy(s) \/ Waits(s))
    BY <1>2, <1>7, <2>1
  <2>3. OtherBetween(q, s)
    BY <1>7, <2>2 DEF NewsRight, RepliesRight
  <2> QED BY <1>5, <2>3
<1>8. RepliesRight'
  BY <1>1, <1>3, <1>6, <1>7 DEF RepliesRight
<1>9. OneClaim'
  BY <1>1 DEF NewsRight, OneClaim
<1> QED BY <1>2, <1>8, <1>9

(* The reply in hand is entered, unless it is already.                        *)
LEMMA EnqueueNews ==
  ASSUME Steady, Inv, NewsRight, Enqueue
  PROVE  NewsRight'
<1>1. PICK r : r = ctl.run
  OBVIOUS
<1>2. /\ ctl.at = "enqueue" /\ ~broken /\ ctl \in Control /\ ctl.then # "noticed"
      /\ boxBroken = FALSE /\ box = boxDisk /\ ~OutboxFaults
  BY Basics DEF Enqueue, At, NewsRight, ReplyPlace, RepliesRight, Inv, BoxRight, Steady
<1>3. UNCHANGED <<store, runs>> /\ UNCHANGED broken
  BY DEF Enqueue, StoreIdle, store
<1>4. \/ /\ Entered(r) /\ ctl' = Deliver(box, "replied") /\ UNCHANGED <<box, boxDisk, boxBroken>>
      \/ /\ ~Entered(r) /\ BoxAppended(With(box, Reply(r), "pending"))
         /\ ctl' = Deliver(With(box, Reply(r), "pending"), "replied")
  BY <1>1, <1>2 DEF Enqueue, At, Has, Entered, BoxFails
<1>5. /\ ctl' = Deliver(boxDisk', "replied") /\ boxBroken' = FALSE
      /\ \/ Entered(r) /\ UNCHANGED boxDisk
         \/ ~Entered(r) /\ boxDisk' = With(boxDisk, Reply(r), "pending")
  BY <1>2, <1>4 DEF BoxAppended
<1>6. OneClaim' /\ RepliesRight'
  <2>1. CASE UNCHANGED boxDisk
    <3>1. SameTexts /\ UNCHANGED <<disk, boxBroken>>
      BY <1>2, <1>3, <1>5 DEF SameTexts, store
    <3>2. Leaves(disk, disk')
      BY <3>1 DEF Leaves, JobsStay, NoneClaimed, BoundStay
    <3> QED BY <2>1, <3>1, <3>2, LeavesReplies DEF NewsRight
  <2>2. CASE ~Entered(r) /\ boxDisk' = With(boxDisk, Reply(r), "pending")
    BY <1>1, <1>2, <1>3, <1>5, <2>2, EnteredNews
  <2> QED BY <1>5, <2>1, <2>2
<1>7. /\ ctl'.at = "deliver" /\ ctl'.then = "replied"
      /\ ctl'.items = {d \in DOMAIN boxDisk' : boxDisk'[d] = "pending"}
  BY <1>2, <1>5 DEF Deliver, Control
<1>8. \A q : Waits(q)' => Reply(q) \in ctl'.items
  BY <1>7 DEF Waits, Entered, Has
<1> QED BY <1>2, <1>3, <1>6, <1>7, <1>8 DEF ReplyPlace, NewsRight

(* ... published or flagged,                                                  *)
LEMMA PublishNews ==
  ASSUME Steady, Inv, NewsRight, NEW d \in ctl.items, Publish(d) \/ PublishFails(d) \/ Flag(d)
  PROVE  NewsRight'
<1>1. /\ ctl.at = "deliver" /\ ~broken /\ ctl \in Control /\ ctl.then # "noticed"
      /\ boxBroken = FALSE /\ box = boxDisk /\ ~OutboxFaults
      /\ d \in DOMAIN boxDisk /\ boxDisk[d] = "pending"
  <2>1. ctl.at = "deliver"
    BY DEF Publish, PublishFails, Flag, Delivering, At
  <2> QED BY <2>1, Basics DEF NewsRight, ReplyPlace, RepliesRight, Inv, BoxRight, Steady
<1>2. UNCHANGED <<store, runs>> /\ UNCHANGED broken
  BY DEF Publish, PublishFails, Flag, StoreIdle, store
<1>3. \E v \in {"delivered", "flagged"} : BoxAppended([box EXCEPT ![d] = v]) /\ ctl' = Past(d)
  BY <1>1 DEF Publish, PublishFails, Flag, BoxFails
<1>4. PICK v \in {"delivered", "flagged"} :
        boxDisk' = [boxDisk EXCEPT ![d] = v] /\ boxBroken' = FALSE /\ ctl' = Past(d)
  BY <1>1, <1>3 DEF BoxAppended
<1>5. /\ OneClaim' /\ RepliesRight'
      /\ \A q : Waits(q)' => Waits(q) /\ Reply(q) # d
  BY <1>1, <1>2, <1>4, ToldNews
<1>6. ctl'.at = "deliver" /\ ctl'.then = ctl.then /\ ctl'.items = ctl.items \ {d}
  BY <1>1, <1>4 DEF Past, Control
<1>7. \A q \in 1 .. Len(runs) : Waits(q)' => Reply(q) \in ctl'.items
  BY <1>1, <1>5, <1>6 DEF NewsRight, ReplyPlace
<1> QED BY <1>1, <1>2, <1>5, <1>6, <1>7 DEF ReplyPlace, NewsRight, store

(* ... and nothing waits when that is done.                                   *)
LEMMA DeliveredNews ==
  ASSUME Steady, Inv, NewsRight, DeliverDone
  PROVE  NewsRight'
<1>1. PICK r : r = ctl.run
  OBVIOUS
<1>2. /\ ctl.at = "deliver" /\ ~broken /\ ctl \in Control /\ ctl.then \in {"replied", "claim"}
      /\ boxBroken = FALSE /\ box = boxDisk /\ ctl.items = {}
  <2>1. ctl.at = "deliver" /\ (ctl.items = {} \/ boxBroken)
    BY DEF DeliverDone, At
  <2>2. ctl.then # "idle" /\ ctl \in Control
    BY <2>1 DEF Inv, PlaceRight, TypesRight, Placed
  <2>3. ctl.then \in {"idle", "replied", "noticed", "claim"}
    BY <2>2 DEF Control
  <2> QED BY <2>1, <2>2, <2>3 DEF NewsRight, ReplyPlace, RepliesRight, Inv, BoxRight
<1>3. UNCHANGED <<disk, mem, broken, boxDisk, boxBroken, runs>>
  BY DEF DeliverDone, StoreIdle, store, outbox
<1>4. CASE ctl.then = "claim"
  <2>1. ctl' = [Idle EXCEPT !.at = "claim"]
    BY <1>2, <1>4 DEF DeliverDone
  <2>2. Silent(ctl')
    BY <2>1 DEF Silent, Idle
  <2> QED BY <1>2, <1>3, <2>2, SilentStep
<1>5. CASE ctl.then = "replied"
  <2>1. Holds(ctl) /\ Replying(ctl)
    BY <1>2, <1>5 DEF Holds, Replying
  <2>2. /\ Same(mem, disk) /\ r \in 1 .. Len(runs) /\ runs[r].occ = ctl.occ
    <3>1. ctl.run # 0
      BY <2>1 DEF Inv, PlaceRight, Placed, InHandRight
    <3> QED BY <1>1, <1>2, <2>1, <3>1, LastInHand
  <2>3. PICK verdict : verdict = IF DeliveredItem(Reply(r)) THEN "succeeded" ELSE "needs_review"
    OBVIOUS
  <2>4. ctl' = [SettleAs(verdict) EXCEPT !.items = {},
                  !.at = IF Heartbeat(ctl.occ) THEN "observe" ELSE "settle"]
    BY <1>1, <1>2, <1>5, <2>3 DEF DeliverDone
  <2>5. /\ ctl'.at = (IF Heartbeat(ctl.occ) THEN "observe" ELSE "settle")
        /\ ctl'.verdict = verdict /\ ctl'.run = r /\ ctl'.then = "replied"
    BY <1>1, <1>2, <1>5, <2>4 DEF SettleAs, Control
  <2>6. Leaves(disk, disk') /\ SameTexts
    BY <1>3 DEF Leaves, JobsStay, NoneClaimed, BoundStay, SameTexts
  <2>7. OneClaim' /\ RepliesRight'
    BY <1>3, <2>6, LeavesReplies DEF NewsRight
  <2>8. \A q \in 1 .. Len(runs) : ~Waits(q)'
    BY <1>2, <1>3 DEF Waits, Entered, NewsRight, ReplyPlace
  <2>9. ToldBy(r) => verdict = "succeeded"
    BY <1>2, <2>3 DEF ToldBy, DeliveredItem
  <2>10. Tells(JobOfRun(r)) => Heartbeat(ctl.occ)
    BY <2>2 DEF Tells, JobOfRun, Heartbeat, Known, JobRec, Same, Has
  <2>11. /\ ToldBy(r)' <=> ToldBy(r)
         /\ Tells(JobOfRun(r))' <=> Tells(JobOfRun(r))
    BY <1>3 DEF ToldBy, Tells, JobOfRun
  <2> QED BY <1>3, <2>5, <2>7, <2>8, <2>9, <2>10, <2>11 DEF ReplyPlace, NewsRight
<1> QED BY <1>2, <1>4, <1>5

(* A told reply becomes the version last seen; nothing else does.             *)
LEMMA ObserveNews ==
  ASSUME Steady, Inv, NewsRight, ObserveResult
  PROVE  NewsRight'
<1>1. PICK r : r = ctl.run
  OBVIOUS
<1>2. PICK text : text = IF ctl.run = 0 THEN NoText ELSE runs[ctl.run].text
  OBVIOUS
<1>3. PICK update : update = (ctl.verdict = "succeeded")
  OBVIOUS
<1> DEFINE l == [type |-> "occurrence.observed", occ |-> ctl.occ, text |-> text,
                 update |-> update]
           m == IF update THEN [mem EXCEPT !.jobs[JobOf(ctl.occ)].seen = text] ELSE mem
<1>4. /\ Log(l, m, SettleAs(ctl.verdict)) /\ Others /\ ctl.at = "observe" /\ Holds(ctl)
      /\ l.type = "occurrence.observed" /\ l.occ = ctl.occ /\ l.text = text /\ l.update = update
  BY <1>2, <1>3 DEF ObserveResult, At, Holds
<1>5. /\ ctl \in Control /\ ctl.then # "noticed" /\ torn = FALSE /\ WellFormed(disk)
      /\ Len(runs) \in Nat /\ boxBroken = FALSE
      /\ \A q \in 1 .. Len(runs) : ~Waits(q) /\ JobOfRun(q) \in DOMAIN disk.jobs
  BY <1>4, Basics DEF NewsRight, ReplyPlace, RepliesRight
<1>6. UNCHANGED <<boxDisk, boxBroken, runs>>
  BY <1>4 DEF Others, outbox
<1>7. ctl' = SettleAs(ctl.verdict) \/ ctl' = Halted
  BY <1>4 DEF Log
<1>8. (~broken /\ disk' = Written(l) /\ disk' = Replay(disk, l)) \/ disk' = disk
  BY <1>4, <1>5 DEF Log, Appended, AppendFails, Written
<1>9. ~broken => /\ Same(mem, disk) /\ ctl.occ \in DOMAIN disk.occs
                 /\ r # 0 => r = Len(runs) /\ r \in 1 .. Len(runs) /\ runs[r].occ = ctl.occ
  BY <1>1, <1>4, LastInHand
<1> HIDE DEF l, m
<1>10. ~update => Replay(disk, l) = disk
  BY <1>4, <1>5, ReplayObserved
<1>11. ASSUME disk' = disk PROVE OneClaim' /\ RepliesRight'
  <2>1. Leaves(disk, disk') /\ SameTexts
    BY <1>6, <1>11 DEF Leaves, JobsStay, NoneClaimed, BoundStay, SameTexts
  <2> QED BY <1>6, <2>1, LeavesReplies DEF NewsRight
<1>12. ASSUME ~broken, update, disk' = Replay(disk, l)
       PROVE  OneClaim' /\ RepliesRight' /\ Seen(r)'
  <2>1. /\ r = Len(runs) /\ r \in 1 .. Len(runs) /\ runs[r].occ = ctl.occ
        /\ ToldBy(r) /\ text = runs[r].text
    <3>1. r # 0
      BY <1>1, <1>3, <1>4, <1>12 DEF Inv, PlaceRight, Placed, InHandRight
    <3>2. Told(r)
      BY <1>1, <1>3, <1>4, <1>12 DEF Inv, AccountRight, Steady
    <3> QED BY <1>1, <1>2, <1>9, <1>12, <3>1, <3>2 DEF Told, ToldBy
  <2> DEFINE j == JobOf(runs[r].occ)
  <2>2. j \in DOMAIN disk.jobs
    BY <1>5, <2>1 DEF JobOfRun
  <2>3. disk' = JobPut(disk, j, [disk.jobs[j] EXCEPT !.seen = text])
    BY <1>4, <1>5, <1>9, <1>12, <2>1, <2>2, ReplayObserved DEF Has
  <2>4. /\ disk'.occs = disk.occs
        /\ disk'.jobs = With(disk.jobs, j, [disk.jobs[j] EXCEPT !.seen = text])
    BY <2>3 DEF JobPut
  <2>5. disk.jobs[j] \in Job
    BY <1>5, <2>2 DEF WellFormed
  <2>6. /\ [disk.jobs[j] EXCEPT !.seen = text].notify = disk.jobs[j].notify
        /\ [disk.jobs[j] EXCEPT !.seen = text].seen = text
    BY <2>5 DEF Job
  <2>7. /\ DOMAIN disk'.jobs = DOMAIN disk.jobs /\ disk'.jobs[j].seen = text
        /\ \A i \in DOMAIN disk.jobs : disk'.jobs[i].notify = disk.jobs[i].notify
        /\ \A i \in DOMAIN disk.jobs : i # j => disk'.jobs[i].seen = disk.jobs[i].seen
    BY <2>2, <2>4, <2>6 DEF With
  <2>8. \A q : /\ Entered(q)' <=> Entered(q)
               /\ Waits(q)' <=> Waits(q)
               /\ ToldBy(q)' <=> ToldBy(q)
               /\ JobOfRun(q)' = JobOfRun(q)
               /\ Unjudged(q)' <=> Unjudged(q)
    BY <1>6, <2>4 DEF Entered, Waits, ToldBy, JobOfRun, Unjudged
  <2>9. \A q \in 1 .. Len(runs) : /\ Tells(JobOfRun(q))' <=> Tells(JobOfRun(q))
                                  /\ JobOfRun(q) # j => (Seen(q)' <=> Seen(q))
    BY <1>5, <1>6, <2>7 DEF Tells, Seen, JobOfRun, Has
  <2>10. Seen(r)' /\ JobOfRun(r) = j
    BY <1>6, <2>1, <2>7 DEF Seen, JobOfRun
  <2> HIDE DEF j
  <2>11. \A q : LatestTold(q)' <=> LatestTold(q)
    BY <1>6, <2>8 DEF LatestTold
  <2>12. \A p, q : OtherBetween(p, q)' <=> OtherBetween(p, q)
    BY <1>6, <2>8 DEF OtherBetween
  <2>13. ASSUME NEW q \in 1 .. Len(runs)
         PROVE  /\ Entered(q)' => runs'[q].text # NoText
                /\ ~Waits(q)'
                /\ ToldBy(q)' /\ LatestTold(q)' /\ Tells(JobOfRun(q))' => Seen(q)' \/ Unjudged(q)'
    <3>1. Entered(q)' => runs'[q].text # NoText
      BY <1>6, <2>8 DEF NewsRight, RepliesRight
    <3>2. CASE JobOfRun(q) # j
      BY <1>5, <2>8, <2>9, <2>11, <3>1, <3>2 DEF NewsRight, RepliesRight
    <3>3. CASE JobOfRun(q) = j
      <4>1. LatestTold(q) => q = r
        BY <1>5, <2>1, <2>10, <3>3 DEF LatestTold
      <4> QED BY <1>5, <2>8, <2>10, <2>11, <3>1, <4>1
    <3> QED BY <3>2, <3>3
  <2>14. ASSUME NEW p \in 1 .. Len(runs), NEW q \in 1 .. Len(runs),
                p < q, JobOfRun(p) = JobOfRun(q), Tells(JobOfRun(p))',
                ToldBy(p)', ToldBy(q)' \/ Waits(q)', runs[p].text = runs[q].text
         PROVE  OtherBetween(p, q)'
    BY <2>8, <2>9, <2>12, <2>14 DEF NewsRight, RepliesRight
  <2>15. RepliesRight'
    BY <1>5, <1>6, <2>8, <2>13, <2>14 DEF RepliesRight
  <2>16. OneClaim'
    BY <1>6, <2>4 DEF NewsRight, OneClaim, ClaimedIn
  <2> QED BY <2>10, <2>15, <2>16
<1>13. OneClaim' /\ RepliesRight'
  BY <1>3, <1>8, <1>10, <1>11, <1>12
<1>14. CASE ctl' = Halted
  <2>1. Silent(ctl')
    BY <1>14 DEF Silent, Halted, Idle
  <2> QED BY <1>13, <2>1, SilentPlace DEF NewsRight
<1>15. CASE Appended(l) /\ ctl' = SettleAs(ctl.verdict)
  <2>1. ~broken /\ disk' = Replay(disk, l)
    BY <1>5, <1>15 DEF Appended, Written
  <2>2. ctl'.at = "settle" /\ ctl'.run = r /\ ctl'.then = ctl.then
    BY <1>1, <1>5, <1>15 DEF SettleAs, Control
  <2>3. \A q \in 1 .. Len(runs) : ~Waits(q)'
    BY <1>5, <1>6 DEF Waits, Entered
  <2>4. r # 0 /\ ToldBy(r)' /\ Tells(JobOfRun(r))' => Seen(r)'
    <3>1. CASE update
      BY <1>12, <2>1, <3>1
    <3>2. CASE ~update
      <4>1. disk' = disk
        BY <1>10, <2>1, <3>2
      <4>2. /\ ToldBy(r)' <=> ToldBy(r)
            /\ Tells(JobOfRun(r))' <=> Tells(JobOfRun(r))
            /\ Seen(r)' <=> Seen(r)
        BY <1>6, <4>1 DEF ToldBy, Tells, JobOfRun, Seen
      <4>3. r # 0 /\ ToldBy(r) /\ Tells(JobOfRun(r)) => Seen(r)
        BY <1>1, <1>3, <1>4, <3>2 DEF NewsRight, ReplyPlace
      <4> QED BY <4>2, <4>3
    <3> QED BY <3>1, <3>2
  <2> QED BY <1>5, <1>6, <1>13, <2>2, <2>3, <2>4 DEF ReplyPlace, NewsRight
<1> QED BY <1>4, <1>14, <1>15 DEF Log

(* What is settled has told nothing that was not seen.                        *)
LEMMA SettleNews ==
  ASSUME Steady, Inv, NewsRight, Settle
  PROVE  NewsRight'
<1> DEFINE o == ctl.occ
           l == [type |-> "occurrence.settled", occ |-> o, outcome |-> ctl.verdict]
           m == Settled(ctl.occ, ctl.verdict)
           c == [Idle EXCEPT !.at = ctl.back, !.occs = ctl.occs]
<1>1. /\ Log(l, m, c) /\ Others /\ ctl.at = "settle" /\ Holds(ctl)
      /\ l.type = "occurrence.settled" /\ l.occ = o
  BY DEF Settle, At, Holds
<1>2. /\ ctl \in Control /\ torn = FALSE /\ WellFormed(disk) /\ Len(runs) \in Nat
      /\ \A q \in 1 .. Len(runs) : ~Waits(q) /\ JobOfRun(q) \in DOMAIN disk.jobs
  BY <1>1, Basics DEF NewsRight, ReplyPlace
<1>3. UNCHANGED <<boxDisk, boxBroken, runs>> /\ SameTexts
  BY <1>1 DEF Others, outbox, SameTexts
<1>4. Silent(c)
  BY <1>2 DEF Silent, Idle, Control
<1> HIDE DEF l, m, c, o
<1>5. Silent(ctl')
  BY <1>1, <1>4 DEF Log, Silent, Halted, Idle
<1>6. CASE disk' = disk
  <2>1. Leaves(disk, disk')
    BY <1>6 DEF Leaves, JobsStay, NoneClaimed, BoundStay
  <2>2. OneClaim' /\ RepliesRight'
    BY <1>3, <2>1, LeavesReplies DEF NewsRight
  <2> QED BY <1>5, <2>2, SilentPlace DEF NewsRight
<1>7. CASE ~broken /\ disk' = Replay(disk, l)
  <2>1. PICK r : r = ctl.run
    OBVIOUS
  <2>2. /\ o \in DOMAIN disk.occs
        /\ \A q \in 1 .. Len(runs) : Unjudged(q) => q = r /\ q # 0
    BY <1>1, <1>7, <2>1, LastInHand DEF o
  <2>3. disk' = OccPut(disk, o, OccLine(disk.occs[o], l))
    BY <1>1, <1>2, <1>7, <2>2, ReplayOcc DEF OccTypes, Has
  <2>4. disk'.jobs = disk.jobs /\ disk'.occs = With(disk.occs, o, OccLine(disk.occs[o], l))
    BY <2>3 DEF OccPut
  <2>5. OccLine(disk.occs[o], l).state = "settled"
    <3>1. OccLine(disk.occs[o], l)
            = [disk.occs[o] EXCEPT !.state = "settled", !.outcome = l.outcome]
      BY <1>1 DEF OccLine
    <3>2. disk.occs[o] \in Occurrence
      BY <1>2, <2>2 DEF WellFormed
    <3> QED BY <3>1, <3>2 DEF Occurrence
  <2>6. NoneClaimed(disk, disk') /\ JobsStay(disk, disk')
    BY <2>4, <2>5 DEF NoneClaimed, JobsStay, ClaimedIn, With
  <2>7. \A q \in 1 .. Len(runs) :
          Unjudged(q) => ~Waits(q) /\ (ToldBy(q) /\ Tells(JobOfRun(q)) => Seen(q))
    BY <1>1, <1>2, <2>1, <2>2 DEF NewsRight, ReplyPlace
  <2>8. RepliesRight'
    BY <1>2, <1>3, <2>6, <2>7, RepliesStay DEF NewsRight
  <2>9. OneClaim'
    BY <1>3, <2>6, ClaimStays DEF NewsRight
  <2> QED BY <1>5, <2>8, <2>9, SilentPlace DEF NewsRight
<1>8. disk' = disk \/ (~broken /\ disk' = Replay(disk, l))
  BY <1>1, <1>2 DEF Log, Appended, AppendFails, Written
<1> QED BY <1>6, <1>7, <1>8

(* Every step keeps the replies right.                                        *)
LEMMA NewsStep ==
  ASSUME Steady, Inv, NewsRight, [Next]_vars
  PROVE  NewsRight'
<1>1. CASE RecoverStep
  BY <1>1, RedispatchNews, RecoveryNews, RecoveredNews DEF RecoverStep
<1>2. CASE DeliverStep
  BY <1>2, PublishNews, DeliveredNews DEF DeliverStep
<1>3. CASE ClaimStep
  BY <1>3, ProcessNews, CleanNews, ClaimNews DEF ClaimStep
<1>4. CASE TurnStep
  <2>1. ~TurnFails /\ ~Failed
    BY DEF TurnFails, Failed, At, Steady, NewsRight, ReplyPlace
  <2> QED BY <1>4, <2>1, OpenNews, TurnsNews, SpeakNews DEF TurnStep
<1>5. CASE TailStep
  BY <1>5, EnqueueNews, ObserveNews, SettleNews DEF TailStep
<1>6. CASE UNCHANGED vars
  <2>1. UNCHANGED <<disk, broken, boxDisk, boxBroken, runs, ctl>>
    BY <1>6 DEF vars, store, outbox
  <2> QED BY <2>1 DEF NewsRight, OneClaim, RepliesRight, ReplyPlace, ClaimedIn, Entered, Waits,
             ToldBy, Seen, Tells, JobOfRun, Unjudged, LatestTold, OtherBetween
<1> QED BY <1>1, <1>2, <1>3, <1>4, <1>5, <1>6, CommandsNews, CommandStepsNews, SweepNews,
           ProcessNews DEF Next

(* At the start nothing was said.                                             *)
LEMMA NewsStart ==
  ASSUME Init
  PROVE  NewsRight
<1>1. Len(runs) = 0 /\ ctl.at = "idle" /\ ctl.then = "idle" /\ ClaimedIn(disk) = {}
  BY DEF Init, Idle, Blank, Empty, ClaimedIn
<1> QED BY <1>1 DEF Init, NewsRight, OneClaim, RepliesRight, ReplyPlace

(* A heartbeat job does not repeat itself: of two deliveries with the same    *)
(* reply one with another lies in between, whatever crashes come, whatever    *)
(* appends to the account fail and whoever tampers with the files, as long as *)
(* no line is torn, the outbox and the turns work and no update changes who   *)
(* is told.                                                                   *)
THEOREM RepeatsQuiet ==
  ASSUME Steady
  PROVE  Spec => []RepeatsAreQuiet
<1>1. Init => Inv /\ NewsRight
  BY InitRight, NewsStart
<1>2. Inv /\ NewsRight /\ [Next]_vars => Inv' /\ NewsRight'
  BY InvStep, NewsStep
<1>3. ASSUME NewsRight PROVE RepeatsAreQuiet
  <2>1. ASSUME NEW q \in 1 .. Len(runs), NEW r \in 1 .. Len(runs),
               q < r, JobOf(runs[q].occ) = JobOf(runs[r].occ), ToldBy(q), ToldBy(r),
               runs[q].text = runs[r].text,
               Has(disk.jobs, JobOf(runs[q].occ)), disk.jobs[JobOf(runs[q].occ)].notify
        PROVE  \E m \in q + 1 .. r - 1 :
                 /\ ToldBy(m) /\ JobOf(runs[m].occ) = JobOf(runs[q].occ)
                 /\ runs[m].text # runs[q].text
    <3>1. OtherBetween(q, r)
      BY <1>3, <2>1 DEF NewsRight, RepliesRight, JobOfRun, Tells
    <3> QED BY <3>1 DEF OtherBetween, JobOfRun
  <2> QED BY <2>1 DEF RepeatsAreQuiet
<1> QED BY <1>1, <1>2, <1>3, PTL DEF Spec

-----------------------------------------------------------------------------
(* The slots of a job and the occurrences that stand for them, in a           *)
(* projection p.  A missed slot is counted by a pair, so that adding to a     *)
(* count is adding to a set.                                                  *)
OwnIn(p, j) == {o \in DOMAIN p.occs : JobOf(o) = j}
MissedBy(p, o) == {o} \X (1 .. p.occs[o].missed)
MissedIn(p, j) == UNION {MissedBy(p, o) : o \in OwnIn(p, j)}
Stands(b, o) == SlotOf(o) > b.anchor /\ IsSlot(b, SlotOf(o))
OnSlotIn(p, j) == {o \in OwnIn(p, j) : Stands(p.jobs[j], o)}
CountedIn(p, j) == Cardinality(MissedIn(p, j)) + Cardinality(OnSlotIn(p, j))
PassedIn(p, j) == {t \in p.jobs[j].anchor + 1 .. p.jobs[j].cursor : IsSlot(p.jobs[j], t)}
AheadIn(p, j) == {o \in OwnIn(p, j) : SlotOf(o) > p.jobs[j].cursor}
CoalescingIn(p) == {j \in DOMAIN p.jobs : p.jobs[j].misfire = "coalesce"
                                            /\ p.jobs[j].kind = "interval"}
RevOf(o) == o[2]
Lapsed(b, t) == b.deadline > 0 /\ t >= b.deadline
Aside(b, o, t) == Lapsed(b, t) \/ RevOf(o) < b.rev

(* From its turn in a sweep to the end of the tick a job is swept.  Between   *)
(* the two lines of its turn slots are counted that are not yet passed.       *)
Early == {"idle", "commands", "first", "cancel", "halted", "down"}
Swept(c, j) == c.at \notin Early /\ (c.at \in {"sweep", "advance"} => j \notin c.jobs)
Advancing(c, j) == c.at = "advance" /\ c.job = j
StillDue(p, c, t, j) == IF Advancing(c, j) THEN Cardinality(DueIn(p.jobs[j], t)) ELSE 0

JobRight(p, j) ==
  /\ p.jobs[j].state = "active" /\ p.jobs[j].anchor <= p.jobs[j].cursor
  /\ IsFiniteSet(MissedIn(p, j)) /\ IsFiniteSet(OnSlotIn(p, j))
  /\ \A o \in OwnIn(p, j) : RevOf(o) <= p.jobs[j].rev
CountRight(p, c, t, n, j) ==
  LET due == Cardinality(PassedIn(p, j)) + StillDue(p, c, t, j)
  IN  /\ CountedIn(p, j) >= due
      /\ n = 0 /\ c.at # "halted" => CountedIn(p, j) = due
(* An occurrence ahead of its job's cursor was made by a sweep that did not   *)
(* come to its second line: it waits and no other of the job is claimed, until*)
(* the next sweep takes it up; unless the job's time is over, or an update    *)
(* changed the name its slot has for the sweep.                               *)
AheadRight(p, c, t, j) ==
  \A o \in AheadIn(p, j) :
    /\ SlotOf(o) <= t /\ IsSlot(p.jobs[j], SlotOf(o))
    /\ \/ Aside(p.jobs[j], o, t)
       \/ /\ ~Swept(c, j) /\ p.occs[o].state = "scheduled"
          /\ \A q \in OwnIn(p, j) : p.occs[q].state # "claimed"
SlotsOfJob(p, c, t, n, j) == JobRight(p, j) /\ CountRight(p, c, t, n, j) /\ AheadRight(p, c, t, j)
SlotsKept(p, c, t, n) ==
  IsFiniteSet(DOMAIN p.occs) /\ \A j \in CoalescingIn(p) : SlotsOfJob(p, c, t, n, j)

SlotsRight ==
  /\ ctl.at # "cancel" /\ (ctl.at = "down" => crashes # 0)
  /\ ctl.at = "first" => mem.jobs[ctl.job].kind = "once"
  /\ SlotsKept(disk, ctl, now, crashes)

(* What can lose a slot or count it twice by itself is left out: a line that  *)
(* is lost, a clock that is set back, commands that run a job or stop it, and *)
(* updates by which a job comes to coalesce or changes its schedule.          *)
EndsCoalescing(p) ==
  \/ "misfire" \in DOMAIN p /\ p.misfire # "coalesce"
  \/ "kind" \in DOMAIN p /\ p.kind # "interval"
Undisturbed ==
  /\ ~TornTails /\ ~Backwards /\ Verbs \subseteq {1, 3}
  /\ \A p \in Patches : EndsCoalescing(p) \/ DOMAIN p \subseteq {"due", "notify", "deadline"}

SameJob(b, d) ==
  /\ d.kind = b.kind /\ d.period = b.period /\ d.anchor = b.anchor /\ d.misfire = b.misfire
  /\ d.deadline = b.deadline /\ d.state = b.state /\ d.rev = b.rev
SameCounts(p, q, j) ==
  /\ OwnIn(q, j) = OwnIn(p, j)
  /\ \A o \in OwnIn(p, j) : q.occs[o].missed = p.occs[o].missed
SameFor(p, q, j) ==
  /\ j \in DOMAIN p.jobs /\ j \in DOMAIN q.jobs
  /\ SameJob(p.jobs[j], q.jobs[j]) /\ q.jobs[j].cursor = p.jobs[j].cursor
  /\ SameCounts(p, q, j)
SameStates(p, q, j) == \A o \in OwnIn(p, j) : q.occs[o].state = p.occs[o].state

(* Places after the sweep, where every job is swept.                          *)
Beyond(c) == c.at \notin Early \cup {"sweep", "advance"}
(* Lines that concern neither slots nor counts.                               *)
NoteTypes == {"occurrence.claimed", "occurrence.bound", "occurrence.settled",
              "occurrence.redispatched", "occurrence.observed"}
(* A function and what a line about x makes of it.                            *)
OnlyAt(x, f, g) == g = f \/ \E b : g = With(f, x, b)

(* Slots are slots of the schedule,                                           *)
LEMMA SlotsOfSame ==
  ASSUME NEW b, NEW d, SameJob(b, d)
  PROVE  \A t : IsSlot(d, t) = IsSlot(b, t)
BY DEF SameJob, IsSlot

(* ... and are counted alike where schedule, occurrences and counts are.      *)
LEMMA CountsOfSame ==
  ASSUME NEW p, NEW q, NEW j, SameFor(p, q, j)
  PROVE  /\ OwnIn(q, j) = OwnIn(p, j)
         /\ MissedIn(q, j) = MissedIn(p, j) /\ OnSlotIn(q, j) = OnSlotIn(p, j)
         /\ CountedIn(q, j) = CountedIn(p, j)
         /\ PassedIn(q, j) = PassedIn(p, j) /\ AheadIn(q, j) = AheadIn(p, j)
         /\ \A t : DueIn(q.jobs[j], t) = DueIn(p.jobs[j], t)
         /\ \A t : Lapsed(q.jobs[j], t) <=> Lapsed(p.jobs[j], t)
         /\ j \in CoalescingIn(q) <=> j \in CoalescingIn(p)
<1>1. \A t : IsSlot(q.jobs[j], t) = IsSlot(p.jobs[j], t)
  BY SlotsOfSame DEF SameFor
<1>2. OwnIn(q, j) = OwnIn(p, j) /\ SameJob(p.jobs[j], q.jobs[j])
  BY DEF SameFor, SameCounts
<1>3. \A o \in OwnIn(p, j) : MissedBy(q, o) = MissedBy(p, o)
  BY DEF SameFor, SameCounts, MissedBy
<1>4. MissedIn(q, j) = MissedIn(p, j)
  BY <1>2, <1>3 DEF MissedIn
<1>5. \A o : Stands(q.jobs[j], o) <=> Stands(p.jobs[j], o)
  BY <1>1, <1>2 DEF Stands, SameJob
<1>6. OnSlotIn(q, j) = OnSlotIn(p, j)
  BY <1>2, <1>5 DEF OnSlotIn
<1>7. PassedIn(q, j) = PassedIn(p, j)
  BY <1>1, <1>2 DEF PassedIn, SameJob, SameFor
<1>8. AheadIn(q, j) = AheadIn(p, j)
  BY <1>2 DEF AheadIn, SameFor
<1>9. \A t : DueIn(q.jobs[j], t) = DueIn(p.jobs[j], t)
  BY <1>1 DEF DueIn, SameFor
<1>10. \A t : Lapsed(q.jobs[j], t) <=> Lapsed(p.jobs[j], t)
  BY <1>2 DEF Lapsed, SameJob
<1>11. j \in CoalescingIn(q) <=> j \in CoalescingIn(p)
  BY <1>2 DEF CoalescingIn, SameFor, SameJob
<1>12. CountedIn(q, j) = CountedIn(p, j)
  BY <1>4, <1>6 DEF CountedIn
<1> QED BY <1>2, <1>4, <1>6, <1>7, <1>8, <1>9, <1>10, <1>11, <1>12

(* The sets that are counted are finite.                                      *)
LEMMA CountsAreNat ==
  ASSUME NEW p, WellFormed(p), NEW j \in DOMAIN p.jobs, NEW t \in Nat
  PROVE  /\ IsFiniteSet(DueIn(p.jobs[j], t)) /\ Cardinality(DueIn(p.jobs[j], t)) \in Nat
         /\ IsFiniteSet(PassedIn(p, j)) /\ Cardinality(PassedIn(p, j)) \in Nat
         /\ IsFiniteSet(MissedIn(p, j)) => Cardinality(MissedIn(p, j)) \in Nat
         /\ IsFiniteSet(OnSlotIn(p, j)) => Cardinality(OnSlotIn(p, j)) \in Nat
         /\ \A c : StillDue(p, c, t, j) \in Nat
<1>1. p.jobs[j].cursor \in Nat /\ p.jobs[j].anchor \in Nat
  BY DEF WellFormed, Job
<1>2. /\ DueIn(p.jobs[j], t) \subseteq p.jobs[j].cursor + 1 .. t
      /\ PassedIn(p, j) \subseteq p.jobs[j].anchor + 1 .. p.jobs[j].cursor
  BY DEF DueIn, PassedIn
<1>3. IsFiniteSet(p.jobs[j].cursor + 1 .. t)
  <2>1. p.jobs[j].cursor + 1 \in Int /\ t \in Int
    BY <1>1
  <2> QED BY <2>1, FS_Interval
<1>4. IsFiniteSet(p.jobs[j].anchor + 1 .. p.jobs[j].cursor)
  <2>1. p.jobs[j].anchor + 1 \in Int /\ p.jobs[j].cursor \in Int
    BY <1>1
  <2> QED BY <2>1, FS_Interval
<1>5. IsFiniteSet(DueIn(p.jobs[j], t)) /\ IsFiniteSet(PassedIn(p, j))
  BY <1>2, <1>3, <1>4, FS_Subset
<1> QED BY <1>5, FS_CardinalityType DEF StillDue

(* What of a job stays as it is stays right, wherever the tick goes but past  *)
(* the job's turn in the sweep.                                               *)
LEMMA JobStays ==
  ASSUME NEW p, NEW q, WellFormed(p), NEW j, SameFor(p, q, j),
         NEW c, NEW d, NEW t \in Nat, NEW u \in Nat, NEW n, NEW k, SlotsOfJob(p, c, t, n, j),
         t <= u,
         \/ /\ Advancing(d, j) <=> Advancing(c, j)
            /\ Advancing(c, j) => u = t
            /\ k = 0 /\ d.at # "halted" => n = 0 /\ c.at # "halted"
         \/ ~Advancing(d, j) /\ (k # 0 \/ d.at = "halted"),
         \/ SameStates(p, q, j) /\ (Swept(d, j) => Swept(c, j))
         \/ \A o \in AheadIn(p, j) : Aside(p.jobs[j], o, t)
  PROVE  SlotsOfJob(q, d, u, k, j)
<1>1. /\ OwnIn(q, j) = OwnIn(p, j)
      /\ MissedIn(q, j) = MissedIn(p, j) /\ OnSlotIn(q, j) = OnSlotIn(p, j)
      /\ CountedIn(q, j) = CountedIn(p, j)
      /\ PassedIn(q, j) = PassedIn(p, j) /\ AheadIn(q, j) = AheadIn(p, j)
      /\ DueIn(q.jobs[j], u) = DueIn(p.jobs[j], u)
      /\ Lapsed(q.jobs[j], u) <=> Lapsed(p.jobs[j], u)
  BY CountsOfSame
<1>2. j \in DOMAIN p.jobs /\ SameJob(p.jobs[j], q.jobs[j])
      /\ q.jobs[j].cursor = p.jobs[j].cursor /\ p.jobs[j] \in Job
  BY DEF SameFor, WellFormed
<1>3. JobRight(q, j)
  BY <1>1, <1>2 DEF SlotsOfJob, JobRight, SameJob
<1>4. CountRight(q, d, u, k, j)
  <2>1. /\ Cardinality(PassedIn(p, j)) \in Nat /\ StillDue(p, c, t, j) \in Nat
        /\ Cardinality(MissedIn(p, j)) \in Nat /\ Cardinality(OnSlotIn(p, j)) \in Nat
    BY <1>2, CountsAreNat DEF SlotsOfJob, JobRight
  <2>2. CountedIn(p, j) \in Nat
    BY <2>1 DEF CountedIn
  <2>3. CASE /\ Advancing(d, j) <=> Advancing(c, j)
             /\ Advancing(c, j) => u = t
             /\ k = 0 /\ d.at # "halted" => n = 0 /\ c.at # "halted"
    <3>1. StillDue(q, d, u, j) = StillDue(p, c, t, j)
      BY <1>1, <2>3 DEF StillDue
    <3> QED BY <1>1, <2>3, <3>1 DEF SlotsOfJob, CountRight
  <2>4. CASE ~Advancing(d, j) /\ (k # 0 \/ d.at = "halted")
    <3>1. StillDue(q, d, u, j) = 0
      BY <2>4 DEF StillDue
    <3> QED BY <1>1, <2>1, <2>2, <2>4, <3>1 DEF SlotsOfJob, CountRight
  <2> QED BY <2>3, <2>4
<1>5. AheadRight(q, d, u, j)
  <2>1. ASSUME NEW o \in AheadIn(p, j)
        PROVE  /\ SlotOf(o) <= u /\ IsSlot(q.jobs[j], SlotOf(o))
               /\ \/ Aside(q.jobs[j], o, u)
                  \/ /\ ~Swept(d, j) /\ q.occs[o].state = "scheduled"
                     /\ \A x \in OwnIn(q, j) : q.occs[x].state # "claimed"
    <3>1. /\ SlotOf(o) <= t /\ IsSlot(p.jobs[j], SlotOf(o))
          /\ \/ Aside(p.jobs[j], o, t)
             \/ /\ ~Swept(c, j) /\ p.occs[o].state = "scheduled"
                /\ \A x \in OwnIn(p, j) : p.occs[x].state # "claimed"
      BY DEF SlotsOfJob, AheadRight
    <3>2. SlotOf(o) \in Nat /\ o \in OwnIn(p, j)
      BY DEF AheadIn, OwnIn, WellFormed, Occs, SlotOf
    <3>3. IsSlot(q.jobs[j], SlotOf(o))
      BY <1>2, <3>1, SlotsOfSame
    <3>4. Aside(p.jobs[j], o, t) => Aside(q.jobs[j], o, u)
      BY <1>2 DEF Aside, Lapsed, Job, SameJob
    <3>5. CASE Aside(p.jobs[j], o, t)
      BY <1>1, <3>1, <3>2, <3>3, <3>4, <3>5
    <3>6. CASE ~Aside(p.jobs[j], o, t)
      <4>1. SameStates(p, q, j) /\ (Swept(d, j) => Swept(c, j))
        BY <3>6
      <4> QED BY <1>1, <3>1, <3>2, <3>3, <3>6, <4>1 DEF SameStates
    <3> QED BY <3>5, <3>6
  <2> QED BY <1>1, <2>1 DEF AheadRight
<1> QED BY <1>3, <1>4, <1>5 DEF SlotsOfJob

(* A count raised by d adds d pairs.                                          *)
PairsOver(x, m, d) == {x} \X (m + 1 .. m + d)

(* ... where they are not yet there.                                          *)
LEMMA PairsAdded ==
  ASSUME NEW S, IsFiniteSet(S), NEW x, NEW m \in Nat, NEW d \in Nat,
         S \cap PairsOver(x, m, d) = {}
  PROVE  /\ IsFiniteSet(S \cup PairsOver(x, m, d))
         /\ Cardinality(S \cup PairsOver(x, m, d)) = Cardinality(S) + d
<1> DEFINE I == m + 1 .. m + d
           T == {x} \X I
<1>1. IsFiniteSet(I) /\ Cardinality(I) = d
  <2>1. m + 1 \in Int /\ m + d \in Int
    OBVIOUS
  <2>2. IsFiniteSet(I) /\ Cardinality(I) = IF m + 1 > m + d THEN 0 ELSE (m + d) - (m + 1) + 1
    BY <2>1, FS_Interval
  <2> QED BY <2>2
<1>2. IsFiniteSet({x}) /\ Cardinality({x}) = 1
  BY FS_Singleton
<1>3. IsFiniteSet(T) /\ Cardinality(T) = d
  <2>1. IsFiniteSet(T) /\ Cardinality(T) = Cardinality({x}) * Cardinality(I)
    <3> HIDE DEF I
    <3> QED BY <1>1, <1>2, FS_Product
  <2> HIDE DEF I, T
  <2> QED BY <1>1, <1>2, <2>1
<1>4. S \cap T = {} /\ T = PairsOver(x, m, d)
  BY DEF PairsOver
<1> HIDE DEF T
<1>5. Cardinality(S \cap T) = 0 /\ Cardinality(S) \in Nat
  BY <1>4, FS_EmptySet, FS_CardinalityType
<1>6. /\ IsFiniteSet(S \cup T)
      /\ Cardinality(S \cup T) = Cardinality(S) + Cardinality(T) - Cardinality(S \cap T)
  BY <1>3, FS_Union
<1> QED BY <1>3, <1>4, <1>5, <1>6

(* The slots due are merged into an occurrence that waits.                    *)
LEMMA MergedSlots ==
  ASSUME NEW p, WellFormed(p), NEW j \in DOMAIN p.jobs, NEW t \in Nat, NEW n,
         NEW c, c.at = "sweep", SlotsOfJob(p, c, t, n, j),
         NEW o \in OwnIn(p, j), NEW N, N = Cardinality(DueIn(p.jobs[j], t)),
         NEW q, q = OccPut(p, o, [p.occs[o] EXCEPT !.missed = p.occs[o].missed + N]),
         NEW d, d.at = "advance", d.job = j, j \in d.jobs
  PROVE  SlotsOfJob(q, d, t, n, j)
<1>1. o \in DOMAIN p.occs /\ p.occs[o] \in Occurrence /\ p.occs[o].missed \in Nat
  BY DEF OwnIn, WellFormed, Occurrence
<1>2. PICK m \in Nat : m = p.occs[o].missed
  BY <1>1
<1>3. N \in Nat
  BY CountsAreNat
<1>4. /\ q.jobs = p.jobs /\ OwnIn(q, j) = OwnIn(p, j)
      /\ \A x \in OwnIn(p, j) : x # o => q.occs[x] = p.occs[x]
      /\ \A x \in OwnIn(p, j) : q.occs[x].state = p.occs[x].state
      /\ q.occs[o].missed = m + N
  BY <1>1, <1>2 DEF OccPut, With, OwnIn, Occurrence
<1>5. MissedIn(q, j) = MissedIn(p, j) \cup PairsOver(o, m, N)
  <2>1. MissedBy(q, o) = MissedBy(p, o) \cup PairsOver(o, m, N)
    <3>1. 1 .. m + N = (1 .. m) \cup (m + 1 .. m + N)
      BY <1>3
    <3> QED BY <1>2, <1>4, <3>1 DEF MissedBy, PairsOver
  <2>2. \A x \in OwnIn(p, j) : x # o => MissedBy(q, x) = MissedBy(p, x)
    BY <1>4 DEF MissedBy
  <2> QED BY <1>4, <2>1, <2>2 DEF MissedIn
<1>6. MissedIn(p, j) \cap PairsOver(o, m, N) = {}
  <2>1. ASSUME NEW i \in m + 1 .. m + N, NEW x \in OwnIn(p, j), <<o, i>> \in MissedBy(p, x)
        PROVE  FALSE
    <3>1. x = o /\ i \in 1 .. p.occs[x].missed
      BY <2>1 DEF MissedBy
    <3> QED BY <1>2, <1>3, <2>1, <3>1
  <2> QED BY <2>1 DEF MissedIn, PairsOver
<1>7. /\ IsFiniteSet(MissedIn(q, j))
      /\ Cardinality(MissedIn(q, j)) = Cardinality(MissedIn(p, j)) + N
  <2>1. IsFiniteSet(MissedIn(p, j))
    BY DEF SlotsOfJob, JobRight
  <2> QED BY <1>3, <1>5, <1>6, <2>1, PairsAdded
<1>8. OnSlotIn(q, j) = OnSlotIn(p, j) /\ PassedIn(q, j) = PassedIn(p, j)
      /\ AheadIn(q, j) = AheadIn(p, j)
  BY <1>4 DEF OnSlotIn, PassedIn, AheadIn
<1>9. JobRight(q, j)
  BY <1>4, <1>7, <1>8 DEF SlotsOfJob, JobRight
<1>10. CountRight(q, d, t, n, j)
  <2>1. StillDue(p, c, t, j) = 0 /\ StillDue(q, d, t, j) = N
    BY <1>4 DEF StillDue, Advancing
  <2>2. /\ Cardinality(PassedIn(p, j)) \in Nat
        /\ Cardinality(MissedIn(p, j)) \in Nat /\ Cardinality(OnSlotIn(p, j)) \in Nat
    BY CountsAreNat DEF SlotsOfJob, JobRight
  <2>3. CountedIn(q, j) = CountedIn(p, j) + N /\ CountedIn(p, j) \in Nat
    BY <1>3, <1>7, <1>8, <2>2 DEF CountedIn
  <2>4. /\ CountedIn(p, j) >= Cardinality(PassedIn(p, j))
        /\ n = 0 => CountedIn(p, j) = Cardinality(PassedIn(p, j))
    BY <2>1, <2>2 DEF SlotsOfJob, CountRight
  <2> QED BY <1>3, <1>8, <2>1, <2>2, <2>3, <2>4 DEF CountRight
<1>11. AheadRight(q, d, t, j)
  <2>1. ~Swept(d, j)
    BY DEF Swept
  <2>2. \A x \in AheadIn(p, j) : x \in OwnIn(p, j)
    BY DEF AheadIn
  <2> QED BY <1>4, <1>8, <2>1, <2>2 DEF SlotsOfJob, AheadRight
<1> QED BY <1>9, <1>10, <1>11 DEF SlotsOfJob

(* An occurrence is made for one of the slots due, the others count as missed.*)
LEMMA MadeSlots ==
  ASSUME NEW p, WellFormed(p), NEW j \in DOMAIN p.jobs, NEW t \in Nat, NEW n,
         NEW c, c.at = "sweep", SlotsOfJob(p, c, t, n, j),
         \A x \in OwnIn(p, j) : p.occs[x].state # "claimed",
         NEW o, o \notin DOMAIN p.occs, JobOf(o) = j, SlotOf(o) \in DueIn(p.jobs[j], t),
         RevOf(o) = p.jobs[j].rev,
         NEW N, N = Cardinality(DueIn(p.jobs[j], t)), N - 1 \in Nat,
         NEW b, b.state = "scheduled", b.missed = N - 1,
         NEW q, q.jobs = p.jobs, q.occs = With(p.occs, o, b),
         NEW d, d.at = "advance", d.job = j, j \in d.jobs
  PROVE  SlotsOfJob(q, d, t, n, j)
<1>1. /\ OwnIn(q, j) = OwnIn(p, j) \cup {o} /\ o \notin OwnIn(p, j)
      /\ \A x \in OwnIn(p, j) : q.occs[x] = p.occs[x]
      /\ q.occs[o] = b
  BY DEF OwnIn, With
<1>2. /\ p.jobs[j].cursor \in Nat /\ p.jobs[j].anchor \in Nat
      /\ p.jobs[j].anchor <= p.jobs[j].cursor /\ N \in Nat
  BY CountsAreNat DEF WellFormed, Job, SlotsOfJob, JobRight
<1>3. SlotOf(o) > p.jobs[j].cursor /\ SlotOf(o) <= t /\ IsSlot(p.jobs[j], SlotOf(o))
      /\ SlotOf(o) \in Nat
  BY <1>2 DEF DueIn
<1>4. MissedIn(q, j) = MissedIn(p, j) \cup PairsOver(o, 0, N - 1)
  <2>1. MissedBy(q, o) = PairsOver(o, 0, N - 1)
    BY <1>1, <1>2 DEF MissedBy, PairsOver
  <2>2. \A x \in OwnIn(p, j) : MissedBy(q, x) = MissedBy(p, x)
    BY <1>1 DEF MissedBy
  <2> QED BY <1>1, <2>1, <2>2 DEF MissedIn
<1>5. MissedIn(p, j) \cap PairsOver(o, 0, N - 1) = {}
  <2>1. ASSUME NEW i, NEW x \in OwnIn(p, j), <<o, i>> \in MissedBy(p, x)
        PROVE  FALSE
    <3>1. x = o
      BY <2>1 DEF MissedBy
    <3> QED BY <1>1, <3>1
  <2> QED BY <2>1 DEF MissedIn, PairsOver
<1>6. /\ IsFiniteSet(MissedIn(q, j))
      /\ Cardinality(MissedIn(q, j)) = Cardinality(MissedIn(p, j)) + (N - 1)
  <2>1. IsFiniteSet(MissedIn(p, j)) /\ 0 \in Nat
    BY DEF SlotsOfJob, JobRight
  <2> QED BY <1>4, <1>5, <2>1, PairsAdded
<1>7. OnSlotIn(q, j) = OnSlotIn(p, j) \cup {o} /\ o \notin OnSlotIn(p, j)
  <2>1. Stands(p.jobs[j], o)
    BY <1>2, <1>3 DEF Stands
  <2> QED BY <1>1, <2>1 DEF OnSlotIn
<1>8. IsFiniteSet(OnSlotIn(q, j)) /\ Cardinality(OnSlotIn(q, j)) = Cardinality(OnSlotIn(p, j)) + 1
  BY <1>7, FS_AddElement DEF SlotsOfJob, JobRight
<1>9. PassedIn(q, j) = PassedIn(p, j)
  BY DEF PassedIn
<1>10. JobRight(q, j)
  <2>1. \A x \in OwnIn(q, j) : RevOf(x) <= q.jobs[j].rev
    BY <1>1 DEF SlotsOfJob, JobRight, WellFormed, Job
  <2> QED BY <1>6, <1>8, <2>1 DEF SlotsOfJob, JobRight
<1>11. CountRight(q, d, t, n, j)
  <2>1. StillDue(p, c, t, j) = 0 /\ StillDue(q, d, t, j) = N
    BY DEF StillDue, Advancing
  <2>2. /\ Cardinality(PassedIn(p, j)) \in Nat
        /\ Cardinality(MissedIn(p, j)) \in Nat /\ Cardinality(OnSlotIn(p, j)) \in Nat
    BY CountsAreNat DEF SlotsOfJob, JobRight
  <2>3. CountedIn(q, j) = CountedIn(p, j) + N /\ CountedIn(p, j) \in Nat
    BY <1>2, <1>6, <1>8, <2>2 DEF CountedIn
  <2>4. /\ CountedIn(p, j) >= Cardinality(PassedIn(p, j))
        /\ n = 0 => CountedIn(p, j) = Cardinality(PassedIn(p, j))
    BY <2>1, <2>2 DEF SlotsOfJob, CountRight
  <2> QED BY <1>2, <1>9, <2>1, <2>2, <2>3, <2>4 DEF CountRight
<1>12. AheadRight(q, d, t, j)
  <2>1. ASSUME NEW x \in AheadIn(q, j)
        PROVE  /\ SlotOf(x) <= t /\ IsSlot(p.jobs[j], SlotOf(x))
               /\ Aside(p.jobs[j], x, t) \/ q.occs[x].state = "scheduled"
    <3>1. CASE x = o
      BY <1>1, <1>3, <3>1
    <3>2. CASE x # o
      <4>1. x \in AheadIn(p, j) /\ q.occs[x] = p.occs[x]
        BY <1>1, <2>1, <3>2 DEF AheadIn
      <4> QED BY <4>1 DEF SlotsOfJob, AheadRight
    <3> QED BY <3>1, <3>2
  <2>2. ~Swept(d, j)
    BY DEF Swept
  <2>3. \A x \in OwnIn(q, j) : q.occs[x].state # "claimed"
    BY <1>1
  <2> QED BY <2>1, <2>2, <2>3 DEF AheadRight
<1> QED BY <1>10, <1>11, <1>12 DEF SlotsOfJob

(* The cursor passes the slots due.                                           *)
LEMMA AdvancedSlots ==
  ASSUME NEW p, WellFormed(p), NEW j \in DOMAIN p.jobs, NEW t \in Nat, NEW n,
         NEW c, Advancing(c, j), SlotsOfJob(p, c, t, n, j),
         NEW last \in DueIn(p.jobs[j], t), \A s \in DueIn(p.jobs[j], t) : s <= last,
         NEW q, q = JobPut(p, j, [p.jobs[j] EXCEPT !.cursor = last]),
         NEW d, d.at = "sweep"
  PROVE  SlotsOfJob(q, d, t, n, j)
<1>1. /\ p.jobs[j] \in Job /\ p.jobs[j].cursor \in Nat /\ p.jobs[j].anchor \in Nat
      /\ p.jobs[j].anchor <= p.jobs[j].cursor
  BY DEF WellFormed, Job, SlotsOfJob, JobRight
<1>2. last \in Nat /\ last > p.jobs[j].cursor /\ last <= t
  BY <1>1 DEF DueIn
<1>3. /\ q.occs = p.occs /\ q.jobs[j].cursor = last /\ SameJob(p.jobs[j], q.jobs[j])
  BY <1>1 DEF JobPut, With, SameJob, Job
<1>4. \A s : IsSlot(q.jobs[j], s) = IsSlot(p.jobs[j], s)
  BY <1>3, SlotsOfSame
<1>5. OwnIn(q, j) = OwnIn(p, j) /\ MissedIn(q, j) = MissedIn(p, j)
  BY <1>3 DEF OwnIn, MissedIn, MissedBy
<1>6. OnSlotIn(q, j) = OnSlotIn(p, j)
  BY <1>3, <1>4, <1>5 DEF OnSlotIn, Stands, SameJob
<1>7. PassedIn(q, j) = PassedIn(p, j) \cup DueIn(p.jobs[j], t)
  <2>1. PassedIn(q, j) = {s \in p.jobs[j].anchor + 1 .. last : IsSlot(p.jobs[j], s)}
    BY <1>3, <1>4 DEF PassedIn, SameJob
  <2> QED BY <1>1, <1>2, <2>1 DEF PassedIn, DueIn
<1>8. PassedIn(p, j) \cap DueIn(p.jobs[j], t) = {}
  BY <1>1 DEF PassedIn, DueIn
<1>9. Cardinality(PassedIn(q, j)) = Cardinality(PassedIn(p, j)) + Cardinality(DueIn(p.jobs[j], t))
  <2>1. PICK S, D : S = PassedIn(p, j) /\ D = DueIn(p.jobs[j], t)
    OBVIOUS
  <2>2. /\ IsFiniteSet(S) /\ IsFiniteSet(D)
        /\ Cardinality(S) \in Nat /\ Cardinality(D) \in Nat
    BY <2>1, CountsAreNat
  <2>3. Cardinality(S \cap D) = 0
    BY <1>8, <2>1, FS_EmptySet
  <2>4. Cardinality(S \cup D) = Cardinality(S) + Cardinality(D) - Cardinality(S \cap D)
    BY <2>2, FS_Union
  <2>5. Cardinality(S \cup D) = Cardinality(S) + Cardinality(D)
    BY <2>2, <2>3, <2>4
  <2> QED BY <1>7, <2>1, <2>5
<1>10. JobRight(q, j)
  BY <1>1, <1>2, <1>3, <1>5, <1>6 DEF SlotsOfJob, JobRight, SameJob
<1>11. CountRight(q, d, t, n, j)
  <2>1. StillDue(p, c, t, j) = Cardinality(DueIn(p.jobs[j], t)) /\ StillDue(q, d, t, j) = 0
        /\ c.at = "advance"
    BY DEF StillDue, Advancing
  <2>2. CountedIn(q, j) = CountedIn(p, j)
    BY <1>5, <1>6 DEF CountedIn
  <2>3. Cardinality(PassedIn(p, j)) \in Nat /\ Cardinality(DueIn(p.jobs[j], t)) \in Nat
    BY CountsAreNat
  <2> QED BY <1>9, <2>1, <2>2, <2>3 DEF SlotsOfJob, CountRight
<1>12. AheadIn(q, j) = {}
  <2>1. ASSUME NEW o \in AheadIn(q, j) PROVE FALSE
    <3>1. o \in OwnIn(p, j) /\ SlotOf(o) > last
      BY <1>3, <1>5, <2>1 DEF AheadIn
    <3>2. SlotOf(o) \in Nat
      BY <3>1 DEF OwnIn, WellFormed, Occs, SlotOf
    <3>3. o \in AheadIn(p, j)
      BY <1>1, <1>2, <3>1, <3>2 DEF AheadIn
    <3>4. SlotOf(o) <= t /\ IsSlot(p.jobs[j], SlotOf(o))
      BY <3>3 DEF SlotsOfJob, AheadRight
    <3>5. SlotOf(o) \in DueIn(p.jobs[j], t)
      BY <1>1, <1>2, <3>1, <3>2, <3>4 DEF DueIn
    <3>6. SlotOf(o) <= last
      BY <3>5
    <3> QED BY <1>2, <3>1, <3>2, <3>6
  <2> QED BY <2>1
<1> QED BY <1>10, <1>11, <1>12 DEF SlotsOfJob, AheadRight

(* A new job has passed no slot and has no occurrence.                        *)
LEMMA CreatedSlots ==
  ASSUME NEW p, NEW j, OwnIn(p, j) = {}, NEW b \in Job, b.state = "active", b.cursor = b.anchor,
         NEW k, NEW q, q = JobMade(p, j, b, k), NEW d, d.at # "advance", NEW t, NEW n
  PROVE  SlotsOfJob(q, d, t, n, j)
<1>1. q.occs = p.occs /\ q.jobs[j] = b /\ b.anchor \in Nat
  BY DEF JobMade, With, Job
<1>2. OwnIn(q, j) = {}
  BY <1>1 DEF OwnIn
<1>3. MissedIn(q, j) = {} /\ OnSlotIn(q, j) = {} /\ AheadIn(q, j) = {}
  BY <1>2 DEF MissedIn, OnSlotIn, AheadIn
<1>4. PassedIn(q, j) = {}
  BY <1>1 DEF PassedIn
<1>5. IsFiniteSet({}) /\ Cardinality({}) = 0
  BY FS_EmptySet
<1>6. JobRight(q, j)
  BY <1>1, <1>2, <1>3, <1>5 DEF JobRight
<1>7. CountRight(q, d, t, n, j)
  BY <1>3, <1>4, <1>5 DEF CountRight, CountedIn, StillDue, Advancing
<1> QED BY <1>3, <1>6, <1>7 DEF SlotsOfJob, AheadRight

(* An update that lets the schedule be gives the job a new revision: what was *)
(* ahead of its cursor has another name from then on.                         *)
LEMMA UpdatedSlots ==
  ASSUME NEW p, WellFormed(p), NEW j \in DOMAIN p.jobs, NEW t \in Nat, NEW n,
         NEW c, c.at = "commands", SlotsOfJob(p, c, t, n, j), NEW b,
         b.kind = p.jobs[j].kind, b.period = p.jobs[j].period, b.anchor = p.jobs[j].anchor,
         b.state = p.jobs[j].state, b.cursor = p.jobs[j].cursor, b.rev = p.jobs[j].rev + 1,
         NEW q, q = JobPut(p, j, b), NEW d, d.at = "commands"
  PROVE  SlotsOfJob(q, d, t, n, j)
<1>1. /\ q.occs = p.occs /\ q.jobs[j] = b /\ OwnIn(q, j) = OwnIn(p, j)
      /\ p.jobs[j].rev \in Nat /\ \A o \in OwnIn(p, j) : RevOf(o) \in Nat
  BY DEF JobPut, With, OwnIn, WellFormed, Job, Occs, RevOf
<1>2. \A s : IsSlot(q.jobs[j], s) = IsSlot(p.jobs[j], s)
  BY <1>1 DEF IsSlot
<1>3. /\ MissedIn(q, j) = MissedIn(p, j) /\ OnSlotIn(q, j) = OnSlotIn(p, j)
      /\ PassedIn(q, j) = PassedIn(p, j) /\ AheadIn(q, j) = AheadIn(p, j)
  BY <1>1, <1>2 DEF MissedIn, MissedBy, OnSlotIn, Stands, PassedIn, AheadIn
<1>4. JobRight(q, j)
  BY <1>1, <1>3 DEF SlotsOfJob, JobRight
<1>5. CountRight(q, d, t, n, j)
  BY <1>3 DEF SlotsOfJob, CountRight, CountedIn, StillDue, Advancing
<1>6. AheadRight(q, d, t, j)
  <2>1. \A o \in AheadIn(p, j) : Aside(q.jobs[j], o, t)
    BY <1>1 DEF AheadIn, Aside, SlotsOfJob, JobRight
  <2> QED BY <1>2, <1>3, <2>1 DEF SlotsOfJob, AheadRight
<1> QED BY <1>4, <1>5, <1>6 DEF SlotsOfJob

(* A line about a job or an occurrence leaves the slots of other jobs alone.  *)
LEMMA LeavesOthers ==
  ASSUME NEW p, NEW i \in DOMAIN p.jobs, NEW q, NEW j, i # j, NEW o, JobOf(o) # i,
         OnlyAt(j, p.jobs, q.jobs), OnlyAt(o, p.occs, q.occs)
  PROVE  SameFor(p, q, i) /\ SameStates(p, q, i)
<1>1. i \in DOMAIN q.jobs /\ q.jobs[i] = p.jobs[i]
  BY DEF With, OnlyAt
<1>2. OwnIn(q, i) = OwnIn(p, i) /\ \A x \in OwnIn(p, i) : q.occs[x] = p.occs[x]
  BY DEF With, OwnIn, OnlyAt
<1> QED BY <1>1, <1>2 DEF SameFor, SameStates, SameCounts, SameJob

(* A note leaves the slots of every job alone.                                *)
LEMMA NotesLeave ==
  ASSUME NEW p, WellFormed(p), NEW l, l.type \in NoteTypes
  PROVE  /\ DOMAIN Replay(p, l).jobs = DOMAIN p.jobs /\ DOMAIN Replay(p, l).occs = DOMAIN p.occs
         /\ \A j \in DOMAIN p.jobs : SameFor(p, Replay(p, l), j)
<1>1. PICK q : q = Replay(p, l)
  OBVIOUS
<1>2. /\ DOMAIN q.jobs = DOMAIN p.jobs /\ DOMAIN q.occs = DOMAIN p.occs
      /\ \A j \in DOMAIN p.jobs :
           SameJob(p.jobs[j], q.jobs[j]) /\ q.jobs[j].cursor = p.jobs[j].cursor
      /\ \A o \in DOMAIN p.occs : q.occs[o].missed = p.occs[o].missed
  <2>1. CASE l.type = "occurrence.observed"
    <3>1. CASE q = p
      BY <3>1 DEF SameJob
    <3>2. CASE /\ JobOf(l.occ) \in DOMAIN p.jobs
               /\ q = JobPut(p, JobOf(l.occ), [p.jobs[JobOf(l.occ)] EXCEPT !.seen = l.text])
      <4>1. p.jobs[JobOf(l.occ)] \in Job
        BY <3>2 DEF WellFormed
      <4> QED BY <3>2, <4>1 DEF JobPut, With, SameJob, Job
    <3> QED BY <1>1, <2>1, <3>1, <3>2, ReplayObserved DEF Has
  <2>2. CASE l.type \in OccTypes
    <3>1. CASE q = p
      BY <3>1 DEF SameJob
    <3>2. CASE l.occ \in DOMAIN p.occs /\ q = OccPut(p, l.occ, OccLine(p.occs[l.occ], l))
      <4>1. p.occs[l.occ] \in Occurrence
        BY <3>2 DEF WellFormed
      <4>2. OccLine(p.occs[l.occ], l).missed = p.occs[l.occ].missed
        BY <2>2, <4>1 DEF OccLine, NoteTypes, OccTypes, Occurrence
      <4>3. q.jobs = p.jobs /\ q.occs = With(p.occs, l.occ, OccLine(p.occs[l.occ], l))
        BY <3>2 DEF OccPut
      <4> QED BY <3>2, <4>2, <4>3 DEF With, SameJob
    <3> QED BY <1>1, <2>2, <3>1, <3>2, ReplayOcc DEF Has
  <2> QED BY <2>1, <2>2 DEF NoteTypes, OccTypes
<1>3. \A j \in DOMAIN p.jobs : SameFor(p, q, j)
  BY <1>2 DEF SameFor, SameCounts, OwnIn
<1> QED BY <1>1, <1>2, <1>3

(* What the proofs below keep needing.                                        *)
LEMMA SlotBasics ==
  ASSUME Undisturbed, Inv
  PROVE  /\ torn = FALSE /\ WellFormed(disk) /\ WellFormed(mem) /\ ctl \in Control
         /\ now \in Nat /\ crashes \in Nat /\ AccountRight
         /\ ~broken /\ ctl.at # "down" => Same(mem, disk)
         /\ ctl.at \in {"idle", "commands", "first", "cancel", "sweep", "advance"} =>
              ~broken /\ Same(mem, disk)
<1>1. TypesRight /\ AccountRight
  BY DEF Inv, PlaceRight, Undisturbed
<1>2. crashes \in Nat
  BY <1>1, AutomationAssumption DEF TypesRight, AutomationAssumption
<1>3. ctl.at \in {"idle", "commands", "first", "cancel", "sweep", "advance"} => ~Holds(ctl)
  BY DEF Holds, Turning
<1> QED BY <1>1, <1>2, <1>3 DEF TypesRight, AccountRight

(* A step that changes no line and leaves the sweep where it is.              *)
LEMMA QuietSlots ==
  ASSUME Undisturbed, Inv, SlotsRight, UNCHANGED disk, now' \in Nat, now <= now',
         \A j \in CoalescingIn(disk) :
           /\ \/ /\ Advancing(ctl', j) <=> Advancing(ctl, j)
                 /\ Advancing(ctl, j) => now' = now
                 /\ crashes' = 0 /\ ctl'.at # "halted" => crashes = 0 /\ ctl.at # "halted"
              \/ ~Advancing(ctl', j) /\ (crashes' # 0 \/ ctl'.at = "halted")
           /\ \/ Swept(ctl', j) => Swept(ctl, j)
              \/ \A o \in AheadIn(disk, j) : Aside(disk.jobs[j], o, now)
  PROVE  SlotsKept(disk, ctl, now, crashes)'
<1>1. WellFormed(disk) /\ now \in Nat
  BY SlotBasics
<1>2. ASSUME NEW j \in CoalescingIn(disk)
      PROVE  SlotsOfJob(disk, ctl', now', crashes', j)
  <2>1. SameFor(disk, disk, j) /\ SameStates(disk, disk, j)
    BY DEF SameFor, SameCounts, SameStates, SameJob, CoalescingIn
  <2>2. SlotsOfJob(disk, ctl, now, crashes, j)
    BY DEF SlotsRight, SlotsKept
  <2> QED BY <1>1, <2>1, <2>2, JobStays
<1>3. IsFiniteSet(DOMAIN disk.occs)
  BY DEF SlotsRight, SlotsKept
<1>4. PICK q : q = disk
  OBVIOUS
<1>5. disk' = q
  BY <1>4
<1>6. \A j \in CoalescingIn(q) : SlotsOfJob(q, ctl', now', crashes', j)
  BY <1>2, <1>4
<1> QED BY <1>3, <1>4, <1>5, <1>6 DEF SlotsKept

(* An append that fails halts the tick; what it wrote may be there.           *)
LEMMA LogSlots ==
  ASSUME Undisturbed, Inv, Inv', SlotsRight, NEW l, NEW m, NEW c, Log(l, m, c), Others,
         ~broken => SlotsKept(Replay(disk, l), c, now, crashes),
         c.at \notin {"cancel", "down"}, c.at = "first" => m.jobs[c.job].kind = "once"
  PROVE  SlotsRight'
<1>1. torn = FALSE /\ WellFormed(disk) /\ WellFormed(disk') /\ now \in Nat
      /\ now' = now /\ crashes' = crashes
  BY SlotBasics DEF Others, Inv, PlaceRight, TypesRight
<1>2. Halted.at = "halted"
  BY DEF Halted, Idle
<1>3. CASE Appended(l) /\ mem' = m /\ ctl' = c
  <2>1. disk' = Replay(disk, l) /\ ~broken
    BY <1>1, <1>3 DEF Appended, Written
  <2>2. SlotsKept(disk', ctl', now', crashes')
    BY <1>1, <1>3, <2>1
  <2> QED BY <1>3, <2>2 DEF SlotsRight
<1>4. CASE AppendFails(l) /\ UNCHANGED mem /\ ctl' = Halted
  <2>1. \/ disk' = disk
        \/ disk' = Replay(disk, l) /\ ~broken
    BY <1>1, <1>4 DEF AppendFails, Written
  <2>2. PICK q, d : q = disk' /\ SlotsKept(q, d, now, crashes)
    BY <2>1 DEF SlotsRight
  <2>3. ASSUME NEW j \in CoalescingIn(q)
        PROVE  SlotsOfJob(q, Halted, now, crashes, j)
    <3>1. SlotsOfJob(q, d, now, crashes, j)
      BY <2>2, <2>3 DEF SlotsKept
    <3>2. SameFor(q, q, j) /\ SameStates(q, q, j)
      BY DEF SameFor, SameCounts, SameStates, SameJob, CoalescingIn
    <3>3. ~Advancing(Halted, j) /\ ~Swept(Halted, j)
      BY <1>2 DEF Advancing, Swept, Early
    <3> QED BY <1>1, <1>2, <2>2, <3>1, <3>2, <3>3, JobStays
  <2>4. SlotsKept(q, Halted, now, crashes)
    BY <2>2, <2>3 DEF SlotsKept
  <2>5. SlotsKept(disk', ctl', now', crashes')
    BY <1>1, <1>4, <2>2, <2>4
  <2> QED BY <1>2, <1>4, <2>5 DEF SlotsRight
<1> QED BY <1>3, <1>4 DEF Log

(* After the sweep what happens to claims and occurrences loses no slot.      *)
LEMMA BeyondSlots ==
  ASSUME Undisturbed, Inv, Inv', SlotsRight, Beyond(ctl), NEW l, l.type \in NoteTypes,
         disk' = disk \/ disk' = Replay(disk, l), UNCHANGED <<now, crashes>>,
         ctl'.at \notin {"cancel", "down", "first", "advance"}
  PROVE  SlotsRight'
<1>1. WellFormed(disk) /\ now \in Nat /\ now' = now /\ crashes' = crashes
  BY SlotBasics
<1>2. PICK q : q = disk'
  OBVIOUS
<1>3. DOMAIN q.jobs = DOMAIN disk.jobs /\ DOMAIN q.occs = DOMAIN disk.occs
      /\ \A j \in DOMAIN disk.jobs : SameFor(disk, q, j)
  <2>1. CASE q = disk
    BY <2>1 DEF SameFor, SameCounts, SameJob
  <2>2. CASE q = Replay(disk, l)
    BY <1>1, <2>2, NotesLeave
  <2> QED BY <1>2, <2>1, <2>2
<1>4. ASSUME NEW j \in CoalescingIn(q)
      PROVE  SlotsOfJob(q, ctl', now', crashes', j)
  <2>1. j \in DOMAIN disk.jobs
    BY <1>3 DEF CoalescingIn
  <2>2. SameFor(disk, q, j) /\ j \in CoalescingIn(disk)
    BY <1>3, <2>1, CountsOfSame
  <2>3. SlotsOfJob(disk, ctl, now, crashes, j)
    BY <2>2 DEF SlotsRight, SlotsKept
  <2>4. Swept(ctl, j) /\ ~Advancing(ctl, j) /\ ctl.at # "halted" /\ ~Advancing(ctl', j)
    BY DEF Beyond, Swept, Advancing, Early
  <2>5. \A o \in AheadIn(disk, j) : Aside(disk.jobs[j], o, now)
    BY <2>3, <2>4 DEF SlotsOfJob, AheadRight
  <2>6. \/ /\ Advancing(ctl', j) <=> Advancing(ctl, j)
           /\ Advancing(ctl, j) => now' = now
           /\ crashes' = 0 /\ ctl'.at # "halted" => crashes = 0 /\ ctl.at # "halted"
        \/ ~Advancing(ctl', j) /\ (crashes' # 0 \/ ctl'.at = "halted")
    BY <1>1, <2>4
  <2>7. now' \in Nat /\ now <= now'
    BY <1>1
  <2> QED BY <1>1, <2>2, <2>3, <2>5, <2>6, <2>7, JobStays
<1>5. SlotsKept(q, ctl', now', crashes')
  BY <1>3, <1>4 DEF SlotsRight, SlotsKept
<1>6. SlotsKept(disk', ctl', now', crashes')
  BY <1>2, <1>5
<1> QED BY <1>6 DEF SlotsRight

(* The steps, one by one.  Commands make jobs, or change what is not of the   *)
(* schedule.                                                                  *)
LEMMA CommandsSlots ==
  ASSUME Undisturbed, Inv, Inv', SlotsRight, Commands
  PROVE  SlotsRight'
<1>1. /\ WellFormed(disk) /\ WellFormed(mem) /\ now \in Nat /\ ctl \in Control /\ AccountRight
  BY SlotBasics
<1>2. 2 \notin Verbs /\ 4 \notin Verbs
  BY DEF Undisturbed
<1>3. ASSUME NEW j \in Jobs, NEW s \in Specs, NEW k \in Keys \cup {NoKey}, CreateJob(j, s, k)
      PROVE  SlotsRight'
  <2> DEFINE b == Created(s, k)
             l == [type |-> "job.created", job |-> j, spec |-> b]
             m == [mem EXCEPT !.jobs = With(@, j, b), !.createKeys = Registered(@, k, j)]
             c == IF s.kind = "once" THEN [Taken(1) EXCEPT !.at = "first", !.job = j] ELSE Taken(1)
  <2>1. Log(l, m, c) /\ Others /\ ctl.at = "commands" /\ ~Has(mem.jobs, j)
    BY <1>3 DEF CreateJob, Command, At
  <2>2. b \in Job /\ b.kind = s.kind
    BY <1>1, CreatedIsJob
  <2>3. b.kind = "interval" => b.state = "active" /\ b.cursor = b.anchor
    <3>1. s \in Given
      BY AutomationAssumption DEF AutomationAssumption
    <3>2. "state" \notin DOMAIN s /\ "cursor" \notin DOMAIN s /\ "anchor" \notin DOMAIN s
      BY <3>1 DEF Given
    <3> QED BY <2>2, <3>2 DEF Created, Over
  <2>4. /\ c.at \in {"first", "commands"}
        /\ c.at = "first" => s.kind = "once" /\ c.job = j
    BY <1>1, <2>1 DEF Taken, Control
  <2>5. l.type = "job.created" /\ l.job = j /\ l.spec = b
    OBVIOUS
  <2>6. m.jobs[j] = b
    <3>1. PICK x, y : x = With(mem.jobs, j, b) /\ y = Registered(mem.createKeys, k, j)
      OBVIOUS
    <3>2. m = [mem EXCEPT !.jobs = x, !.createKeys = y]
      BY <3>1
    <3>3. m.jobs = x
      BY <1>1, <3>2, JobsAndKeys DEF WellFormed
    <3> QED BY <3>1, <3>3 DEF With
  <2> HIDE DEF l, m, c, b
  <2>7. ASSUME ~broken PROVE SlotsKept(Replay(disk, l), c, now, crashes)
    <3>1. PICK q : q = Replay(disk, l)
      OBVIOUS
    <3>2. q = JobMade(disk, j, b, l.spec.key)
      BY <1>1, <2>5, <3>1, ReplayCreated
    <3>3. q.jobs = With(disk.jobs, j, b) /\ q.occs = disk.occs
      BY <3>2 DEF JobMade
    <3>4. Same(mem, disk) /\ j \notin DOMAIN disk.jobs
      BY <2>1, <2>7, SlotBasics DEF Same, Has
    <3>5. OwnIn(disk, j) = {}
      BY <1>1, <3>4 DEF AccountRight, Sound, OwnIn
    <3>6. ASSUME NEW i \in CoalescingIn(q), i = j
          PROVE  SlotsOfJob(q, c, now, crashes, i)
      <4>1. b.kind = "interval"
        BY <3>3, <3>6 DEF CoalescingIn, With
      <4> QED BY <2>2, <2>3, <2>4, <3>2, <3>5, <3>6, <4>1, CreatedSlots
    <3>7. ASSUME NEW i \in CoalescingIn(q), i # j
          PROVE  SlotsOfJob(q, c, now, crashes, i)
      <4>1. i \in DOMAIN disk.jobs
        BY <3>3, <3>7 DEF CoalescingIn, With
      <4>2. SameFor(disk, q, i) /\ SameStates(disk, q, i)
        <5>1. \E o : JobOf(o) # i
          <6>1. JobOf(<<j, 0, 0>>) = j
            BY DEF JobOf
          <6> QED BY <3>7, <6>1
        <5>2. OnlyAt(j, disk.jobs, q.jobs) /\ \A o : OnlyAt(o, disk.occs, q.occs)
          BY <3>3 DEF OnlyAt
        <5> QED BY <3>7, <4>1, <5>1, <5>2, LeavesOthers
      <4>3. i \in CoalescingIn(disk)
        BY <4>2, CountsOfSame
      <4>4. SlotsOfJob(disk, ctl, now, crashes, i)
        BY <4>3 DEF SlotsRight, SlotsKept
      <4>5. /\ ~Advancing(c, i) /\ ~Advancing(ctl, i) /\ ~Swept(c, i)
            /\ ctl.at # "halted"
        BY <2>1, <2>4 DEF Advancing, Swept, Early
      <4> QED BY <1>1, <4>2, <4>4, <4>5, JobStays
    <3>8. IsFiniteSet(DOMAIN q.occs)
      BY <3>3 DEF SlotsRight, SlotsKept
    <3> QED BY <3>1, <3>6, <3>7, <3>8 DEF SlotsKept
  <2>8. c.at = "first" => m.jobs[c.job].kind = "once"
    BY <2>2, <2>4, <2>6
  <2> QED BY <2>1, <2>4, <2>7, <2>8, LogSlots
<1>4. ASSUME NEW j \in Jobs, NEW p \in Patches, UpdateJob(j, p) PROVE SlotsRight'
  <2> DEFINE l == [type |-> "job.updated", job |-> j, patch |-> Anchored(p),
                   to |-> mem.jobs[j].rev + 1]
             m == [mem EXCEPT !.jobs[j] = Changed(@, p)]
  <2>1. Log(l, m, Taken(3)) /\ Others /\ ctl.at = "commands" /\ Has(mem.jobs, j)
    BY <1>4 DEF UpdateJob, Command, At, JobRec
  <2>2. l.type = "job.updated" /\ l.job = j /\ l.patch = Anchored(p) /\ l.to = mem.jobs[j].rev + 1
    OBVIOUS
  <2>4. Taken(3).at = "commands"
    BY <1>1, <2>1 DEF Taken, Control
  <2> HIDE DEF l, m
  <2>5. ASSUME ~broken PROVE SlotsKept(Replay(disk, l), Taken(3), now, crashes)
    <3>1. PICK q, b : /\ q = Replay(disk, l)
                      /\ b = [Over(Anchored(p), disk.jobs[j]) EXCEPT !.rev = l.to]
      OBVIOUS
    <3>2. /\ j \in DOMAIN disk.jobs /\ disk.jobs[j] \in Job /\ disk.jobs[j] = mem.jobs[j]
          /\ l.to = disk.jobs[j].rev + 1
      BY <1>1, <2>1, <2>2, SlotBasics DEF Same, Has, WellFormed
    <3>3. q = JobPut(disk, j, b)
      <4>1. q = JobPut(disk, j, JobLine(disk.jobs[j], l))
        BY <1>1, <2>2, <3>1, <3>2, ReplayJob DEF JobTypes, Has
      <4> QED BY <2>2, <3>1, <4>1 DEF JobLine
    <3>4. q.occs = disk.occs /\ q.jobs = With(disk.jobs, j, b)
      BY <3>3 DEF JobPut
    <3>5. ASSUME NEW i \in CoalescingIn(q), i = j
          PROVE  SlotsOfJob(q, Taken(3), now, crashes, i)
      <4>1. b.misfire = "coalesce" /\ b.kind = "interval"
        BY <3>4, <3>5 DEF CoalescingIn, With
      <4>2. PICK d : d = Over(Anchored(p), disk.jobs[j])
        OBVIOUS
      <4>3. d.misfire = "coalesce" /\ d.kind = "interval"
        <5>1. {"misfire", "kind"} \subseteq DOMAIN d
          BY <3>2, <4>2 DEF Over, Job
        <5> QED BY <3>1, <4>1, <4>2, <5>1
      <4>4. ~EndsCoalescing(p)
        <5>1. DOMAIN p \subseteq DOMAIN Anchored(p)
          BY DEF Anchored, Over
        <5>2. /\ "misfire" \in DOMAIN p => Anchored(p).misfire = p.misfire
              /\ "kind" \in DOMAIN p => Anchored(p).kind = p.kind
          BY DEF Anchored, Over
        <5>3. /\ "misfire" \in DOMAIN p => d.misfire = p.misfire
              /\ "kind" \in DOMAIN p => d.kind = p.kind
          BY <4>2, <5>1, <5>2 DEF Over
        <5> QED BY <4>3, <5>3 DEF EndsCoalescing
      <4>5. DOMAIN p \subseteq {"due", "notify", "deadline"}
        BY <4>4 DEF Undisturbed
      <4>6. Anchored(p) = p
        BY <4>5 DEF Anchored
      <4>7. /\ d.kind = disk.jobs[j].kind /\ d.period = disk.jobs[j].period
            /\ d.anchor = disk.jobs[j].anchor /\ d.misfire = disk.jobs[j].misfire
            /\ d.state = disk.jobs[j].state /\ d.cursor = disk.jobs[j].cursor
            /\ {"kind", "period", "anchor", "misfire", "rev", "state", "cursor"} \subseteq DOMAIN d
        BY <3>2, <4>2, <4>5, <4>6 DEF Over, Job
      <4>8. /\ b.kind = disk.jobs[j].kind /\ b.period = disk.jobs[j].period
            /\ b.anchor = disk.jobs[j].anchor /\ b.misfire = disk.jobs[j].misfire
            /\ b.state = disk.jobs[j].state /\ b.cursor = disk.jobs[j].cursor
            /\ b.rev = disk.jobs[j].rev + 1
        BY <3>1, <3>2, <4>2, <4>7
      <4>9. j \in CoalescingIn(disk)
        BY <3>2, <4>1, <4>8 DEF CoalescingIn
      <4>10. SlotsOfJob(disk, ctl, now, crashes, j)
        BY <4>9 DEF SlotsRight, SlotsKept
      <4> QED BY <1>1, <2>1, <2>4, <3>2, <3>3, <3>5, <4>8, <4>10, UpdatedSlots
    <3>6. ASSUME NEW i \in CoalescingIn(q), i # j
          PROVE  SlotsOfJob(q, Taken(3), now, crashes, i)
      <4>1. i \in DOMAIN disk.jobs
        BY <3>4, <3>6 DEF CoalescingIn, With
      <4>2. PICK o : o = <<j, 0, 0>>
        OBVIOUS
      <4>3. JobOf(o) # i /\ OnlyAt(j, disk.jobs, q.jobs) /\ OnlyAt(o, disk.occs, q.occs)
        BY <3>4, <3>6, <4>2 DEF JobOf, OnlyAt
      <4>4. SameFor(disk, q, i) /\ SameStates(disk, q, i)
        BY <3>6, <4>1, <4>3, LeavesOthers
      <4>5. i \in CoalescingIn(disk)
        BY <4>4, CountsOfSame
      <4>6. SlotsOfJob(disk, ctl, now, crashes, i)
        BY <4>5 DEF SlotsRight, SlotsKept
      <4>7. /\ ~Advancing(Taken(3), i) /\ ~Advancing(ctl, i) /\ ~Swept(Taken(3), i)
            /\ ctl.at # "halted"
        BY <2>1, <2>4 DEF Advancing, Swept, Early
      <4> QED BY <1>1, <4>4, <4>6, <4>7, JobStays
    <3>7. IsFiniteSet(DOMAIN q.occs)
      BY <3>4 DEF SlotsRight, SlotsKept
    <3> QED BY <3>1, <3>5, <3>6, <3>7 DEF SlotsKept
  <2> QED BY <2>1, <2>4, <2>5, LogSlots
<1> QED BY <1>2, <1>3, <1>4 DEF Commands, Command, RequestRunNow, PauseJob, ResumeJob, CancelJob

(* A once job's occurrence is of no job that coalesces.                       *)
LEMMA FirstSlots ==
  ASSUME Undisturbed, Inv, Inv', SlotsRight, CommandStep
  PROVE  SlotsRight'
<1>1. /\ WellFormed(disk) /\ WellFormed(mem) /\ now \in Nat /\ ctl \in Control
  BY SlotBasics
<1>2. FirstOccurrence
  BY DEF CommandStep, CancelDone, CancelOccurrence, At, SlotsRight
<1> DEFINE o == OccId(ctl.job, 1, mem.jobs[ctl.job].due)
           l == [type |-> "occurrence.created", occ |-> o, reason |-> "schedule",
                 missed |-> 0, key |-> mem.jobs[ctl.job].key]
           m == [mem EXCEPT !.occs = With(@, o, NewOccurrence("schedule", 0))]
           c == [ctl EXCEPT !.at = "commands", !.job = 0]
<1>3. Log(l, m, c) /\ Others /\ ctl.at = "first" /\ c.at = "commands"
  BY <1>1, <1>2 DEF FirstOccurrence, At, JobRec, Control
<1>4. l.type = "occurrence.created" /\ l.occ = o /\ JobOf(o) = ctl.job
  BY DEF OccId, JobOf
<1> HIDE DEF l, m, c, o
<1>5. ASSUME ~broken PROVE SlotsKept(Replay(disk, l), c, now, crashes)
  <2>1. PICK q, x : q = Replay(disk, l) /\ x = NewOccurrence(l.reason, l.missed)
    OBVIOUS
  <2>2. q.jobs = disk.jobs /\ q.occs = With(disk.occs, o, x)
    BY <1>1, <1>4, <2>1, ReplayCreated DEF OccMade
  <2>3. disk.jobs = mem.jobs /\ mem.jobs[ctl.job].kind = "once"
    BY <1>3, SlotBasics DEF Same, SlotsRight
  <2>4. ASSUME NEW i \in CoalescingIn(q)
        PROVE  SlotsOfJob(q, c, now, crashes, i)
    <3>1. i \in DOMAIN disk.jobs /\ i # ctl.job /\ i \in CoalescingIn(disk)
      BY <2>2, <2>3 DEF CoalescingIn
    <3>2. SameFor(disk, q, i) /\ SameStates(disk, q, i)
      <4>1. OnlyAt(ctl.job, disk.jobs, q.jobs) /\ OnlyAt(o, disk.occs, q.occs)
        BY <2>2 DEF OnlyAt
      <4> QED BY <1>4, <3>1, <4>1, LeavesOthers
    <3>3. SlotsOfJob(disk, ctl, now, crashes, i)
      BY <3>1 DEF SlotsRight, SlotsKept
    <3>4. ~Advancing(c, i) /\ ~Advancing(ctl, i) /\ ~Swept(c, i) /\ ctl.at # "halted"
      BY <1>3 DEF Advancing, Swept, Early
    <3> QED BY <1>1, <3>2, <3>3, <3>4, JobStays
  <2>5. IsFiniteSet(DOMAIN q.occs)
    <3>1. DOMAIN q.occs = DOMAIN disk.occs \cup {o}
      BY <2>2 DEF With
    <3> QED BY <3>1, FS_AddElement DEF SlotsRight, SlotsKept
  <2> QED BY <2>1, <2>4, <2>5 DEF SlotsKept
<1> QED BY <1>3, <1>5, LogSlots

(* A job's turn in the sweep, as the account has it.                          *)
LEMMA SweptJob ==
  ASSUME Undisturbed, Inv, SlotsRight, NEW j \in ctl.jobs, Sweeping(j)
  PROVE  /\ ctl.at = "sweep" /\ ~broken /\ Same(mem, disk) /\ j \in DOMAIN disk.jobs
         /\ j \in DOMAIN mem.jobs /\ disk.jobs[j] = mem.jobs[j] /\ disk.jobs[j] \in Job
         /\ Due(j) = DueIn(disk.jobs[j], now)
         /\ Due(j) # {} => Cardinality(Due(j)) - 1 \in Nat /\ SlotTaken(j) \in Due(j)
         /\ Eligible(j) /\ j \in CoalescingIn(disk) =>
              /\ \A o \in OwnIn(disk, j) : disk.occs[o].state # "claimed"
              /\ \A o \in AheadIn(disk, j) :
                   RevOf(o) < disk.jobs[j].rev \/ (SlotOf(o) \in Due(j) /\ o \in Waiting(j))
<1>1. ctl.at = "sweep" /\ ~broken /\ Same(mem, disk) /\ WellFormed(disk) /\ now \in Nat
      /\ ctl.jobs \subseteq DOMAIN mem.jobs /\ PlaceRight
  BY SlotBasics DEF Sweeping, At, Inv, PlaceRight, Placed
<1>2. /\ j \in DOMAIN disk.jobs /\ j \in DOMAIN mem.jobs /\ disk.jobs[j] = mem.jobs[j]
      /\ disk.jobs[j] \in Job
  BY <1>1 DEF Same, WellFormed
<1>3. /\ Due(j) = DueIn(disk.jobs[j], now)
      /\ Due(j) # {} => Cardinality(Due(j)) - 1 \in Nat /\ SlotTaken(j) \in Due(j)
  BY <1>1, <1>2, DueSlots
<1>4. ASSUME Eligible(j), j \in CoalescingIn(disk)
      PROVE  /\ \A o \in OwnIn(disk, j) : disk.occs[o].state # "claimed"
             /\ \A o \in AheadIn(disk, j) :
                  RevOf(o) < disk.jobs[j].rev \/ (SlotOf(o) \in Due(j) /\ o \in Waiting(j))
  <2>1. \A o \in OwnIn(disk, j) : disk.occs[o].state # "claimed"
    <3>1. ASSUME NEW o \in OwnIn(disk, j), disk.occs[o].state = "claimed" PROVE FALSE
      <4>1. o \in OfJob(j, {"claimed"})
        BY <1>1, <3>1 DEF Same, OfJob, OwnIn, OccRec
      <4> QED BY <1>4, <4>1 DEF Eligible
    <3> QED BY <3>1
  <2>2. ~Lapsed(disk.jobs[j], now)
    BY <1>2, <1>4 DEF Eligible, Expired, Lapsed, JobRec
  <2>3. ASSUME NEW o \in AheadIn(disk, j), ~(RevOf(o) < disk.jobs[j].rev)
        PROVE  SlotOf(o) \in Due(j) /\ o \in Waiting(j)
    <3>1. /\ SlotOf(o) <= now /\ IsSlot(disk.jobs[j], SlotOf(o))
          /\ disk.occs[o].state = "scheduled"
      BY <1>4, <2>2, <2>3 DEF SlotsRight, SlotsKept, SlotsOfJob, AheadRight, Aside
    <3>2. SlotOf(o) \in Nat /\ SlotOf(o) > disk.jobs[j].cursor /\ o \in OwnIn(disk, j)
      BY <1>1 DEF AheadIn, OwnIn, WellFormed, Occs, SlotOf
    <3>3. disk.jobs[j].cursor \in Nat
      BY <1>2 DEF Job
    <3>4. SlotOf(o) \in Due(j)
      BY <1>1, <1>3, <3>1, <3>2, <3>3 DEF DueIn
    <3> QED BY <1>1, <3>1, <3>2, <3>4 DEF Same, Waiting, OfJob, OwnIn, OccRec
  <2> QED BY <2>1, <2>3
<1> QED BY <1>1, <1>2, <1>3, <1>4

(* Its turn does not concern the slots of other jobs.                         *)
LEMMA OthersTurn ==
  ASSUME Undisturbed, Inv, SlotsRight, NEW j, Sweeping(j) \/ Advancing(ctl, j),
         NEW q, NEW o, JobOf(o) = j,
         OnlyAt(j, disk.jobs, q.jobs), OnlyAt(o, disk.occs, q.occs),
         NEW d, d.at \in {"sweep", "advance"}, d.at = "advance" => d.job = j,
         ctl.jobs \subseteq d.jobs \cup {j},
         NEW i \in CoalescingIn(q), i # j
  PROVE  SlotsOfJob(q, d, now, crashes, i)
<1>1. WellFormed(disk) /\ now \in Nat /\ ctl.at \in {"sweep", "advance"}
  BY SlotBasics DEF Sweeping, At, Advancing
<1>2. i \in DOMAIN disk.jobs
  BY DEF CoalescingIn, OnlyAt, With
<1>3. SameFor(disk, q, i) /\ SameStates(disk, q, i)
  BY <1>2, LeavesOthers
<1>4. i \in CoalescingIn(disk)
  BY <1>3, CountsOfSame
<1>5. SlotsOfJob(disk, ctl, now, crashes, i)
  BY <1>4 DEF SlotsRight, SlotsKept
<1>6. /\ ~Advancing(d, i) /\ ~Advancing(ctl, i) /\ ctl.at # "halted"
      /\ Swept(d, i) => Swept(ctl, i)
  BY <1>1 DEF Advancing, Swept, Early, Sweeping, At
<1> QED BY <1>1, <1>3, <1>5, <1>6, JobStays

(* The first line of a turn that merges counts what is due.                   *)
LEMMA MergeSlots ==
  ASSUME Undisturbed, Inv, Inv', SlotsRight, NEW j \in ctl.jobs, SweepMerge(j)
  PROVE  SlotsRight'
<1> DEFINE N == Cardinality(Due(j))
           c == Due2nd(j)
<1>1. Sweeping(j) /\ Others /\ Eligible(j)
  BY DEF SweepMerge
<1>2. /\ ctl.at = "sweep" /\ ~broken /\ Same(mem, disk) /\ j \in DOMAIN disk.jobs
      /\ Due(j) = DueIn(disk.jobs[j], now) /\ WellFormed(disk) /\ now \in Nat /\ ctl \in Control
  BY <1>1, SweptJob, SlotBasics
<1>3. c.at = "advance" /\ c.job = j /\ c.jobs = ctl.jobs
  BY <1>2 DEF Due2nd, Control
<1>4. PICK o \in Oldest(j) :
        Log([type |-> "occurrence.merged", occ |-> o, missed |-> OccRec(o).missed + N],
            [mem EXCEPT !.occs[o].missed = @ + N], c)
  BY DEF SweepMerge
<1>5. o \in OwnIn(disk, j) /\ OccRec(o).missed = disk.occs[o].missed /\ JobOf(o) = j
      /\ o \in DOMAIN disk.occs
  BY <1>2 DEF Oldest, Waiting, OfJob, OwnIn, OccRec, Same
<1> DEFINE l == [type |-> "occurrence.merged", occ |-> o, missed |-> OccRec(o).missed + N]
           m == [mem EXCEPT !.occs[o].missed = @ + N]
<1>6. Log(l, m, c)
  BY <1>4
<1>7. l.type = "occurrence.merged" /\ l.occ = o /\ l.missed = disk.occs[o].missed + N
  BY <1>5
<1> HIDE DEF l, m, c, N
<1>8. PICK q : q = Replay(disk, l)
  OBVIOUS
<1>9. q = OccPut(disk, o, [disk.occs[o] EXCEPT !.missed = disk.occs[o].missed + N])
  <2>1. q = OccPut(disk, o, OccLine(disk.occs[o], l))
    BY <1>2, <1>5, <1>7, <1>8, ReplayOcc DEF OccTypes, Has
  <2>2. OccLine(disk.occs[o], l) = [disk.occs[o] EXCEPT !.missed = disk.occs[o].missed + N]
    BY <1>7 DEF OccLine
  <2> QED BY <2>1, <2>2
<1>10. /\ q.jobs = disk.jobs /\ DOMAIN q.occs = DOMAIN disk.occs
       /\ OnlyAt(j, disk.jobs, q.jobs) /\ OnlyAt(o, disk.occs, q.occs)
  BY <1>5, <1>9 DEF OccPut, OnlyAt, With
<1>11. ASSUME NEW i \in CoalescingIn(q) PROVE SlotsOfJob(q, c, now, crashes, i)
  <2>1. CASE i = j
    <3>1. j \in CoalescingIn(disk)
      BY <1>10, <2>1 DEF CoalescingIn
    <3>2. SlotsOfJob(disk, ctl, now, crashes, j) /\ N = Cardinality(DueIn(disk.jobs[j], now))
      BY <1>2, <3>1 DEF SlotsRight, SlotsKept, N
    <3> QED BY <1>2, <1>3, <1>5, <1>9, <2>1, <3>2, MergedSlots
  <2>2. CASE i # j
    BY <1>1, <1>3, <1>5, <1>10, <2>2, OthersTurn
  <2> QED BY <2>1, <2>2
<1>12. IsFiniteSet(DOMAIN q.occs)
  BY <1>10 DEF SlotsRight, SlotsKept
<1>13. SlotsKept(Replay(disk, l), c, now, crashes)
  BY <1>8, <1>11, <1>12 DEF SlotsKept
<1> QED BY <1>1, <1>3, <1>6, <1>13, LogSlots

(* ... so does the line of a new occurrence: one slot is its own.             *)
LEMMA MakeSlots ==
  ASSUME Undisturbed, Inv, Inv', SlotsRight, NEW j \in ctl.jobs, SweepCreate(j)
  PROVE  SlotsRight'
<1> DEFINE c == Due2nd(j)
           o == Target(j)
           l == [type |-> "occurrence.created", occ |-> o, reason |-> "schedule",
                 missed |-> MissedByNew(j), key |-> NoKey]
           m == [mem EXCEPT !.occs = With(@, o, NewOccurrence("schedule", MissedByNew(j)))]
<1>1. /\ Sweeping(j) /\ Others /\ Eligible(j) /\ Due(j) # {} /\ Waiting(j) = {} /\ ~Has(mem.occs, o)
      /\ Log(l, m, c)
  BY DEF SweepCreate, Makes
<1>2. /\ ctl.at = "sweep" /\ ~broken /\ Same(mem, disk) /\ j \in DOMAIN disk.jobs
      /\ Due(j) = DueIn(disk.jobs[j], now) /\ WellFormed(disk) /\ now \in Nat /\ ctl \in Control
      /\ Cardinality(Due(j)) - 1 \in Nat /\ SlotTaken(j) \in Due(j)
  BY <1>1, SweptJob, SlotBasics
<1>3. c.at = "advance" /\ c.job = j /\ c.jobs = ctl.jobs
  BY <1>2 DEF Due2nd, Control
<1>4. /\ JobOf(o) = j /\ SlotOf(o) = SlotTaken(j) /\ RevOf(o) = disk.jobs[j].rev
      /\ o \notin DOMAIN disk.occs
  BY <1>1, <1>2 DEF Target, OccId, JobOf, SlotOf, RevOf, Same, Has, JobRec
<1>5. /\ l.type = "occurrence.created" /\ l.occ = o /\ l.reason = "schedule"
      /\ l.missed = MissedByNew(j) /\ l.key = NoKey
  OBVIOUS
<1> HIDE DEF l, m, c, o
<1>6. PICK q, b : q = Replay(disk, l) /\ b = NewOccurrence("schedule", MissedByNew(j))
  OBVIOUS
<1>7. q.jobs = disk.jobs /\ q.occs = With(disk.occs, o, b)
  BY <1>2, <1>5, <1>6, ReplayCreated DEF OccMade
<1>8. b.state = "scheduled" /\ b.missed = Cardinality(Due(j)) - 1
  BY <1>6 DEF NewOccurrence, MissedByNew
<1>9. ASSUME NEW i \in CoalescingIn(q) PROVE SlotsOfJob(q, c, now, crashes, i)
  <2>1. CASE i = j
    <3>1. j \in CoalescingIn(disk)
      BY <1>7, <2>1 DEF CoalescingIn
    <3>2. SlotsOfJob(disk, ctl, now, crashes, j)
      BY <3>1 DEF SlotsRight, SlotsKept
    <3>3. \A x \in OwnIn(disk, j) : disk.occs[x].state # "claimed"
      BY <1>1, <3>1, SweptJob
    <3> QED BY <1>2, <1>3, <1>4, <1>7, <1>8, <2>1, <3>2, <3>3, MadeSlots
  <2>2. CASE i # j
    <3>1. OnlyAt(j, disk.jobs, q.jobs) /\ OnlyAt(o, disk.occs, q.occs)
      BY <1>7 DEF OnlyAt
    <3> QED BY <1>1, <1>3, <1>4, <2>2, <3>1, OthersTurn
  <2> QED BY <2>1, <2>2
<1>10. IsFiniteSet(DOMAIN q.occs)
  <2>1. DOMAIN q.occs = DOMAIN disk.occs \cup {o}
    BY <1>7 DEF With
  <2> QED BY <2>1, FS_AddElement DEF SlotsRight, SlotsKept
<1>11. SlotsKept(Replay(disk, l), c, now, crashes)
  BY <1>6, <1>9, <1>10 DEF SlotsKept
<1> QED BY <1>1, <1>3, <1>11, LogSlots

(* The second line passes what the first one counted.                         *)
LEMMA AdvanceSlots ==
  ASSUME Undisturbed, Inv, Inv', SlotsRight, Advance
  PROVE  SlotsRight'
<1> DEFINE j == ctl.job
           last == Max(Due(j))
           l == [type |-> "job.schedule_advanced", job |-> j, through |-> last]
           m == [mem EXCEPT !.jobs[j].cursor = last]
           c == [ctl EXCEPT !.at = "sweep", !.jobs = @ \ {j}, !.job = 0]
<1>1. ctl.at = "advance" /\ Others /\ Log(l, m, c) /\ Advancing(ctl, j)
  BY DEF Advance, At, Advancing
<1>2. /\ ~broken /\ Same(mem, disk) /\ WellFormed(disk) /\ now \in Nat /\ ctl \in Control
  BY <1>1, SlotBasics
<1>3. /\ j \in DOMAIN disk.jobs /\ disk.jobs[j] \in Job /\ Due(j) = DueIn(disk.jobs[j], now)
      /\ Due(j) # {} /\ Due(j) \in SUBSET (0 .. now)
  <2>1. j \in DOMAIN mem.jobs /\ DueIn(mem.jobs[j], now) # {} /\ PlaceRight
    BY <1>1 DEF Inv, PlaceRight, Placed
  <2>2. Due(j) = DueIn(mem.jobs[j], now) /\ Due(j) \in SUBSET (0 .. now)
    BY <2>1, DueSlots
  <2> QED BY <1>2, <2>1, <2>2 DEF Same, WellFormed
<1>4. last \in Due(j) /\ \A s \in Due(j) : s <= last
  BY <1>2, <1>3, Ends
<1>5. c.at = "sweep" /\ c.jobs = ctl.jobs \ {j}
  BY <1>2 DEF Control
<1>6. l.type = "job.schedule_advanced" /\ l.job = j /\ l.through = last
  OBVIOUS
<1> HIDE DEF l, m, c, last
<1>7. PICK q : q = Replay(disk, l)
  OBVIOUS
<1>8. q = JobPut(disk, j, [disk.jobs[j] EXCEPT !.cursor = last])
  <2>1. q = JobPut(disk, j, JobLine(disk.jobs[j], l))
    BY <1>2, <1>3, <1>6, <1>7, ReplayJob DEF JobTypes, Has
  <2>2. JobLine(disk.jobs[j], l) = [disk.jobs[j] EXCEPT !.cursor = Later(disk.jobs[j].cursor, last)]
    BY <1>6 DEF JobLine
  <2>3. Later(disk.jobs[j].cursor, last) = last
    <3>1. disk.jobs[j].cursor \in Nat
      BY <1>3 DEF Job
    <3>2. last > disk.jobs[j].cursor
      BY <1>3, <1>4, <3>1 DEF DueIn
    <3> QED BY <3>2 DEF Later
  <2> QED BY <2>1, <2>2, <2>3
<1>9. q.occs = disk.occs /\ q.jobs = With(disk.jobs, j, [disk.jobs[j] EXCEPT !.cursor = last])
  BY <1>8 DEF JobPut
<1>10. ASSUME NEW i \in CoalescingIn(q) PROVE SlotsOfJob(q, c, now, crashes, i)
  <2>1. CASE i = j
    <3>1. j \in CoalescingIn(disk)
      BY <1>3, <1>9, <2>1 DEF CoalescingIn, With, Job
    <3>2. SlotsOfJob(disk, ctl, now, crashes, j)
      BY <3>1 DEF SlotsRight, SlotsKept
    <3> QED BY <1>1, <1>2, <1>3, <1>4, <1>5, <1>8, <2>1, <3>2, AdvancedSlots
  <2>2. CASE i # j
    <3>1. PICK x : x = <<j, 0, 0>>
      OBVIOUS
    <3>2. JobOf(x) = j /\ OnlyAt(j, disk.jobs, q.jobs) /\ OnlyAt(x, disk.occs, q.occs)
      BY <1>9, <3>1 DEF JobOf, OnlyAt
    <3> QED BY <1>1, <1>5, <2>2, <3>2, OthersTurn
  <2> QED BY <2>1, <2>2
<1>11. IsFiniteSet(DOMAIN q.occs)
  BY <1>9 DEF SlotsRight, SlotsKept
<1>12. SlotsKept(Replay(disk, l), c, now, crashes)
  BY <1>7, <1>10, <1>11 DEF SlotsKept
<1> QED BY <1>1, <1>5, <1>12, LogSlots

(* A job is passed over when nothing is due, when it may not be swept, or     *)
(* when it waits for room: then nothing of it is ahead of its cursor.         *)
LEMMA PassSlots ==
  ASSUME Undisturbed, Inv, SlotsRight, NEW j \in ctl.jobs, SweepPass(j)
  PROVE  SlotsRight'
<1>1. /\ Sweeping(j)
      /\ ~Eligible(j) \/ Due(j) = {} \/ Stalled(j)
      /\ ctl' = [ctl EXCEPT !.jobs = @ \ {j}]
      /\ disk' = disk /\ mem' = mem /\ now' = now /\ crashes' = crashes
  BY DEF SweepPass, Others, store
<1>2. /\ ctl.at = "sweep" /\ Same(mem, disk) /\ disk.jobs[j] = mem.jobs[j]
      /\ ctl \in Control /\ now \in Nat
  BY <1>1, SweptJob, SlotBasics
<1>3. ctl'.at = "sweep" /\ ctl'.jobs = ctl.jobs \ {j}
  BY <1>1, <1>2 DEF Control
<1>4. ASSUME j \in CoalescingIn(disk)
      PROVE  \A o \in AheadIn(disk, j) : Aside(disk.jobs[j], o, now)
  <2>1. CASE Eligible(j)
    <3>1. \A o \in AheadIn(disk, j) :
            RevOf(o) < disk.jobs[j].rev \/ (SlotOf(o) \in Due(j) /\ o \in Waiting(j))
      BY <1>1, <1>4, <2>1, SweptJob
    <3> QED BY <1>1, <2>1, <3>1 DEF Stalled, Aside
  <2>2. CASE ~Eligible(j)
    <3>1. SlotsOfJob(disk, ctl, now, crashes, j)
      BY <1>4 DEF SlotsRight, SlotsKept
    <3>2. JobRec(j).state = "active" /\ JobRec(j).kind # "once"
      BY <1>2, <1>4, <3>1 DEF SlotsOfJob, JobRight, CoalescingIn, JobRec
    <3>3. CASE Expired(j)
      BY <1>2, <3>3 DEF Expired, Aside, Lapsed, JobRec
    <3>4. CASE OfJob(j, {"claimed"}) # {}
      <4>1. \E q \in OwnIn(disk, j) : disk.occs[q].state = "claimed"
        BY <1>2, <3>4 DEF OfJob, OwnIn, OccRec, Same
      <4> QED BY <3>1, <4>1 DEF SlotsOfJob, AheadRight
    <3> QED BY <2>2, <3>2, <3>3, <3>4 DEF Eligible
  <2> QED BY <2>1, <2>2
<1>5. ASSUME NEW i \in CoalescingIn(disk)
      PROVE  /\ ~Advancing(ctl', i) /\ ~Advancing(ctl, i)
             /\ \/ Swept(ctl', i) => Swept(ctl, i)
                \/ \A o \in AheadIn(disk, i) : Aside(disk.jobs[i], o, now)
  <2>1. CASE i = j
    BY <1>2, <1>3, <1>4, <2>1 DEF Advancing
  <2>2. CASE i # j
    BY <1>2, <1>3, <2>2 DEF Advancing, Swept
  <2> QED BY <2>1, <2>2
<1>6. SlotsKept(disk, ctl, now, crashes)'
  BY <1>1, <1>2, <1>3, <1>5, QuietSlots
<1> QED BY <1>3, <1>6 DEF SlotsRight

(* The cursor of a job that coalesces never passes slots by themselves: with  *)
(* room in the queue, their occurrence is made.                               *)
LEMMA DropSlots ==
  ASSUME Undisturbed, Inv, SlotsRight, NEW j \in ctl.jobs, SweepDrop(j)
  PROVE  SlotsRight'
<1>1. /\ Sweeping(j) /\ Eligible(j) /\ Due(j) # {} /\ ~Makes(j) /\ ~Stalled(j)
      /\ Coalesces(j) => Waiting(j) = {}
      /\ ctl' = Due2nd(j)
      /\ disk' = disk /\ mem' = mem /\ now' = now /\ crashes' = crashes
  BY DEF SweepDrop, Others, store
<1>2. /\ ctl.at = "sweep" /\ Same(mem, disk) /\ disk.jobs[j] = mem.jobs[j]
      /\ ctl \in Control /\ now \in Nat /\ SlotTaken(j) \in Due(j)
      /\ Due(j) = DueIn(disk.jobs[j], now) /\ disk.jobs[j] \in Job
  BY <1>1, SweptJob, SlotBasics
<1>3. ctl'.at = "advance" /\ ctl'.jobs = ctl.jobs /\ ctl'.job = j
  BY <1>1, <1>2 DEF Due2nd, Control
<1>4. j \notin CoalescingIn(disk)
  <2>1. SUFFICES ASSUME j \in CoalescingIn(disk) PROVE FALSE
    OBVIOUS
  <2>2. Coalesces(j) /\ Waiting(j) = {}
    BY <1>1, <1>2, <2>1 DEF Coalesces, CoalescingIn, JobRec
  <2>3. OpenCount \in Nat /\ Cap \in Nat
    <3>1. IsFiniteSet(DOMAIN mem.occs)
      BY <1>2 DEF SlotsRight, SlotsKept, Same
    <3>2. IsFiniteSet({o \in DOMAIN mem.occs : OccRec(o).state # "settled"})
      BY <3>1, FS_Subset
    <3> QED BY <3>2, FS_CardinalityType, AutomationAssumption DEF OpenCount, AutomationAssumption
  <2>4. Target(j) \in DOMAIN mem.occs
    BY <1>1, <2>2, <2>3 DEF Makes, Stalled, Has
  <2>5. /\ JobOf(Target(j)) = j /\ SlotOf(Target(j)) = SlotTaken(j)
        /\ RevOf(Target(j)) = disk.jobs[j].rev
    BY <1>2 DEF Target, OccId, JobOf, SlotOf, RevOf, JobRec
  <2>6. SlotTaken(j) > disk.jobs[j].cursor
    <3>1. disk.jobs[j].cursor \in Nat
      BY <1>2 DEF Job
    <3> QED BY <1>2, <3>1 DEF DueIn
  <2>7. Target(j) \in AheadIn(disk, j)
    BY <1>2, <2>4, <2>5, <2>6 DEF AheadIn, OwnIn, Same
  <2>8. Target(j) \in Waiting(j)
    <3>1. ~(RevOf(Target(j)) < disk.jobs[j].rev)
      BY <1>2, <2>5 DEF Job
    <3> QED BY <1>1, <2>1, <2>7, <3>1, SweptJob
  <2> QED BY <2>2, <2>8
<1>5. ASSUME NEW i \in CoalescingIn(disk)
      PROVE  /\ ~Advancing(ctl', i) /\ ~Advancing(ctl, i)
             /\ Swept(ctl', i) => Swept(ctl, i)
  BY <1>2, <1>3, <1>4 DEF Advancing, Swept, Early
<1>6. SlotsKept(disk, ctl, now, crashes)'
  BY <1>1, <1>2, <1>3, <1>5, QuietSlots
<1> QED BY <1>3, <1>6 DEF SlotsRight

(* When the sweep is done all jobs are swept.                                 *)
LEMMA DoneSlots ==
  ASSUME Undisturbed, Inv, SlotsRight, SweepDone
  PROVE  SlotsRight'
<1>1. /\ ctl.at = "sweep" /\ ctl.jobs = {} /\ ctl'.at = "recover"
      /\ disk' = disk /\ now' = now /\ crashes' = crashes /\ now \in Nat
  BY SlotBasics DEF SweepDone, At, Others, store, Idle
<1>2. ASSUME NEW i \in CoalescingIn(disk)
      PROVE  /\ ~Advancing(ctl', i) /\ ~Advancing(ctl, i)
             /\ Swept(ctl', i) => Swept(ctl, i)
  BY <1>1 DEF Advancing, Swept, Early
<1>3. SlotsKept(disk, ctl, now, crashes)'
  BY <1>1, <1>2, QuietSlots
<1> QED BY <1>1, <1>3 DEF SlotsRight

(* No turn of the sweep loses a slot.                                         *)
LEMMA SweepSlots ==
  ASSUME Undisturbed, Inv, Inv', SlotsRight, SweepStep
  PROVE  SlotsRight'
<1>1. ASSUME NEW j \in ctl.jobs,
             SweepPass(j) \/ SweepMerge(j) \/ SweepCreate(j) \/ SweepDrop(j)
      PROVE  SlotsRight'
  BY <1>1, PassSlots, MergeSlots, MakeSlots, DropSlots
<1> QED BY <1>1, AdvanceSlots, DoneSlots DEF SweepStep

(* The process: a tick begins, goes over to its sweep, the clock goes on; a   *)
(* crash forgives a slot counted twice from then on, and so loses none.       *)
LEMMA ProcessSlots ==
  ASSUME Undisturbed, Inv, SlotsRight,
         BeginTick \/ CommandsDone \/ Crash \/ Restart \/ Clock \/ UNCHANGED vars
  PROVE  SlotsRight'
<1>1. /\ ctl \in Control /\ now \in Nat /\ crashes \in Nat
      /\ ctl.at = "commands" => Same(mem, disk)
  BY SlotBasics
<1>2. CASE BeginTick \/ CommandsDone
  <2>1. /\ ctl.at \in {"idle", "commands"} /\ disk' = disk /\ now' = now /\ crashes' = crashes
        /\ ctl'.at = "commands" \/ (ctl'.at = "sweep" /\ ctl'.jobs = DOMAIN disk.jobs)
    <3>1. CASE BeginTick
      BY <1>1, <3>1 DEF BeginTick, At, Go, Others, store, Control
    <3>2. CASE CommandsDone
      <4>1. Same(mem, disk) /\ ctl' = [Idle EXCEPT !.at = "sweep", !.jobs = DOMAIN mem.jobs]
        BY <1>1, <3>2 DEF CommandsDone, At
      <4>2. ctl'.at = "sweep" /\ ctl'.jobs = DOMAIN mem.jobs
        BY <4>1 DEF Idle
      <4> QED BY <3>2, <4>1, <4>2 DEF CommandsDone, At, Others, store, Same
    <3> QED BY <1>2, <3>1, <3>2
  <2>2. ASSUME NEW i \in CoalescingIn(disk)
        PROVE  ~Advancing(ctl', i) /\ ~Advancing(ctl, i) /\ ~Swept(ctl', i)
    BY <2>1 DEF Advancing, Swept, Early, CoalescingIn
  <2>3. SlotsKept(disk, ctl, now, crashes)'
    BY <1>1, <2>1, <2>2, QuietSlots
  <2> QED BY <2>1, <2>3 DEF SlotsRight
<1>3. CASE Crash \/ Restart
  <2>1. /\ disk' = disk /\ now' = now /\ ctl'.at \in {"idle", "down"} /\ crashes' # 0
    <3>1. CASE Crash
      BY <1>1, <3>1 DEF Crash, Down, Idle
    <3>2. CASE Restart
      BY <3>2 DEF Restart, At, Idle, SlotsRight
    <3> QED BY <1>3, <3>1, <3>2
  <2>2. ASSUME NEW i \in CoalescingIn(disk) PROVE ~Advancing(ctl', i) /\ ~Swept(ctl', i)
    BY <2>1 DEF Advancing, Swept, Early
  <2>3. SlotsKept(disk, ctl, now, crashes)'
    BY <1>1, <2>1, <2>2, QuietSlots
  <2> QED BY <2>1, <2>3 DEF SlotsRight
<1>4. CASE Clock \/ UNCHANGED vars
  <2>1. /\ disk' = disk /\ mem' = mem /\ ctl' = ctl /\ crashes' = crashes
        /\ now' = now \/ (now' = now + 1 /\ ctl.at \in {"idle", "down"})
    BY <1>4 DEF Clock, At, Undisturbed, store, vars
  <2>2. ASSUME NEW i \in CoalescingIn(disk)
        PROVE  /\ Advancing(ctl', i) <=> Advancing(ctl, i)
               /\ Advancing(ctl, i) => now' = now
               /\ Swept(ctl', i) => Swept(ctl, i)
    BY <2>1 DEF Advancing, Swept
  <2>3. SlotsKept(disk, ctl, now, crashes)'
    BY <1>1, <2>1, <2>2, QuietSlots
  <2> QED BY <2>1, <2>3 DEF SlotsRight
<1> QED BY <1>2, <1>3, <1>4

(* The places after the sweep, and where their steps go.                      *)
LEMMA BeyondLog ==
  ASSUME Undisturbed, Inv, Inv', SlotsRight, Beyond(ctl), NEW l, l.type \in NoteTypes,
         NEW m, NEW c, Log(l, m, c), Others, c.at \notin {"cancel", "down", "first", "advance"}
  PROVE  SlotsRight'
<1>1. torn = FALSE
  BY SlotBasics
<1>2. disk' = disk \/ disk' = Replay(disk, l)
  BY <1>1 DEF Log, Appended, AppendFails, Written
<1>3. ctl'.at \notin {"cancel", "down", "first", "advance"}
  BY DEF Log, Halted, Idle
<1>4. UNCHANGED <<now, crashes>>
  BY DEF Others
<1> QED BY <1>2, <1>3, <1>4, BeyondSlots

(* ... with a line about an occurrence, or without one.                       *)
LEMMA BeyondQuiet ==
  ASSUME Undisturbed, Inv, Inv', SlotsRight, Beyond(ctl), UNCHANGED <<disk, now, crashes>>,
         ctl'.at \notin {"cancel", "down", "first", "advance"}
  PROVE  SlotsRight'
<1>1. PICK l : l = [type |-> "occurrence.bound"]
  OBVIOUS
<1>2. l.type \in NoteTypes
  BY <1>1 DEF NoteTypes
<1> QED BY <1>2, BeyondSlots

(* Recovery makes no slot and loses none,                                     *)
LEMMA RecoverSlots ==
  ASSUME Undisturbed, Inv, Inv', SlotsRight, RecoverStep
  PROVE  SlotsRight'
<1>1. ctl \in Control
  BY SlotBasics
<1>2. ctl.at = "recover" /\ Beyond(ctl)
  BY DEF RecoverStep, Redispatch, GiveUp, RecoverBlind, RecoverUnchanged, RecoverReply,
     RecoverDone, Recovering, At, Beyond, Early
<1>3. ASSUME NEW o \in ctl.occs, Redispatch(o) PROVE SlotsRight'
  <2>1. PICK l, m, c : /\ Log(l, m, c) /\ Others
                       /\ l.type = "occurrence.redispatched" /\ c = [ctl EXCEPT !.occs = @ \ {o}]
    BY <1>3 DEF Redispatch
  <2>2. l.type \in NoteTypes /\ c.at = "recover"
    BY <1>1, <1>2, <2>1 DEF NoteTypes, Control
  <2> QED BY <1>2, <2>1, <2>2, BeyondLog
<1>4. CASE RecoverDone \/ \E o \in ctl.occs :
             GiveUp(o) \/ RecoverBlind(o) \/ RecoverUnchanged(o) \/ RecoverReply(o)
  <2>1. disk' = disk /\ now' = now /\ crashes' = crashes
    BY <1>4 DEF RecoverDone, GiveUp, RecoverBlind, RecoverUnchanged, RecoverReply, StoreAside, store
  <2>2. ctl'.at \in {"settle", "observe", "enqueue", "deliver"}
    BY <1>1, <1>4 DEF RecoverDone, GiveUp, RecoverBlind, RecoverUnchanged, RecoverReply,
       Judged, InHand, Deliver, Control
  <2> QED BY <1>2, <2>1, <2>2, BeyondQuiet
<1> QED BY <1>3, <1>4 DEF RecoverStep

(* nor does delivery,                                                         *)
LEMMA DeliverSlots ==
  ASSUME Undisturbed, Inv, Inv', SlotsRight, DeliverStep \/ Enqueue
  PROVE  SlotsRight'
<1>1. ctl \in Control /\ (ctl.at = "deliver" => ctl.then # "idle")
  BY SlotBasics DEF Inv, PlaceRight, Placed
<1>2. Beyond(ctl) /\ UNCHANGED <<disk, now, crashes>>
  BY DEF DeliverStep, Publish, PublishFails, Flag, DeliverDone, Enqueue, Delivering, At, Beyond,
     Early, StoreIdle, store
<1>3. ctl'.at \notin {"cancel", "down", "first", "advance"}
  <2>1. ASSUME NEW d \in ctl.items, Publish(d) \/ PublishFails(d) \/ Flag(d)
        PROVE  ctl'.at = "deliver"
    BY <1>1, <2>1 DEF Publish, PublishFails, Flag, Delivering, At, Past, Control
  <2>2. CASE DeliverDone
    <3>1. ctl.then \in {"replied", "noticed", "claim"} /\ ctl.at = "deliver"
      BY <1>1, <2>2 DEF DeliverDone, At, Control
    <3>2. CASE ctl.then = "replied"
      BY <1>1, <2>2, <3>2 DEF DeliverDone, SettleAs, Control
    <3>3. CASE ctl.then = "noticed"
      BY <1>1, <2>2, <3>3 DEF DeliverDone, Control
    <3>4. CASE ctl.then = "claim"
      BY <2>2, <3>4 DEF DeliverDone, Halted, Idle
    <3> QED BY <3>1, <3>2, <3>3, <3>4
  <2>3. CASE Enqueue
    BY <1>1, <2>3 DEF Enqueue, Deliver, SettleAs, Control
  <2> QED BY <2>1, <2>2, <2>3 DEF DeliverStep
<1> QED BY <1>2, <1>3, BeyondQuiet

(* nor the claim of an occurrence,                                            *)
LEMMA ClaimSlots ==
  ASSUME Undisturbed, Inv, Inv', SlotsRight, ClaimStep
  PROVE  SlotsRight'
<1>1. ctl \in Control
  BY SlotBasics
<1>2. Beyond(ctl)
  BY DEF ClaimStep, LookForWork, NothingToClaim, CleanDoomed, ClaimDue, At, Beyond, Early
<1>3. CASE LookForWork \/ NothingToClaim
  <2>1. disk' = disk /\ now' = now /\ crashes' = crashes /\ ctl'.at \in {"clean", "idle"}
    BY <1>3 DEF LookForWork, NothingToClaim, StoreAside, store, Idle
  <2> QED BY <1>2, <2>1, BeyondQuiet
<1>4. ASSUME NEW o \in Scheduled, CleanDoomed(o) \/ ClaimDue(o) PROVE SlotsRight'
  <2>1. PICK l, m, c : /\ Log(l, m, c) /\ Others
                       /\ l.type \in {"occurrence.settled", "occurrence.claimed"}
                       /\ c.at \in {"clean", "open"}
    <3>1. CASE CleanDoomed(o)
      BY <3>1 DEF CleanDoomed, At
    <3>2. CASE ClaimDue(o)
      <4>1. PICK c : c = [Idle EXCEPT !.at = "open", !.occ = o]
        OBVIOUS
      <4>2. c.at = "open"
        BY <4>1 DEF Idle
      <4>3. \E l, m : Log(l, m, c) /\ Others /\ l.type = "occurrence.claimed"
        BY <3>2, <4>1 DEF ClaimDue
      <4> QED BY <4>2, <4>3
    <3> QED BY <1>4, <3>1, <3>2
  <2>2. l.type \in NoteTypes /\ c.at \notin {"cancel", "down", "first", "advance"}
    BY <2>1 DEF NoteTypes
  <2> QED BY <1>2, <2>1, <2>2, BeyondLog
<1> QED BY <1>3, <1>4 DEF ClaimStep

(* nor its turn,                                                              *)
LEMMA TurnSlots ==
  ASSUME Undisturbed, Inv, Inv', SlotsRight, TurnStep
  PROVE  SlotsRight'
<1>1. ctl \in Control /\ torn = FALSE
  BY SlotBasics
<1>2. Beyond(ctl)
  BY DEF TurnStep, OpenSession, TurnFails, AskModel, CutByBudget, Select, Failed, Speak, At,
     Beyond, Early
<1>3. CASE OpenSession
  <2>1. PICK l : /\ l.type = "occurrence.bound"
                 /\ Appended(l) \/ AppendFails(l)
                 /\ now' = now /\ crashes' = crashes /\ ctl'.at = "ask"
    BY <1>1, <1>3 DEF OpenSession, Control
  <2>2. l.type \in NoteTypes /\ (disk' = disk \/ disk' = Replay(disk, l))
    BY <1>1, <2>1 DEF NoteTypes, Appended, AppendFails, Written
  <2> QED BY <1>2, <2>1, <2>2, BeyondSlots
<1>4. CASE ~OpenSession
  <2>1. disk' = disk /\ now' = now /\ crashes' = crashes
    BY <1>4 DEF TurnStep, TurnFails, Failing, AskModel, CutByBudget, Select, Failed, Speak,
       StoreAside, store
  <2>2. ctl'.at \in {"failed", "turn", "select", "settle", "observe", "enqueue", "notice"}
    BY <1>1, <1>4 DEF TurnStep, TurnFails, Failing, AskModel, CutByBudget, Select, Failed, Speak,
       Go, SettleAs, Control
  <2> QED BY <1>2, <2>1, <2>2, BeyondQuiet
<1> QED BY <1>3, <1>4

(* nor what settles it.                                                       *)
LEMMA TailSlots ==
  ASSUME Undisturbed, Inv, Inv', SlotsRight, ObserveResult \/ Settle
  PROVE  SlotsRight'
<1>1. ctl \in Control
  BY SlotBasics
<1>2. Beyond(ctl)
  BY DEF ObserveResult, Settle, At, Beyond, Early
<1>3. PICK l, m, c : /\ Log(l, m, c) /\ Others
                     /\ l.type \in {"occurrence.settled", "occurrence.observed"}
                     /\ c.at \in {"settle", "idle", "recover"}
  <2>1. CASE ObserveResult
    <3>1. SettleAs(ctl.verdict).at = "settle"
      BY <1>1 DEF SettleAs, Control
    <3> QED BY <2>1, <3>1 DEF ObserveResult
  <2>2. CASE Settle
    <3>1. PICK c : c = [Idle EXCEPT !.at = ctl.back, !.occs = ctl.occs]
      OBVIOUS
    <3>2. c.at \in {"idle", "recover"}
      BY <1>1, <3>1 DEF Idle, Control
    <3>3. \E l, m : Log(l, m, c) /\ Others /\ l.type = "occurrence.settled"
      BY <2>2, <3>1 DEF Settle
    <3> QED BY <3>2, <3>3
  <2> QED BY <2>1, <2>2
<1>4. l.type \in NoteTypes /\ c.at \notin {"cancel", "down", "first", "advance"}
  BY <1>3 DEF NoteTypes
<1> QED BY <1>2, <1>3, <1>4, BeyondLog

(* Every step keeps the slots right.                                          *)
LEMMA SlotsStep ==
  ASSUME Undisturbed, Inv, SlotsRight, [Next]_vars
  PROVE  SlotsRight'
<1>1. Inv'
  BY InvStep
<1>2. CASE Commands \/ CommandStep
  BY <1>1, <1>2, CommandsSlots, FirstSlots
<1>3. CASE SweepStep
  BY <1>1, <1>3, SweepSlots
<1>4. CASE RecoverStep \/ DeliverStep \/ ClaimStep \/ TurnStep \/ TailStep
  BY <1>1, <1>4, RecoverSlots, DeliverSlots, ClaimSlots, TurnSlots, TailSlots DEF TailStep
<1>5. CASE BeginTick \/ CommandsDone \/ Crash \/ Restart \/ Clock \/ UNCHANGED vars
  BY <1>5, ProcessSlots
<1> QED BY <1>2, <1>3, <1>4, <1>5 DEF Next

(* At the start there is no job.                                              *)
LEMMA SlotsStart ==
  ASSUME Init
  PROVE  SlotsRight
<1>1. DOMAIN disk.jobs = {} /\ DOMAIN disk.occs = {} /\ ctl.at = "idle"
  BY DEF Init, Blank, Empty, Idle
<1>2. IsFiniteSet(DOMAIN disk.occs)
  BY <1>1, FS_EmptySet
<1>3. CoalescingIn(disk) = {}
  BY <1>1 DEF CoalescingIn
<1> QED BY <1>1, <1>2, <1>3 DEF SlotsRight, SlotsKept

(* Between ticks, each slot a coalescing job has behind its cursor has an     *)
(* occurrence of its own or is counted as missed in another one, and as long  *)
(* as the process was never restarted exactly once, however many slots, jobs  *)
(* and restarts there are, whatever fails and however small the queue is:     *)
(* when no line is torn, the clock is not set back and commands neither run a *)
(* job nor stop it, change its schedule or make it one that coalesces.        *)
THEOREM SlotsHold ==
  ASSUME Undisturbed
  PROVE  Spec => []SlotsAccounted
<1>1. Inv /\ SlotsRight => SlotsAccounted
  <2>1. SUFFICES ASSUME Inv, SlotsRight, ctl.at = "idle", NEW j \in Coalescing
                 PROVE  Counted(j) >= Passed(j) /\ (crashes = 0 => Counted(j) = Passed(j))
    BY DEF SlotsAccounted, At
  <2>2. Coalescing = CoalescingIn(disk)
    BY DEF Coalescing, CoalescingIn
  <2>3. SlotsOfJob(disk, ctl, now, crashes, j) /\ j \in DOMAIN disk.jobs
    BY <2>1, <2>2 DEF SlotsRight, SlotsKept, CoalescingIn
  <2>4. Passed(j) = Cardinality(PassedIn(disk, j)) /\ Counted(j) = CountedIn(disk, j)
    BY DEF Passed, PassedIn, Counted, CountedIn, Missed, MissedIn, MissedBy, OnSlot, OnSlotIn,
       Stands, Own, OwnIn
  <2>5. Passed(j) \in Nat /\ WellFormed(disk) /\ now \in Nat
    BY <2>1, <2>3, <2>4, SlotBasics, CountsAreNat
  <2>6. StillDue(disk, ctl, now, j) = 0
    BY <2>1 DEF StillDue, Advancing
  <2> QED BY <2>1, <2>3, <2>4, <2>5, <2>6 DEF SlotsOfJob, CountRight
<1>2. Init => Inv /\ SlotsRight
  BY InitRight, SlotsStart
<1>3. Inv /\ SlotsRight /\ [Next]_vars => Inv' /\ SlotsRight'
  BY SlotsStep, InvStep
<1> QED BY <1>1, <1>2, <1>3, PTL DEF Spec
=============================================================================
