-------------------------- MODULE MemoryQueueProofs --------------------------
(* Proofs about MemoryQueue for any set of hosts, any number of workers and   *)
(* jobs, any operations and any bounds. The inductive invariant says what     *)
(* worker.lock and memory.lock protect: at most one worker has a batch, it is *)
(* the lower part of the queue, and between the write of a topic and the      *)
(* receipt nobody else touches the store.                                     *)
EXTENDS MemoryQueue, WellFoundedInduction, TLAPS

(* Stages of a worker that has a batch, of one that holds worker.lock, and of *)
(* one that holds memory.lock.                                                *)
Batched(w) == worker[w].at \in {"check", "mlock", "apply", "index", "receipt", "remove", "archive"}
Serving(w) == Batched(w) \/ worker[w].at \in {"scan", "rescan", "leave"}
Writing(w) == worker[w].at \in {"apply", "index", "receipt"}

(* Jobs are taken from the numbers in their order, and are nothing before.    *)
UsedInOrder ==
  /\ \A i, j \in Jobs : i < j /\ place[j] # "none" => place[i] # "none"
  /\ \A j \in Jobs : place[j] = "none" => job[j] = NoJob

(* A lock that a worker acts under is its own.                                *)
LocksHeld(w) ==
  /\ Serving(w) => wlock = w
  /\ Writing(w) => mlock = w

(* A batch is a lower part of the queue: what waits and is older than a job   *)
(* of the batch is in it.                                                     *)
BatchLow(w) ==
  /\ Batched(w) <=> worker[w].batch # {}
  /\ worker[w].batch \subseteq Pending
  /\ \A b \in worker[w].batch : \A i \in Pending : i < b => i \in worker[w].batch

(* How far the job at hand is: nothing is written for one with a receipt, a   *)
(* file is removed after a commit, and the index is made of what the job      *)
(* wrote.                                                                     *)
JobAtHand(w) ==
  /\ At(w, "mlock") \/ Writing(w) => receipt[First(w)] = "none"
  /\ At(w, "remove") => receipt[First(w)] = "committed"
  /\ At(w, "index") \/ (At(w, "receipt") /\ worker[w].ok) =>
       topic = Effect(First(w)) /\ applied[First(w)] > 0
  /\ At(w, "receipt") /\ worker[w].ok => catalog = topic

WorkersRight == \A w \in Workers : LocksHeld(w) /\ BatchLow(w) /\ JobAtHand(w)

(* The editor writes under memory.lock, too.                                  *)
EditorHolds == edit.at \in {"write", "index"} => mlock = Editor

(* A job that was retried has left the queue without a commit.                *)
RetriedFailed ==
  \A i, j \in Jobs : job[i].from = j => place[j] \in {"failed", "gone"} /\ receipt[j] # "committed"

(* What a host accounts for was put into the queue; what it looks for in      *)
(* failed/ has left pending/.                                                 *)
Tracks(h) ==
  /\ \A j \in host[h].tracked \cup host[h].left \cup host[h].keep : place[j] # "none"
  /\ HostAt(h, "unfail") => host[h].job \in Jobs /\ place[host[h].job] # "none"
  /\ HostAt(h, "pending") \/ HostAt(h, "failed") => host[h].left # {}
  /\ HostAt(h, "failed") => place[Item(h)] \in {"failed", "gone"}

HostsTrack == \A h \in Hosts : Tracks(h)

(* A user hears of a job that the queue has let go of, or that is settled.    *)
HeardIsOver ==
  \A j \in Jobs : heard[j] # "none" => receipt[j] # "none" \/ place[j] \in {"failed", "gone"}

IInv ==
  /\ TypeOK /\ UsedInOrder /\ WorkersRight /\ EditorHolds
  /\ RetriedFailed /\ HostsTrack /\ HeardIsOver /\ NothingLost

-----------------------------------------------------------------------------
(* The first of a batch, and who has one.                                     *)

(* The names in a directory have a least one, which the sort puts first.      *)
LEMMA MinIsLeast ==
  ASSUME NEW S \in SUBSET Nat, S # {}
  PROVE  /\ Min(S) \in S
         /\ \A k \in S : Min(S) <= k
<1> DEFINE R == OpToRel(<, Nat)
<1>1. IsWellFoundedOn(R, Nat)
  BY NatLessThanWellFounded
<1>2. ASSUME NEW x \in Nat, NEW y \in Nat, x < y PROVE <<x, y>> \in R
  BY <1>2 DEF OpToRel
<1> HIDE DEF R
<1>3. S \subseteq Nat
  OBVIOUS
<1>4. PICK m \in S : \A y \in S : ~ (<<y, m>> \in R)
  BY <1>1, <1>3, WFMin
<1>5. ASSUME NEW k \in S PROVE m <= k
  <2>1. m \in Nat /\ k \in Nat
    BY <1>3
  <2>2. ~(k < m)
    BY <1>2, <1>4, <2>1
  <2> QED BY <2>1, <2>2
<1>6. \E x \in S : \A y \in S : x =< y
  BY <1>4, <1>5
<1> QED BY <1>6 DEF Min

(* The job at hand is the oldest of all that wait.                            *)
LEMMA FirstIsOldest ==
  ASSUME IInv, NEW w \in Workers, Batched(w)
  PROVE  /\ First(w) \in worker[w].batch
         /\ First(w) \in Jobs
         /\ place[First(w)] = "pending"
         /\ \A i \in Jobs : place[i] = "pending" => First(w) <= i
<1>1. worker[w].batch # {} /\ worker[w].batch \subseteq Pending
  BY DEF IInv, WorkersRight, BatchLow
<1>2. Pending \subseteq Nat /\ Pending \subseteq Jobs
  BY QueueAssumption DEF Pending, Jobs
<1>3. First(w) \in worker[w].batch /\ \A k \in worker[w].batch : First(w) <= k
  BY <1>1, <1>2, MinIsLeast DEF First
<1>4. place[First(w)] = "pending" /\ First(w) \in Jobs
  BY <1>1, <1>3 DEF Pending
<1>5. ASSUME NEW i \in Jobs, place[i] = "pending" PROVE First(w) <= i
  <2>1. i \in Pending
    BY <1>5 DEF Pending
  <2>2. i < First(w) => i \in worker[w].batch
    BY <1>3, <2>1 DEF IInv, WorkersRight, BatchLow
  <2>3. i \in Nat /\ First(w) \in Nat
    BY <1>4, QueueAssumption DEF Jobs
  <2> QED BY <1>3, <2>2, <2>3
<1> QED BY <1>3, <1>4, <1>5

(* One worker serves the queue, and who writes the store writes it alone.     *)
LEMMA OneServes ==
  ASSUME IInv, NEW w \in Workers, NEW x \in Workers
  PROVE  /\ Serving(w) /\ Serving(x) => w = x
         /\ Writing(w) /\ Writing(x) => w = x
         /\ Writing(w) => mlock = w /\ mlock # Nobody /\ mlock # Editor
         /\ Writing(w) => edit.at \notin {"write", "index"}
<1>1. w # Nobody /\ w # Editor
  BY QueueAssumption DEF Workers, Nobody, Editor
<1> QED BY <1>1 DEF IInv, WorkersRight, LocksHeld, EditorHolds

-----------------------------------------------------------------------------
(* What leaves a worker, a host or the books right.                           *)

(* A worker without a batch has nothing to get wrong but worker.lock.         *)
LEMMA IdleIsRight ==
  ASSUME NEW w \in Workers, ~Batched(w)', worker'[w].batch = {}, Serving(w)' => wlock' = w
  PROVE  (LocksHeld(w) /\ BatchLow(w) /\ JobAtHand(w))'
BY DEF LocksHeld, BatchLow, JobAtHand, Batched, Serving, Writing, At

(* A worker that does not move stays right as long as its locks are its own,  *)
(* the files stay, and nobody touches the store while it writes.              *)
LEMMA OthersStay ==
  ASSUME IInv, NEW w \in Workers,
         worker'[w].at = worker[w].at, worker'[w].batch = worker[w].batch, worker'[w].ok = worker[w].ok,
         UNCHANGED <<files, applied>>,
         Serving(w) => wlock' = wlock,
         Writing(w) => mlock' = mlock /\ UNCHANGED store
  PROVE  (LocksHeld(w) /\ BatchLow(w) /\ JobAtHand(w))'
<1>1. LocksHeld(w) /\ BatchLow(w) /\ JobAtHand(w)
  BY DEF IInv, WorkersRight
<1>2. First(w)' = First(w) /\ Pending' = Pending
  BY DEF First, Pending, files
<1>3. Writing(w) => Effect(First(w))' = Effect(First(w))
  BY <1>2 DEF Effect, files, store
<1>4. Batched(w)' = Batched(w) /\ Serving(w)' = Serving(w) /\ Writing(w)' = Writing(w)
  BY DEF Batched, Serving, Writing
<1>5. LocksHeld(w)'
  BY <1>1, <1>4 DEF LocksHeld
<1>6. BatchLow(w)'
  BY <1>1, <1>2, <1>4 DEF BatchLow
<1>7. JobAtHand(w)'
  BY <1>1, <1>2, <1>3, <1>4 DEF JobAtHand, At, files, store, Writing
<1> QED BY <1>5, <1>6, <1>7

(* What is said of jobs and hosts is said of the files, receipts, histories   *)
(* and hosts alone.                                                           *)
LEMMA BooksStay ==
  ASSUME IInv, UNCHANGED <<files, applied>>
  PROVE  UsedInOrder' /\ RetriedFailed' /\ NothingLost'
BY DEF IInv, UsedInOrder, RetriedFailed, NothingLost, files

(* A host that does not move still tracks what it tracked.                    *)
LEMMA HostsStay ==
  ASSUME IInv, NEW h \in Hosts, host'[h] = host[h], UNCHANGED files
  PROVE  Tracks(h)'
BY DEF IInv, HostsTrack, Tracks, HostAt, Item, files

-----------------------------------------------------------------------------
(* Types.                                                                     *)
JobType == [op : {"none"} \cup UNION {Ops[j] : j \in Jobs}, text : 0..MaxJob, from : 0..MaxJob]
WorkerType == [at : {"off", "lock", "scan", "rescan", "leave", "check", "mlock", "apply",
                     "index", "receipt", "remove", "archive", "clean", "unclean"},
               of : Hosts \cup {Nobody}, batch : SUBSET Jobs, ok : BOOLEAN]
HostType == [at : {"down", "idle", "wake", "unfail", "receipt", "pending", "failed"},
             job : 0..MaxJob, left : SUBSET Jobs, keep : SUBSET Jobs,
             tracked : SUBSET Jobs, backoff : BOOLEAN]

FilesType == /\ job \in [Jobs -> JobType]
             /\ place \in [Jobs -> {"none", "pending", "failed", "gone"}]
             /\ receipt \in [Jobs -> {"none", "committed", "failed"}]
StoreType == topic \in 0..Edited /\ catalog \in 0..Edited
WorkersType == worker \in [Workers -> WorkerType]
LocksType == wlock \in Workers \cup {Nobody} /\ mlock \in Workers \cup {Nobody, Editor}
HostsType == host \in [Hosts -> HostType]
EditType == edit \in [at : {"none", "open", "write", "index"}, begun : 0..MaxEdits]
ToldType == /\ applied \in [Jobs -> Nat]
            /\ heard \in [Jobs -> {"none", "committed", "failed", "lost"}]
BoundsType == faults \in 0..MaxFaults /\ crashes \in 0..MaxCrashes

(* The type invariant by its parts, and back.                                 *)
LEMMA TypeParts ==
  TypeOK <=> /\ FilesType /\ StoreType /\ WorkersType /\ LocksType
             /\ HostsType /\ EditType /\ ToldType /\ BoundsType
BY DEF TypeOK, JobType, WorkerType, HostType, FilesType, StoreType, WorkersType, LocksType,
       HostsType, EditType, ToldType, BoundsType

(* The same of the next state.                                                *)
LEMMA TypePartsNext ==
  ASSUME FilesType', StoreType', WorkersType', LocksType', HostsType', EditType', ToldType', BoundsType'
  PROVE  TypeOK'
BY DEF TypeOK, JobType, WorkerType, HostType, FilesType, StoreType, WorkersType, LocksType,
       HostsType, EditType, ToldType, BoundsType

(* The records that processes start from are typed.                           *)
LEMMA OffTyped == Off \in WorkerType /\ Awake \in HostType /\ Down \in HostType
<1>1. Off \in WorkerType
  BY DEF Off, WorkerType
<1>2. Awake \in HostType
  BY QueueAssumption DEF Awake, HostType
<1>3. Down \in HostType
  BY <1>2 DEF Down, HostType
<1> QED BY <1>1, <1>2, <1>3

(* The initial state is typed.                                                *)
LEMMA InitTypes == Init => TypeOK
<1> SUFFICES ASSUME Init PROVE TypeOK
  OBVIOUS
<1>1. FilesType
  <2>1. NoJob \in JobType
    BY QueueAssumption DEF NoJob, JobType
  <2> QED BY <2>1 DEF Init, FilesType
<1>2. StoreType /\ LocksType /\ EditType /\ ToldType /\ BoundsType
  BY QueueAssumption DEF Init, StoreType, LocksType, EditType, ToldType, BoundsType, Edited
<1>3. WorkersType /\ HostsType
  BY OffTyped DEF Init, WorkersType, HostsType
<1> QED BY <1>1, <1>2, <1>3, TypeParts

(* A fault and a death are counted.                                           *)
LEMMA Counted ==
  ASSUME BoundsType
  PROVE  /\ Fault => faults' \in 0..MaxFaults
         /\ Dies => crashes' \in 0..MaxCrashes
BY QueueAssumption DEF BoundsType, Fault, Dies

-----------------------------------------------------------------------------
(* Steps of hosts that change neither files nor workers.                      *)
Calls(h) ==
  \/ BackoffOver(h) \/ Wake(h) \/ Restart(h)
  \/ DrainBegin(h) \/ DrainReceipt(h) \/ DrainPending(h) \/ DrainFailed(h) \/ DrainEnd(h)

(* The invariant holds after a step that leaves files, workers, locks, store  *)
(* and editor alone, if it holds of the hosts and of what they said.          *)
LEMMA CallsFrame ==
  ASSUME IInv, UNCHANGED <<files, store, worker, locks, edit, applied, bounds>>,
         HostsType', ToldType', HostsTrack', HeardIsOver'
  PROVE  IInv'
<1>1. FilesType' /\ StoreType' /\ WorkersType' /\ LocksType' /\ EditType' /\ BoundsType'
  BY TypeParts DEF IInv, FilesType, StoreType, WorkersType, LocksType, EditType, BoundsType,
                   files, store, locks, bounds
<1>2. TypeOK'
  BY <1>1, TypePartsNext
<1>3. UsedInOrder' /\ RetriedFailed' /\ NothingLost'
  BY BooksStay
<1>4. ASSUME NEW w \in Workers PROVE (LocksHeld(w) /\ BatchLow(w) /\ JobAtHand(w))'
  BY OthersStay DEF store, locks
<1>5. EditorHolds'
  BY DEF IInv, EditorHolds, locks
<1> QED BY <1>2, <1>3, <1>4, <1>5 DEF IInv, WorkersRight

(* The item a round of accounting is at is one of those left.                 *)
LEMMA ItemIsLeft ==
  ASSUME IInv, NEW h \in Hosts, host[h].left # {}
  PROVE  Item(h) \in host[h].left /\ Item(h) \in Jobs /\ place[Item(h)] # "none"
<1>1. host[h].left \subseteq Jobs /\ Jobs \subseteq Nat
  BY TypeParts, QueueAssumption DEF IInv, HostsType, HostType, Jobs
<1>2. Item(h) \in host[h].left
  BY <1>1, MinIsLeast DEF Item
<1> QED BY <1>1, <1>2 DEF IInv, HostsTrack, Tracks

(* Rounds of accounting, wakes and restarts keep the invariant.               *)
LEMMA CallsKeep ==
  ASSUME IInv, NEW h \in Hosts, Calls(h)
  PROVE  IInv'
<1>1. UNCHANGED <<files, store, worker, locks, edit, applied, bounds>>
  BY DEF Calls, BackoffOver, Wake, Restart, DrainBegin, DrainReceipt, DrainPending, DrainFailed,
         DrainEnd, told, bounds
<1>2. HostsType /\ ToldType /\ FilesType /\ host[h] \in HostType
  BY TypeParts DEF IInv, HostsType
<1>3. \A j \in Jobs : place[j] # "none" => place[j] \in {"pending", "failed", "gone"}
  BY <1>2 DEF FilesType
<1>4. CASE BackoffOver(h) \/ Wake(h) \/ DrainBegin(h) \/ DrainEnd(h)
  <2>1. \A x \in Hosts : x # h => host'[x] = host[x]
    BY <1>2, <1>4 DEF BackoffOver, Wake, DrainBegin, DrainEnd, HostsType
  <2>2. HostsType'
    <3>1. CASE BackoffOver(h)
      BY <1>2, <3>1 DEF BackoffOver, HostsType, HostType
    <3>2. CASE Wake(h)
      BY <1>2, <3>2 DEF Wake, HostsType, HostType
    <3>3. CASE DrainBegin(h)
      BY <1>2, <3>3 DEF DrainBegin, HostsType, HostType
    <3>4. CASE DrainEnd(h)
      BY <1>2, <3>4 DEF DrainEnd, HostsType, HostType
    <3> QED BY <1>4, <3>1, <3>2, <3>3, <3>4
  <2>3. ToldType' /\ HeardIsOver'
    BY <1>2, <1>4 DEF IInv, BackoffOver, Wake, DrainBegin, DrainEnd, told, files, ToldType,
       HeardIsOver
  <2>4. Tracks(h)'
    <3>0. Tracks(h)
      BY DEF IInv, HostsTrack
    <3>1. CASE BackoffOver(h)
      <4>1. /\ host'[h].at = host[h].at /\ host'[h].job = host[h].job /\ host'[h].left = host[h].left
            /\ host'[h].keep = host[h].keep /\ host'[h].tracked = host[h].tracked
        BY <1>2, <3>1 DEF BackoffOver, HostsType, HostType
      <4> QED BY <1>1, <3>0, <4>1 DEF Tracks, HostAt, Item, files
    <3>2. CASE Wake(h) \/ DrainBegin(h) \/ DrainEnd(h)
      <4>1. /\ host'[h].at \in {"wake", "receipt", "idle"}
            /\ host'[h].tracked \cup host'[h].left \cup host'[h].keep
                 \subseteq host[h].tracked \cup host[h].left \cup host[h].keep
        <5>1. CASE Wake(h)
          BY <1>2, <5>1 DEF Wake, HostsType, HostType
        <5>2. CASE DrainBegin(h)
          BY <1>2, <5>2 DEF DrainBegin, HostsType, HostType
        <5>3. CASE DrainEnd(h)
          BY <1>2, <5>3 DEF DrainEnd, HostsType, HostType
        <5> QED BY <3>2, <5>1, <5>2, <5>3
      <4> QED BY <1>1, <3>0, <4>1 DEF Tracks, HostAt, files
    <3> QED BY <1>4, <3>1, <3>2
  <2>5. ASSUME NEW x \in Hosts PROVE Tracks(x)'
    BY <1>1, <2>1, <2>4, HostsStay
  <2> QED BY <1>1, <2>2, <2>3, <2>5, CallsFrame DEF HostsTrack
<1>5. CASE Restart(h)
  <2>1. HostsType'
    BY <1>2, <1>5, OffTyped DEF Restart, HostsType, HostType
  <2>2. ToldType' /\ HeardIsOver'
    BY <1>2, <1>5 DEF IInv, Restart, told, files, ToldType, HeardIsOver
  <2>3. Tracks(h)'
    BY <1>2, <1>5 DEF Restart, Awake, Tracks, HostAt, HostsType
  <2>4. ASSUME NEW x \in Hosts PROVE Tracks(x)'
    BY <1>1, <1>2, <1>5, <2>3, HostsStay DEF Restart, HostsType
  <2> QED BY <1>1, <2>1, <2>2, <2>4, CallsFrame DEF HostsTrack
<1>6. CASE DrainReceipt(h) \/ DrainPending(h) \/ DrainFailed(h)
  <2>1. host[h].left # {} /\ ~HostAt(h, "unfail")
    BY <1>6 DEF DrainReceipt, DrainPending, DrainFailed, IInv, HostsTrack, Tracks, HostAt
  <2>2. Item(h) \in host[h].left /\ Item(h) \in Jobs /\ place[Item(h)] \in {"pending", "failed", "gone"}
    BY <1>3, <2>1, ItemIsLeft
  <2>3. \A x \in Hosts : x # h => host'[x] = host[x]
    BY <1>2, <1>6 DEF DrainReceipt, DrainPending, DrainFailed, Tell, HostsType
  <2>4. /\ HostsType'
        /\ host'[h].at \in {"receipt", "pending", "failed"} /\ host'[h].tracked = host[h].tracked
        /\ host'[h].left \subseteq host[h].left /\ host'[h].keep \subseteq host[h].keep \cup host[h].left
        /\ host'[h].at \in {"pending", "failed"} => host'[h].left = host[h].left
        /\ host'[h].at = "failed" => place[Item(h)] \in {"failed", "gone"}
    <3>1. CASE DrainReceipt(h) /\ receipt[Item(h)] # "none"
      BY <1>2, <3>1 DEF DrainReceipt, Tell, HostsType, HostType
    <3>2. CASE DrainReceipt(h) /\ receipt[Item(h)] = "none"
      BY <1>2, <3>2 DEF DrainReceipt, HostsType, HostType
    <3>3. CASE DrainPending(h) /\ place[Item(h)] = "pending"
      BY <1>2, <2>2, <3>3 DEF DrainPending, HostsType, HostType
    <3>4. CASE DrainPending(h) /\ place[Item(h)] # "pending"
      BY <1>2, <2>2, <3>4 DEF DrainPending, HostsType, HostType
    <3>5. CASE DrainFailed(h)
      BY <1>2, <3>5 DEF DrainFailed, Tell, HostsType, HostType
    <3> QED BY <1>6, <3>1, <3>2, <3>3, <3>4, <3>5
  <2>5. HostsType'
    BY <2>4
  <2>6. Tracks(h)'
    <3>1. host'[h].at \in {"pending", "failed"} => Item(h)' = Item(h)
      BY <2>4 DEF Item
    <3> QED BY <1>1, <2>1, <2>4, <3>1 DEF IInv, HostsTrack, Tracks, HostAt, files
  <2>7. ASSUME NEW x \in Hosts PROVE Tracks(x)'
    BY <1>1, <2>3, <2>6, HostsStay
  <2>8. ToldType' /\ HeardIsOver'
    <3>1. UNCHANGED heard \/ \E o \in {"committed", "failed", "lost"} :
            /\ heard' = [heard EXCEPT ![Item(h)] = o]
            /\ receipt[Item(h)] # "none" \/ place[Item(h)] \in {"failed", "gone"}
      BY <1>2, <1>6, <2>2 DEF DrainReceipt, DrainPending, DrainFailed, Tell, told, FilesType, IInv,
                              HostsTrack, Tracks
    <3> QED BY <1>1, <1>2, <3>1 DEF IInv, ToldType, HeardIsOver, files
  <2> QED BY <1>1, <2>5, <2>7, <2>8, CallsFrame DEF HostsTrack
<1> QED BY <1>4, <1>5, <1>6 DEF Calls

-----------------------------------------------------------------------------
(* A job put into the queue is the youngest of all.                           *)
LEMMA IssueFrame ==
  ASSUME IInv, NEW j \in Jobs, Unused(j), NEW r \in JobType,
         job' = [job EXCEPT ![j] = r], place' = [place EXCEPT ![j] = "pending"],
         r.from # 0 => place[r.from] = "failed" /\ receipt[r.from] # "committed",
         UNCHANGED <<receipt, store, worker, locks, edit, told, bounds>>,
         HostsType', HostsTrack'
  PROVE  IInv'
<1>1. /\ FilesType /\ StoreType /\ WorkersType /\ LocksType /\ EditType /\ ToldType /\ BoundsType
  BY TypeParts DEF IInv
<1>2. FilesType'
  BY <1>1 DEF FilesType
<1>3. TypeOK'
  BY <1>1, <1>2, TypePartsNext DEF StoreType, WorkersType, LocksType, EditType, ToldType,
     BoundsType,
                                   store, locks, told, bounds
<1>4. place[j] = "none" /\ \A i \in Jobs : i < j => place[i] # "none"
  BY DEF Unused
<1>5. /\ place'[j] = "pending" /\ job'[j] = r
      /\ \A i \in Jobs : i # j => place'[i] = place[i] /\ job'[i] = job[i]
  BY <1>1 DEF FilesType
<1>6. UsedInOrder'
  BY <1>4, <1>5 DEF IInv, UsedInOrder
<1>7. \A i \in Jobs : place[i] # "none" => i < j
  <2> SUFFICES ASSUME NEW i \in Jobs, place[i] # "none" PROVE i < j
    OBVIOUS
  <2>1. i \in Nat /\ j \in Nat
    BY QueueAssumption DEF Jobs
  <2>2. ~(j < i) /\ i # j
    BY <1>4 DEF IInv, UsedInOrder
  <2> QED BY <2>1, <2>2
<1>8. ASSUME NEW w \in Workers PROVE (LocksHeld(w) /\ BatchLow(w) /\ JobAtHand(w))'
  <2>1. LocksHeld(w) /\ BatchLow(w) /\ JobAtHand(w)
    BY DEF IInv, WorkersRight
  <2>2. worker' = worker /\ First(w)' = First(w)
    BY DEF First
  <2>3. LocksHeld(w)'
    BY <2>1, <2>2 DEF LocksHeld, Serving, Batched, Writing, locks
  <2>4. Pending' = Pending \cup {j} /\ j \notin Pending
    BY <1>4, <1>5 DEF Pending
  <2>5. BatchLow(w)'
    <3>1. ASSUME NEW b \in worker[w].batch, NEW i \in Pending', i < b PROVE i \in worker[w].batch
      <4>1. b \in Pending /\ b \in Jobs /\ place[b] # "none"
        BY <2>1 DEF BatchLow, Pending
      <4>2. b < j /\ b \in Nat /\ j \in Nat
        BY <1>7, <4>1, QueueAssumption DEF Jobs
      <4>3. i # j
        BY <3>1, <4>2
      <4> QED BY <2>1, <2>4, <3>1, <4>3 DEF BatchLow
    <3> QED BY <2>1, <2>2, <2>4, <3>1 DEF BatchLow, Batched
  <2>6. CASE ~Batched(w)
    BY <2>2, <2>3, <2>5, <2>6 DEF JobAtHand, Batched, Writing, At
  <2>7. CASE Batched(w)
    <3>1. First(w) # j /\ First(w) \in Jobs
      BY <1>4, <2>7, FirstIsOldest
    <3>2. Effect(First(w))' = Effect(First(w))
      BY <1>5, <2>2, <3>1 DEF Effect, store
    <3>3. JobAtHand(w)'
      BY <2>1, <2>2, <3>2 DEF JobAtHand, Writing, At, store, told
    <3> QED BY <2>3, <2>5, <3>3
  <2> QED BY <2>3, <2>5, <2>6, <2>7
<1>9. j \in Nat \ {0}
  BY QueueAssumption DEF Jobs
<1>10. \A i, k \in Jobs : job'[i].from = k =>
         /\ place'[k] \in {"failed", "gone"} /\ receipt[k] # "committed"
         /\ job[i].from = k \/ i = j
  <2> SUFFICES ASSUME NEW i \in Jobs, NEW k \in Jobs, job'[i].from = k
               PROVE  /\ place'[k] \in {"failed", "gone"} /\ receipt[k] # "committed"
                      /\ job[i].from = k \/ i = j
    OBVIOUS
  <2>1. k # 0
    BY QueueAssumption DEF Jobs
  <2> QED BY <1>4, <1>5, <2>1 DEF IInv, RetriedFailed
<1>11. RetriedFailed'
  BY <1>10 DEF RetriedFailed
<1>12. NothingLost'
  <2> SUFFICES ASSUME NEW k \in Jobs
               PROVE  /\ place'[k] = "gone" =>
                           receipt[k] = "committed" \/ \E i \in Jobs : job'[i].from = k
                      /\ receipt[k] = "committed" =>
                           applied[k] > 0 /\ \A i \in Jobs : job'[i].from # k
    BY DEF NothingLost, told
  <2>1. ASSUME NEW i \in Jobs, job[i].from = k PROVE job'[i].from = k
    <3>1. job[j].from = 0 /\ k # 0
      BY <1>4, QueueAssumption DEF IInv, UsedInOrder, NoJob, Jobs
    <3> QED BY <1>5, <2>1, <3>1
  <2> QED BY <1>5, <1>10, <2>1 DEF IInv, NothingLost
<1>13. HeardIsOver'
  BY <1>4, <1>5 DEF IInv, HeardIsOver, told
<1>14. EditorHolds'
  BY DEF IInv, EditorHolds, locks
<1> QED BY <1>3, <1>6, <1>8, <1>11, <1>12, <1>13, <1>14 DEF IInv, WorkersRight

(* What a host tracks stays tracked when jobs are only added or moved on.     *)
LEMMA TracksOn ==
  ASSUME IInv, NEW h \in Hosts, host'[h] = host[h],
         \A j \in Jobs : /\ place[j] # "none" => place'[j] # "none"
                         /\ place[j] \in {"failed", "gone"} => place'[j] \in {"failed", "gone"}
  PROVE  Tracks(h)'
<1>1. Tracks(h) /\ host[h] \in HostType
  BY TypeParts DEF IInv, HostsTrack, HostsType
<1>2. host[h].tracked \cup host[h].left \cup host[h].keep \subseteq Jobs
  BY <1>1 DEF HostType
<1>3. HostAt(h, "failed") => Item(h) \in Jobs
  BY <1>1, ItemIsLeft DEF Tracks
<1>4. HostAt(h, "failed")' = HostAt(h, "failed") /\ Item(h)' = Item(h)
  BY DEF HostAt, Item
<1> QED BY <1>1, <1>2, <1>3, <1>4 DEF Tracks, HostAt

(* A new job keeps the invariant.                                             *)
LEMMA PersistKeeps ==
  ASSUME IInv, NEW h \in Hosts, NEW j \in Jobs, NEW op \in Ops[j], Persist(h, j, op)
  PROVE  IInv'
<1>1. [op |-> op, text |-> j, from |-> 0] \in JobType
  BY QueueAssumption DEF JobType, Jobs
<1>2. HostsType /\ FilesType /\ host[h] \in HostType
  BY TypeParts DEF IInv, HostsType
<1>3. /\ \A x \in Hosts : x # h => host'[x] = host[x]
      /\ HostsType' /\ host'[h].at = "wake" /\ host'[h].tracked = host[h].tracked \cup {j}
      /\ host'[h].left = host[h].left /\ host'[h].keep = host[h].keep
  BY <1>2 DEF Persist, HostsType, HostType
<1>4. \A i \in Jobs : /\ place[i] # "none" => place'[i] # "none"
                      /\ place[i] \in {"failed", "gone"} => place'[i] \in {"failed", "gone"}
  BY <1>2 DEF Persist, Unused, FilesType
<1>5. Tracks(h)'
  <2>1. place'[j] # "none"
    BY <1>2 DEF Persist, FilesType
  <2> QED BY <1>2, <1>3, <1>4, <2>1 DEF IInv, HostsTrack, Tracks, HostAt, HostType
<1>6. HostsTrack'
  BY <1>3, <1>4, <1>5, TracksOn DEF HostsTrack
<1> QED BY <1>1, <1>3, <1>6, IssueFrame DEF Persist

(* So does the retry of a failed one.                                         *)
LEMMA RetryKeeps ==
  ASSUME IInv, NEW h \in Hosts, NEW i \in Jobs, NEW j \in Jobs, RetryFailedJob(h, i, j)
  PROVE  IInv'
<1>1. HostsType /\ FilesType /\ host[h] \in HostType
  BY TypeParts DEF IInv, HostsType
<1>2. [op |-> job[i].op, text |-> job[i].text, from |-> i] \in JobType
  BY <1>1, QueueAssumption DEF FilesType, JobType, Jobs
<1>3. /\ \A x \in Hosts : x # h => host'[x] = host[x]
      /\ HostsType' /\ host'[h].at = "unfail" /\ host'[h].tracked = host[h].tracked
      /\ host'[h].job = j /\ host'[h].left = host[h].left /\ host'[h].keep = host[h].keep
  <2>1. j \in 0..MaxJob
    BY QueueAssumption DEF Jobs
  <2>2. host'[h] = [host[h] EXCEPT !.at = "unfail", !.job = j]
    BY <1>1 DEF RetryFailedJob, HostsType
  <2>3. host'[h] \in HostType
    BY <1>1, <2>1, <2>2 DEF HostType
  <2> QED BY <1>1, <2>2, <2>3 DEF RetryFailedJob, HostsType, HostType
<1>4. \A k \in Jobs : /\ place[k] # "none" => place'[k] # "none"
                      /\ place[k] \in {"failed", "gone"} => place'[k] \in {"failed", "gone"}
  BY <1>1 DEF RetryFailedJob, Unused, FilesType
<1>5. Tracks(h)'
  <2>1. place'[j] # "none"
    BY <1>1 DEF RetryFailedJob, FilesType
  <2> QED BY <1>1, <1>3, <1>4, <2>1 DEF IInv, HostsTrack, Tracks, HostAt, HostType
<1>6. HostsTrack'
  BY <1>3, <1>4, <1>5, TracksOn DEF HostsTrack
<1> QED BY <1>2, <1>3, <1>6, IssueFrame DEF RetryFailedJob

(* The failed file is removed once its retry is queued.                       *)
LEMMA RetryDoneKeeps ==
  ASSUME IInv, NEW h \in Hosts, RetryDone(h)
  PROVE  IInv'
<1>1. /\ FilesType /\ StoreType /\ WorkersType /\ LocksType /\ EditType /\ ToldType /\ BoundsType
      /\ HostsType /\ host[h] \in HostType
  BY TypeParts DEF IInv, HostsType
<1> DEFINE j == host[h].job
           i == job[j].from
<1>2. j \in Jobs /\ place[j] # "none" /\ i \in 0..MaxJob
  BY <1>1 DEF RetryDone, IInv, HostsTrack, Tracks, FilesType, JobType
<1>3. /\ place' = place \/ (place[i] = "failed" /\ place' = [place EXCEPT ![i] = "gone"])
      /\ faults' \in 0..MaxFaults
      /\ UNCHANGED <<job, receipt, store, worker, locks, edit, told, crashes>>
  BY <1>1, Counted DEF RetryDone, BoundsType
<1>4. /\ \A x \in Hosts : x # h => host'[x] = host[x]
      /\ HostsType' /\ host'[h].at = "wake" /\ host'[h].tracked = host[h].tracked \cup {j}
      /\ host'[h].left = host[h].left /\ host'[h].keep = host[h].keep
  <2>1. 0 \in 0..MaxJob /\ host[h].tracked \cup {j} \in SUBSET Jobs
    BY <1>1, <1>2, QueueAssumption DEF HostType
  <2>2. host'[h] = [host[h] EXCEPT !.at = "wake", !.job = 0, !.tracked = host[h].tracked \cup {j}]
    BY <1>1 DEF RetryDone, HostsType
  <2>3. host'[h] \in HostType
    BY <1>1, <2>1, <2>2 DEF HostType
  <2> QED BY <1>1, <2>2, <2>3 DEF RetryDone, HostsType, HostType
<1>5. FilesType'
  BY <1>1, <1>3 DEF FilesType
<1>6. TypeOK'
  BY <1>1, <1>3, <1>4, <1>5, TypePartsNext
     DEF StoreType, WorkersType, LocksType, EditType, ToldType, BoundsType, store, locks, told
<1>7. /\ \A k \in Jobs : /\ place'[k] = "pending" <=> place[k] = "pending"
                         /\ place'[k] = "none" <=> place[k] = "none"
                         /\ place[k] \in {"failed", "gone"} => place'[k] \in {"failed", "gone"}
      /\ \A k \in Jobs : place'[k] = "gone" => place[k] = "gone" \/ k = i
  BY <1>1, <1>3 DEF FilesType
<1>8. UsedInOrder' /\ RetriedFailed' /\ HeardIsOver' /\ EditorHolds'
  BY <1>3, <1>7 DEF IInv, UsedInOrder, RetriedFailed, HeardIsOver, EditorHolds, told, locks
<1>9. NothingLost'
  BY <1>2, <1>3, <1>7 DEF IInv, NothingLost, told
<1>10. ASSUME NEW w \in Workers PROVE (LocksHeld(w) /\ BatchLow(w) /\ JobAtHand(w))'
  <2>1. LocksHeld(w) /\ BatchLow(w) /\ JobAtHand(w)
    BY DEF IInv, WorkersRight
  <2>2. worker' = worker /\ First(w)' = First(w) /\ Pending' = Pending
    BY <1>3, <1>7 DEF First, Pending
  <2>3. Effect(First(w))' = Effect(First(w))
    BY <1>3, <2>2 DEF Effect, store
  <2>4. LocksHeld(w)' /\ BatchLow(w)'
    BY <1>3, <2>1, <2>2 DEF LocksHeld, BatchLow, Serving, Batched, Writing, locks
  <2>5. JobAtHand(w)'
    BY <1>3, <2>1, <2>2, <2>3 DEF JobAtHand, Writing, At, store, told
  <2> QED BY <2>4, <2>5
<1>11. Tracks(h)'
  BY <1>1, <1>2, <1>4, <1>7 DEF IInv, HostsTrack, Tracks, HostAt, HostType
<1>12. HostsTrack'
  BY <1>4, <1>7, <1>11, TracksOn DEF HostsTrack
<1> QED BY <1>6, <1>8, <1>9, <1>10, <1>12 DEF IInv, WorkersRight

-----------------------------------------------------------------------------
(* Steps that move workers and leave the files alone.                         *)
LEMMA WorkersFrame ==
  ASSUME IInv, UNCHANGED <<files, told>>, TypeOK', WorkersRight', HostsTrack', EditorHolds'
  PROVE  IInv'
<1>1. UsedInOrder' /\ RetriedFailed' /\ NothingLost'
  BY BooksStay DEF told
<1>2. HeardIsOver'
  BY DEF IInv, HeardIsOver, files, told
<1> QED BY <1>1, <1>2 DEF IInv

(* A worker is started with nothing in hand, and one that has exited is       *)
(* forgotten.                                                                 *)
LEMMA EnsureRunningKeeps ==
  ASSUME IInv, NEW h \in Hosts, EnsureRunning(h)
  PROVE  IInv'
<1>1. /\ FilesType /\ StoreType /\ WorkersType /\ LocksType /\ EditType /\ ToldType /\ BoundsType
      /\ HostsType /\ host[h] \in HostType
  BY TypeParts DEF IInv, HostsType
<1>2. UNCHANGED <<files, store, locks, edit, told, crashes>>
  BY DEF EnsureRunning
<1>3. /\ \A x \in Hosts : x # h => host'[x] = host[x]
      /\ HostsType' /\ host'[h].at = "idle" /\ host'[h].tracked = host[h].tracked
      /\ host'[h].left = host[h].left /\ host'[h].keep = host[h].keep
  BY <1>1 DEF EnsureRunning, HostsType, HostType
<1>4. faults' \in 0..MaxFaults
  BY <1>1, Counted DEF EnsureRunning, BoundsType
<1> DEFINE Young == [Off EXCEPT !.at = "lock", !.of = h]
<1>5. Young \in WorkerType
  BY OffTyped DEF WorkerType
<1>5a. Young.at = "lock" /\ Young.batch = {} /\ Off.at = "off" /\ Off.batch = {}
  BY DEF Off
<1>6. Reaped(h) \in [Workers -> WorkerType] /\ \A x \in Workers : Reaped(h)[x] \in {worker[x], Off}
  BY <1>1, OffTyped DEF Reaped, WorkersType
<1>7. /\ worker' \in [Workers -> WorkerType]
      /\ \A x \in Workers : worker'[x] \in {worker[x], Off, Young}
  <2>1. CASE worker' = Reaped(h)
    BY <1>6, <2>1
  <2>2. CASE \E w : worker' = [Reaped(h) EXCEPT ![w].at = "lock", ![w].of = h] /\ Reaped(h)[w] = Off
    BY <1>5, <1>6, <2>2
  <2>3. CASE /\ \E w \in Workers : Reaped(h)[w] = Off
             /\ LET w == Min({x \in Workers : Reaped(h)[x] = Off})
                IN  worker' = [Reaped(h) EXCEPT ![w].at = "lock", ![w].of = h]
    <3> DEFINE S == {x \in Workers : Reaped(h)[x] = Off}
    <3>1. S # {} /\ S \in SUBSET Nat
      BY <2>3, QueueAssumption DEF Workers
    <3>2. Min(S) \in S
      BY <3>1, MinIsLeast
    <3> QED BY <2>2, <2>3, <3>2
  <2> QED BY <2>1, <2>3 DEF EnsureRunning
<1>8. WorkersType'
  BY <1>7 DEF WorkersType
<1>9. TypeOK'
  BY <1>1, <1>2, <1>3, <1>4, <1>8, TypePartsNext
     DEF FilesType, StoreType, LocksType, EditType, ToldType, BoundsType, files, store, locks, told
<1>10. ASSUME NEW x \in Workers PROVE (LocksHeld(x) /\ BatchLow(x) /\ JobAtHand(x))'
  <2>1. CASE worker'[x] = worker[x]
    BY <1>2, <2>1, OthersStay DEF store, locks, told
  <2>2. CASE worker'[x] \in {Off, Young}
    <3>1. worker'[x].at \in {"off", "lock"} /\ worker'[x].batch = {}
      BY <1>5a, <2>2
    <3>2. worker'[x].at \notin {"check", "mlock", "apply", "index", "receipt", "remove", "archive",
                               "scan", "rescan", "leave"}
      BY <3>1
    <3>3. ~Batched(x)' /\ ~Serving(x)'
      BY <3>2 DEF Batched, Serving
    <3> QED BY <3>1, <3>3, IdleIsRight
  <2> QED BY <1>7, <2>1, <2>2
<1>11. EditorHolds'
  BY <1>2 DEF IInv, EditorHolds, locks
<1>12. Tracks(h)'
  BY <1>1, <1>2, <1>3 DEF IInv, HostsTrack, Tracks, HostAt, HostType, files
<1>13. HostsTrack'
  BY <1>2, <1>3, <1>12, HostsStay DEF HostsTrack
<1> QED BY <1>2, <1>9, <1>10, <1>11, <1>13, WorkersFrame DEF WorkersRight

(* A host that dies takes its workers with it, or leaves them to themselves.  *)
LEMMA HostDiesKeeps ==
  ASSUME IInv, NEW h \in Hosts, HostDies(h)
  PROVE  IInv'
<1>1. /\ FilesType /\ StoreType /\ WorkersType /\ LocksType /\ EditType /\ ToldType /\ BoundsType
      /\ HostsType /\ host[h] \in HostType
  BY TypeParts DEF IInv, HostsType
<1> DEFINE own == {w \in Workers : worker[w].of = h}
<1>2. UNCHANGED <<files, store, edit, told, faults>> /\ crashes' \in 0..MaxCrashes
  BY <1>1, Counted DEF HostDies
<1>3. HostsType' /\ host'[h] = Down /\ \A x \in Hosts : x # h => host'[x] = host[x]
  BY <1>1, OffTyped DEF HostDies, HostsType
<1>4. /\ WorkersType' /\ LocksType'
      /\ \A x \in Workers :
           \/ worker'[x] = Off
           \/ /\ worker'[x].at = worker[x].at /\ worker'[x].batch = worker[x].batch
              /\ worker'[x].ok = worker[x].ok
              /\ wlock' = wlock \/ (wlock' = Nobody /\ wlock # x)
              /\ mlock' = mlock \/ (mlock' = Nobody /\ mlock # x)
      /\ mlock' = mlock \/ mlock \in Workers
  <2>1. CASE /\ worker' = [w \in Workers |-> IF w \in own THEN Off ELSE worker[w]]
             /\ wlock' = Freed(wlock, own) /\ mlock' = Freed(mlock, own)
    BY <1>1, <2>1, OffTyped DEF WorkersType, LocksType, Freed
  <2>2. CASE /\ worker' = [w \in Workers |-> IF w \in Exited(h) THEN Off
                                             ELSE IF w \in own THEN [worker[w] EXCEPT !.of = Nobody]
                                             ELSE worker[w]]
             /\ UNCHANGED locks
    <3>1. \A w \in Workers : worker[w] \in WorkerType /\ [worker[w] EXCEPT !.of = Nobody] \in WorkerType
      BY <1>1 DEF WorkersType, WorkerType
    <3>2. WorkersType'
      BY <1>1, <2>2, <3>1, OffTyped DEF WorkersType
    <3>3. LocksType' /\ wlock' = wlock /\ mlock' = mlock
      BY <1>1, <2>2 DEF LocksType, locks
    <3> QED BY <2>2, <3>1, <3>2, <3>3 DEF WorkerType
  <2> QED BY <2>1, <2>2 DEF HostDies
<1>5. TypeOK'
  BY <1>1, <1>2, <1>3, <1>4, TypePartsNext
     DEF FilesType, StoreType, EditType, ToldType, BoundsType, files, store, told
<1>6. ASSUME NEW x \in Workers PROVE (LocksHeld(x) /\ BatchLow(x) /\ JobAtHand(x))'
  <2>1. CASE worker'[x] = Off
    BY <2>1, IdleIsRight DEF Off, Batched, Serving
  <2>2. CASE worker'[x] # Off
    <3>1. (Serving(x) => wlock = x) /\ (Writing(x) => mlock = x)
      BY DEF IInv, WorkersRight, LocksHeld
    <3> QED BY <1>2, <1>4, <2>2, <3>1, OthersStay DEF store, told
  <2> QED BY <2>1, <2>2
<1>7. EditorHolds'
  <2>1. Editor \notin Workers
    BY QueueAssumption DEF Editor, Workers
  <2> QED BY <1>2, <1>4, <2>1 DEF IInv, EditorHolds
<1>8. Tracks(h)'
  BY <1>3 DEF Tracks, HostAt, Down, Awake
<1>9. HostsTrack'
  BY <1>2, <1>3, <1>8, HostsStay DEF HostsTrack
<1> QED BY <1>2, <1>5, <1>6, <1>7, <1>9, WorkersFrame DEF WorkersRight

(* A step of one worker does not disturb another.                             *)
LEMMA WorkerFrame ==
  ASSUME IInv, NEW w \in Workers, WorkersType', \A x \in Workers : x # w => worker'[x] = worker[x],
         UNCHANGED <<files, host, edit, told>>, StoreType', LocksType', BoundsType',
         wlock' # wlock => (wlock = Nobody \/ wlock = w),
         mlock' # mlock => (mlock = Nobody \/ mlock = w),
         Writing(w) \/ UNCHANGED store,
         (LocksHeld(w) /\ BatchLow(w) /\ JobAtHand(w))'
  PROVE  IInv'
<1>1. FilesType /\ HostsType /\ EditType /\ ToldType
  BY TypeParts DEF IInv
<1>3. TypeOK'
  BY <1>1, TypePartsNext DEF FilesType, HostsType, EditType, ToldType, files, told
<1>4. Nobody \notin Workers /\ Editor \notin Workers /\ Editor # Nobody
  BY QueueAssumption DEF Editor, Workers, Nobody
<1>5. ASSUME NEW x \in Workers PROVE (LocksHeld(x) /\ BatchLow(x) /\ JobAtHand(x))'
  <2>1. CASE x # w
    <3>1. worker'[x] = worker[x]
      BY <2>1
    <3>2. (Serving(x) => wlock = x) /\ (Writing(x) => mlock = x)
      BY DEF IInv, WorkersRight, LocksHeld
    <3>3. Writing(x) => ~Writing(w)
      BY <2>1, OneServes
    <3> QED BY <1>4, <2>1, <3>1, <3>2, <3>3, OthersStay DEF told
  <2> QED BY <2>1
<1>6. EditorHolds'
  BY <1>4 DEF IInv, EditorHolds
<1>7. HostsTrack'
  BY HostsStay DEF HostsTrack
<1> QED BY <1>3, <1>5, <1>6, <1>7, WorkersFrame DEF WorkersRight

(* What Go and Exits do to a worker.                                          *)
Stages == {"off", "lock", "scan", "rescan", "leave", "check", "mlock", "apply",
           "index", "receipt", "remove", "archive", "clean", "unclean"}

(* A stage that follows a stage leaves the batch alone.                       *)
LEMMA Goes ==
  ASSUME WorkersType, NEW w \in Workers, NEW s \in Stages, Go(w, s)
  PROVE  /\ WorkersType' /\ \A x \in Workers : x # w => worker'[x] = worker[x]
         /\ worker'[w].at = s /\ worker'[w].batch = worker[w].batch /\ worker'[w].ok = worker[w].ok
<1>1. [worker[w] EXCEPT !.at = s] \in WorkerType /\ worker[w] \in WorkerType
  BY DEF WorkersType, WorkerType, Stages
<1>2. worker'[w] = [worker[w] EXCEPT !.at = s]
  BY DEF Go, WorkersType
<1>3. WorkersType' /\ \A x \in Workers : x # w => worker'[x] = worker[x]
  BY <1>1, <1>2 DEF Go, WorkersType
<1> QED BY <1>1, <1>2, <1>3 DEF WorkerType

(* A process that exits has nothing in hand, and worker.lock no more.         *)
LEMMA ExitIsTyped ==
  ASSUME WorkersType, LocksType, NEW w \in Workers, NEW code \in {"clean", "unclean"}, Exits(w, code)
  PROVE  /\ WorkersType' /\ \A x \in Workers : x # w => worker'[x] = worker[x]
         /\ worker'[w].at \in {"off", "clean", "unclean"} /\ worker'[w].batch = {}
         /\ wlock' \in {wlock, Nobody} /\ (wlock' # wlock => wlock = w)
<1> DEFINE Gone == [Off EXCEPT !.at = code, !.of = worker[w].of]
<1>1. worker[w].of \in Hosts \cup {Nobody}
  BY DEF WorkersType, WorkerType
<1>2. Gone \in WorkerType /\ Gone.at = code /\ Gone.batch = {}
  BY <1>1, OffTyped DEF WorkerType, Off
<1>3. Off \in WorkerType /\ Off.at = "off" /\ Off.batch = {}
  BY OffTyped DEF Off
<1> HIDE DEF Gone
<1>4. worker' = [worker EXCEPT ![w] = Off] \/ worker' = [worker EXCEPT ![w] = Gone]
  BY DEF Exits, Gone
<1>5. WorkersType' /\ worker'[w] \in {Off, Gone} /\ \A x \in Workers : x # w => worker'[x] = worker[x]
  BY <1>2, <1>3, <1>4 DEF WorkersType
<1> QED BY <1>2, <1>3, <1>5 DEF Exits

(* A worker that leaves, or dies, disturbs nothing.                           *)
LEMMA ExitKeeps ==
  ASSUME IInv, NEW w \in Workers, NEW code \in {"clean", "unclean"}, Exits(w, code),
         UNCHANGED <<files, store, host, edit, told>>, BoundsType',
         mlock' \in {mlock, Nobody}, mlock' # mlock => mlock = w
  PROVE  IInv'
<1>1. WorkersType /\ LocksType /\ StoreType
  BY TypeParts DEF IInv
<1>2. /\ WorkersType' /\ \A x \in Workers : x # w => worker'[x] = worker[x]
      /\ worker'[w].at \in {"off", "clean", "unclean"} /\ worker'[w].batch = {}
      /\ wlock' \in {wlock, Nobody} /\ (wlock' # wlock => wlock = w)
  BY <1>1, ExitIsTyped
<1>3. (LocksHeld(w) /\ BatchLow(w) /\ JobAtHand(w))'
  <2>1. worker'[w].at \notin {"check", "mlock", "apply", "index", "receipt", "remove", "archive",
                              "scan", "rescan", "leave"}
    BY <1>2
  <2>2. ~Batched(w)' /\ ~Serving(w)'
    BY <2>1 DEF Batched, Serving
  <2> QED BY <1>2, <2>2, IdleIsRight
<1>4. LocksType' /\ StoreType'
  BY <1>1, <1>2 DEF LocksType, StoreType, store
<1> QED BY <1>2, <1>3, <1>4, WorkerFrame

(* A step within a batch keeps the batch low.                                 *)
LEMMA BatchStays ==
  ASSUME IInv, NEW w \in Workers, Batched(w), Batched(w)', worker'[w].batch = worker[w].batch,
         UNCHANGED place
  PROVE  BatchLow(w)' /\ First(w)' = First(w)
BY DEF IInv, WorkersRight, BatchLow, Pending, First

(* The steps before a worker writes.                                          *)
LEMMA QueueStepKeeps ==
  ASSUME IInv, NEW w \in Workers,
         \/ TakeWorkerLock(w) \/ WorkerLockTimeout(w) \/ Scan(w) \/ Leave(w)
         \/ CheckReceipt(w) \/ TakeMemoryLock(w) \/ WorkerDies(w)
  PROVE  IInv'
<1>1. /\ StoreType /\ WorkersType /\ LocksType /\ BoundsType /\ FilesType
      /\ LocksHeld(w) /\ BatchLow(w) /\ JobAtHand(w)
  BY TypeParts DEF IInv, WorkersRight
<1>2. 0 \notin Workers /\ mlock \in Workers \cup {Nobody, Editor}
  BY <1>1, QueueAssumption DEF Workers, LocksType
<1>3. CASE WorkerLockTimeout(w) \/ Leave(w)
  <2>1. BoundsType' /\ \E code \in {"clean", "unclean"} : Exits(w, code)
    BY <1>1, <1>3 DEF WorkerLockTimeout, Leave, BoundsType, bounds
  <2> QED BY <1>3, <2>1, ExitKeeps DEF WorkerLockTimeout, Leave
<1>4. CASE WorkerDies(w)
  <2>1. BoundsType' /\ Exits(w, "unclean")
    BY <1>1, <1>4, Counted DEF WorkerDies, BoundsType
  <2>2. mlock' \in {mlock, Nobody} /\ (mlock' # mlock => mlock = w)
    BY <1>4 DEF WorkerDies, Freed
  <2> QED BY <1>4, <2>1, <2>2, ExitKeeps DEF WorkerDies
<1>5. CASE TakeWorkerLock(w)
  <2>1. Go(w, "scan") /\ wlock = Nobody /\ wlock' = w /\ worker[w].batch = {}
    BY <1>1, <1>5 DEF TakeWorkerLock, BatchLow, Batched, At
  <2>2. /\ WorkersType' /\ \A x \in Workers : x # w => worker'[x] = worker[x]
        /\ worker'[w].at = "scan" /\ worker'[w].batch = {}
    BY <1>1, <2>1, Goes DEF Stages
  <2>3. (LocksHeld(w) /\ BatchLow(w) /\ JobAtHand(w))'
    BY <2>1, <2>2, IdleIsRight DEF Batched
  <2>4. LocksType' /\ StoreType' /\ BoundsType'
    BY <1>1, <1>5 DEF TakeWorkerLock, LocksType, StoreType, store, BoundsType, bounds
  <2> QED BY <1>5, <2>1, <2>2, <2>3, <2>4, WorkerFrame DEF TakeWorkerLock
<1>6. CASE Scan(w) /\ Fault /\ Exits(w, "unclean")
  <2>1. BoundsType'
    BY <1>1, <1>6, Counted DEF Scan, BoundsType
  <2> QED BY <1>6, <2>1, ExitKeeps DEF Scan
<1>7. CASE /\ Scan(w) /\ UNCHANGED <<wlock, faults>>
           /\ worker' = [worker EXCEPT ![w].batch = Pending,
                                       ![w].at = IF Pending # {} THEN "check"
                                                 ELSE IF @ = "scan" THEN "rescan" ELSE "leave"]
  <2> DEFINE at == IF Pending # {} THEN "check" ELSE IF At(w, "scan") THEN "rescan" ELSE "leave"
  <2>1. worker[w] \in WorkerType /\ Pending \in SUBSET Jobs /\ at \in Stages
    BY <1>1 DEF WorkersType, Pending, Stages
  <2>2. worker'[w] = [worker[w] EXCEPT !.batch = Pending, !.at = at]
    BY <1>1, <1>7 DEF WorkersType, At
  <2>3. [worker[w] EXCEPT !.batch = Pending, !.at = at] \in WorkerType
    BY <2>1 DEF WorkerType, Stages
  <2>4. WorkersType' /\ \A x \in Workers : x # w => worker'[x] = worker[x]
    BY <1>1, <1>7, <2>2, <2>3 DEF WorkersType
  <2>5. worker'[w].at = at /\ worker'[w].batch = Pending /\ Pending' = Pending
    BY <1>7, <2>1, <2>2 DEF WorkerType, Scan, files, Pending
  <2>6. wlock' = wlock /\ wlock = w
    BY <1>1, <1>7 DEF Scan, LocksHeld, Serving
  <2>7. (LocksHeld(w) /\ BatchLow(w) /\ JobAtHand(w))'
    BY <2>5, <2>6 DEF LocksHeld, BatchLow, JobAtHand, Batched, Serving, Writing, At
  <2>8. LocksType' /\ StoreType' /\ BoundsType'
    BY <1>1, <1>7 DEF Scan, LocksType, StoreType, store, BoundsType
  <2> QED BY <1>7, <2>4, <2>6, <2>7, <2>8, WorkerFrame DEF Scan
<1>8. CASE CheckReceipt(w)
  <2>1. /\ wlock' = wlock /\ mlock' = mlock /\ wlock = w /\ Batched(w)
        /\ UNCHANGED <<files, store, host, edit, told>>
    BY <1>1, <1>8 DEF CheckReceipt, LocksHeld, Serving, Batched, At, locks
  <2>2. PICK s \in {"remove", "archive", "mlock"} :
          /\ Go(w, s)
          /\ s = "remove" => receipt[First(w)] = "committed"
          /\ s = "mlock" => receipt[First(w)] = "none"
    BY <1>8 DEF CheckReceipt
  <2>3. /\ WorkersType' /\ \A x \in Workers : x # w => worker'[x] = worker[x]
        /\ worker'[w].at = s /\ worker'[w].batch = worker[w].batch
    BY <1>1, <2>2, Goes DEF Stages
  <2>4. BatchLow(w)' /\ First(w)' = First(w)
    BY <2>1, <2>3, BatchStays DEF Batched, files
  <2>5. LocksHeld(w)' /\ JobAtHand(w)'
    BY <2>1, <2>2, <2>3, <2>4 DEF LocksHeld, JobAtHand, Writing, At, files
  <2>6. LocksType' /\ StoreType' /\ BoundsType'
    BY <1>1, <1>8, <2>1, Counted DEF CheckReceipt, LocksType, StoreType, store, BoundsType
  <2> QED BY <2>1, <2>3, <2>4, <2>5, <2>6, WorkerFrame
<1>9. CASE TakeMemoryLock(w)
  <2>1. /\ wlock' = wlock /\ wlock = w /\ Batched(w) /\ receipt[First(w)] = "none"
        /\ UNCHANGED <<files, store, host, edit, told>>
    BY <1>1, <1>9 DEF TakeMemoryLock, LocksHeld, JobAtHand, Serving, Batched, At
  <2>2. PICK s \in {"apply", "archive"} :
          /\ Go(w, s)
          /\ s = "apply" => mlock = Nobody /\ mlock' = w
          /\ s = "archive" => mlock' = mlock
    BY <1>9 DEF TakeMemoryLock
  <2>3. /\ WorkersType' /\ \A x \in Workers : x # w => worker'[x] = worker[x]
        /\ worker'[w].at = s /\ worker'[w].batch = worker[w].batch
    BY <1>1, <2>2, Goes DEF Stages
  <2>4. BatchLow(w)' /\ First(w)' = First(w)
    BY <2>1, <2>3, BatchStays DEF Batched, files
  <2>5. LocksHeld(w)' /\ JobAtHand(w)'
    BY <2>1, <2>2, <2>3, <2>4 DEF LocksHeld, JobAtHand, Writing, At, files
  <2>6. LocksType' /\ StoreType' /\ BoundsType'
    BY <1>1, <1>9, <2>1, <2>2 DEF TakeMemoryLock, LocksType, StoreType, store, BoundsType, bounds
  <2> QED BY <2>1, <2>2, <2>3, <2>4, <2>5, <2>6, WorkerFrame
<1> QED BY <1>3, <1>4, <1>5, <1>6, <1>7, <1>8, <1>9 DEF Scan

(* While one worker serves the queue no other has anything to get wrong.      *)
LEMMA OthersIdle ==
  ASSUME IInv, NEW w \in Workers, Serving(w), \A x \in Workers : x # w => worker'[x] = worker[x],
         (LocksHeld(w) /\ BatchLow(w) /\ JobAtHand(w))'
  PROVE  WorkersRight'
<1> SUFFICES ASSUME NEW x \in Workers, x # w PROVE (LocksHeld(x) /\ BatchLow(x) /\ JobAtHand(x))'
  BY DEF WorkersRight
<1>1. ~Serving(x) /\ worker'[x] = worker[x]
  BY OneServes
<1>2. ~Batched(x) /\ worker[x].batch = {}
  BY <1>1 DEF IInv, WorkersRight, BatchLow, Serving
<1>3. ~Batched(x)' /\ ~Serving(x)' /\ worker'[x].batch = {}
  BY <1>1, <1>2 DEF Serving, Batched
<1> QED BY <1>3, IdleIsRight

(* The index follows the topic, both under memory.lock.                       *)
LEMMA RebuildKeeps ==
  ASSUME IInv, NEW w \in Workers, Rebuild(w)
  PROVE  IInv'
<1>1. /\ StoreType /\ WorkersType /\ LocksType /\ BoundsType
      /\ LocksHeld(w) /\ BatchLow(w) /\ JobAtHand(w) /\ worker[w] \in WorkerType
  BY TypeParts DEF IInv, WorkersRight, WorkersType
<1>2. /\ wlock' = wlock /\ mlock' = mlock /\ UNCHANGED <<files, host, edit, told, topic>>
      /\ Writing(w) /\ Batched(w) /\ At(w, "index")
  BY DEF Rebuild, locks, Writing, Batched, At
<1>3. PICK ok \in BOOLEAN :
        /\ worker' = [worker EXCEPT ![w].at = "receipt", ![w].ok = ok]
        /\ catalog' \in {catalog, topic} /\ (ok => catalog' = topic)
  BY DEF Rebuild
<1>4. /\ WorkersType' /\ \A x \in Workers : x # w => worker'[x] = worker[x]
      /\ worker'[w].at = "receipt" /\ worker'[w].batch = worker[w].batch /\ worker'[w].ok = ok
  BY <1>1, <1>3 DEF WorkersType, WorkerType
<1>5. BatchLow(w)' /\ First(w)' = First(w)
  BY <1>2, <1>4, BatchStays DEF Batched, files
<1>6. Effect(First(w))' = Effect(First(w))
  BY <1>2, <1>5 DEF Effect, files
<1>7. LocksHeld(w)' /\ JobAtHand(w)'
  BY <1>1, <1>2, <1>3, <1>4, <1>5, <1>6 DEF LocksHeld, JobAtHand, Writing, Serving, Batched, At,
     files, told
<1>8. LocksType' /\ StoreType' /\ BoundsType'
  BY <1>1, <1>2, <1>3, Counted DEF Rebuild, LocksType, StoreType, BoundsType
<1> QED BY <1>2, <1>4, <1>5, <1>7, <1>8, WorkerFrame

(* The write itself.                                                          *)
LEMMA ApplyKeeps ==
  ASSUME IInv, NEW w \in Workers, Apply(w)
  PROVE  IInv'
<1> DEFINE j == First(w)
<1>1. /\ StoreType /\ WorkersType /\ LocksType /\ BoundsType /\ FilesType /\ ToldType /\ HostsType
      /\ EditType /\ LocksHeld(w) /\ BatchLow(w) /\ JobAtHand(w) /\ worker[w] \in WorkerType
  BY TypeParts DEF IInv, WorkersRight, WorkersType
<1>2. /\ wlock' = wlock /\ mlock' = mlock /\ UNCHANGED <<files, host, edit, heard, catalog, crashes>>
      /\ Writing(w) /\ Batched(w) /\ Serving(w) /\ At(w, "apply") /\ receipt[j] = "none"
  BY <1>1 DEF Apply, locks, Writing, Batched, Serving, At, JobAtHand
<1>3. j \in Jobs /\ j \in worker[w].batch /\ applied[j] \in Nat
  BY <1>1, <1>2, FirstIsOldest DEF ToldType
<1>4. \/ /\ Refused(j) /\ UNCHANGED <<topic, applied>>
         /\ worker' = [worker EXCEPT ![w].at = "receipt", ![w].ok = FALSE]
      \/ /\ topic' = Effect(j) /\ applied' = [applied EXCEPT ![j] = @ + 1]
         /\ worker' = [worker EXCEPT ![w].at = "index", ![w].ok = worker[w].ok]
      \/ /\ UNCHANGED <<topic, applied>>
         /\ worker' = [worker EXCEPT ![w].at = "receipt", ![w].ok = FALSE]
  BY <1>1 DEF Apply, Go, WorkersType, WorkerType
<1>5. PICK s \in {"receipt", "index"}, ok \in BOOLEAN :
        /\ worker' = [worker EXCEPT ![w].at = s, ![w].ok = ok]
        /\ s = "receipt" => ~ok /\ UNCHANGED <<topic, applied>>
        /\ s = "index" => topic' = Effect(j) /\ applied' = [applied EXCEPT ![j] = @ + 1]
  BY <1>1, <1>4 DEF WorkerType
<1>6. /\ WorkersType' /\ \A x \in Workers : x # w => worker'[x] = worker[x]
      /\ worker'[w].at = s /\ worker'[w].batch = worker[w].batch /\ worker'[w].ok = ok
  BY <1>1, <1>5 DEF WorkersType, WorkerType
<1>7. /\ applied' \in [Jobs -> Nat] /\ \A i \in Jobs : i # j => applied'[i] = applied[i]
      /\ applied[j] > 0 => applied'[j] > 0
      /\ s = "index" => applied'[j] > 0
  BY <1>1, <1>3, <1>5 DEF ToldType
<1>8. topic' \in 0..Edited
  <2>1. job[j] \in JobType
    BY <1>1, <1>3 DEF FilesType
  <2>2. job[j].text \in 0..Edited /\ 0 \in 0..Edited
    BY <2>1, QueueAssumption DEF JobType, Edited
  <2>3. Effect(j) \in 0..Edited
    BY <1>1, <2>2 DEF Effect, StoreType
  <2> QED BY <1>1, <1>5, <2>3 DEF StoreType
<1>9. BoundsType'
  BY <1>1, <1>2, Counted DEF Apply, BoundsType
<1>10. TypeOK'
  BY <1>1, <1>2, <1>6, <1>7, <1>8, <1>9, TypePartsNext
     DEF FilesType, StoreType, LocksType, EditType, HostsType, ToldType, files
<1>11. BatchLow(w)' /\ First(w)' = First(w)
  BY <1>2, <1>6, BatchStays DEF Batched, files
<1>12. s = "index" => Effect(j)' = Effect(j)
  BY <1>2, <1>5, <1>11 DEF Effect, files
<1>13. s = "index" => topic' = Effect(First(w))'
  BY <1>5, <1>11, <1>12
<1>14. LocksHeld(w)' /\ JobAtHand(w)'
  BY <1>1, <1>2, <1>5, <1>6, <1>7, <1>11, <1>13
     DEF LocksHeld, JobAtHand, Writing, Serving, Batched, At, files
<1>15. WorkersRight'
  BY <1>2, <1>6, <1>11, <1>14, OthersIdle
<1>16. UsedInOrder' /\ RetriedFailed' /\ HeardIsOver' /\ EditorHolds'
  BY <1>2 DEF IInv, UsedInOrder, RetriedFailed, HeardIsOver, EditorHolds, files
<1>17. NothingLost'
  BY <1>2, <1>3, <1>7 DEF IInv, NothingLost, files
<1>18. HostsTrack'
  BY <1>2, HostsStay DEF HostsTrack
<1> QED BY <1>10, <1>15, <1>16, <1>17, <1>18 DEF IInv

(* The receipt, once for each job.                                            *)
LEMMA WriteReceiptKeeps ==
  ASSUME IInv, NEW w \in Workers, WriteReceipt(w)
  PROVE  IInv'
<1> DEFINE j == First(w)
<1>1. /\ StoreType /\ WorkersType /\ LocksType /\ BoundsType /\ FilesType /\ ToldType /\ HostsType
      /\ EditType /\ LocksHeld(w) /\ BatchLow(w) /\ JobAtHand(w) /\ worker[w] \in WorkerType
  BY TypeParts DEF IInv, WorkersRight, WorkersType
<1>2. /\ wlock' = wlock /\ mlock' = Nobody /\ UNCHANGED <<job, place, store, host, edit, told, crashes>>
      /\ Writing(w) /\ Batched(w) /\ Serving(w) /\ At(w, "receipt") /\ receipt[j] = "none"
  BY <1>1 DEF WriteReceipt, Writing, Batched, Serving, At, JobAtHand
<1>3. j \in Jobs /\ j \in worker[w].batch /\ place[j] = "pending"
  BY <1>2, FirstIsOldest
<1>4. PICK s \in {"remove", "archive"} :
        /\ Go(w, s)
        /\ \/ s = "archive" /\ UNCHANGED receipt
           \/ s = "archive" /\ receipt' = [receipt EXCEPT ![j] = "failed"]
           \/ s = "remove" /\ worker[w].ok /\ receipt' = [receipt EXCEPT ![j] = "committed"]
  BY DEF WriteReceipt
<1>5. /\ WorkersType' /\ \A x \in Workers : x # w => worker'[x] = worker[x]
      /\ worker'[w].at = s /\ worker'[w].batch = worker[w].batch
  BY <1>1, <1>4, Goes DEF Stages
<1>6. /\ receipt' \in [Jobs -> {"none", "committed", "failed"}]
      /\ \A i \in Jobs : i # j => receipt'[i] = receipt[i]
      /\ s = "remove" => receipt'[j] = "committed" /\ applied[j] > 0
      /\ s = "archive" => receipt'[j] # "committed"
  BY <1>1, <1>2, <1>3, <1>4 DEF FilesType, JobAtHand
<1>7. BoundsType'
  BY <1>1, <1>2, Counted DEF WriteReceipt, BoundsType
<1>8. TypeOK'
  BY <1>1, <1>2, <1>5, <1>6, <1>7, TypePartsNext
     DEF FilesType, StoreType, LocksType, EditType, HostsType, ToldType, store, told
<1>9. BatchLow(w)' /\ First(w)' = First(w)
  BY <1>2, <1>5, BatchStays DEF Batched
<1>10. LocksHeld(w)' /\ JobAtHand(w)'
  BY <1>1, <1>2, <1>5, <1>6, <1>9 DEF LocksHeld, JobAtHand, Writing, Serving, Batched, At
<1>11. WorkersRight'
  BY <1>2, <1>5, <1>9, <1>10, OthersIdle
<1>12. UsedInOrder' /\ HeardIsOver'
  BY <1>2, <1>6 DEF IInv, UsedInOrder, HeardIsOver, told
<1>13. \A i \in Jobs : job[i].from # j
  BY <1>3 DEF IInv, RetriedFailed
<1>14. RetriedFailed' /\ NothingLost'
  BY <1>2, <1>3, <1>6, <1>13 DEF IInv, RetriedFailed, NothingLost, told
<1>15. EditorHolds'
  BY <1>2, OneServes DEF EditorHolds
<1>16. HostsTrack'
  BY <1>2, TracksOn DEF HostsTrack
<1> QED BY <1>8, <1>11, <1>12, <1>14, <1>15, <1>16 DEF IInv

(* The file leaves pending/ and the batch.                                    *)
LEMMA SettleKeeps ==
  ASSUME IInv, NEW w \in Workers, Settle(w)
  PROVE  IInv'
<1> DEFINE j == First(w)
<1>1. /\ StoreType /\ WorkersType /\ LocksType /\ BoundsType /\ FilesType /\ ToldType /\ HostsType
      /\ EditType /\ LocksHeld(w) /\ BatchLow(w) /\ JobAtHand(w) /\ worker[w] \in WorkerType
  BY TypeParts DEF IInv, WorkersRight, WorkersType
<1>2. BoundsType'
  BY <1>1, Counted DEF Settle, BoundsType
<1>3. CASE Fault /\ Exits(w, "unclean") /\ UNCHANGED place
  BY <1>2, <1>3, ExitKeeps DEF Settle, files
<1>4. CASE /\ place' = [place EXCEPT ![First(w)] = IF At(w, "remove") THEN "gone" ELSE "failed"]
           /\ worker' = [worker EXCEPT ![w].batch = @ \ {First(w)}, ![w].ok = FALSE,
                                       ![w].at = IF worker[w].batch = {First(w)} THEN "scan" ELSE "check"]
           /\ UNCHANGED <<wlock, faults>>
  <2> DEFINE at == IF worker[w].batch = {j} THEN "scan" ELSE "check"
             rest == worker[w].batch \ {j}
             to == IF At(w, "remove") THEN "gone" ELSE "failed"
  <2>1. /\ UNCHANGED <<job, receipt, store, locks, host, edit, told, bounds>>
        /\ Batched(w) /\ Serving(w) /\ (At(w, "remove") => receipt[j] = "committed")
    BY <1>1, <1>4 DEF Settle, Batched, Serving, JobAtHand, At, locks, bounds
  <2>2. j \in Jobs /\ j \in worker[w].batch /\ place[j] = "pending"
    BY <2>1, FirstIsOldest
  <2>3. rest \in SUBSET Jobs /\ at \in Stages
    BY <1>1 DEF WorkerType, Stages
  <2>4. [worker[w] EXCEPT !.batch = rest, !.ok = FALSE, !.at = at] \in WorkerType
    BY <1>1, <2>3 DEF WorkerType, Stages
  <2>5. worker' = [worker EXCEPT ![w] = [worker[w] EXCEPT !.batch = rest, !.ok = FALSE, !.at = at]]
    BY <1>4
  <2>6. /\ WorkersType' /\ \A x \in Workers : x # w => worker'[x] = worker[x]
        /\ worker'[w].at = at /\ worker'[w].batch = rest
    BY <1>1, <2>4, <2>5 DEF WorkersType, WorkerType
  <2>7. /\ place'[j] = to /\ to \in {"gone", "failed"}
        /\ to = "gone" => receipt[j] = "committed"
        /\ \A i \in Jobs : i # j => place'[i] = place[i]
    BY <1>1, <1>4, <2>1, <2>2 DEF FilesType
  <2>8. FilesType'
    BY <1>1, <1>4, <2>1 DEF FilesType
  <2>9. TypeOK'
    BY <1>1, <1>2, <2>1, <2>6, <2>8, TypePartsNext
       DEF StoreType, LocksType, EditType, HostsType, ToldType, store, locks, told
  <2>10. Pending' = Pending \ {j}
    BY <2>2, <2>7 DEF Pending
  <2>11. (LocksHeld(w) /\ BatchLow(w) /\ JobAtHand(w))'
    <3>1. at \in {"scan", "check"} /\ (at = "check" <=> rest # {})
      BY <2>2
    <3>2. LocksHeld(w)'
      BY <1>1, <2>1, <2>6, <3>1 DEF LocksHeld, Writing, locks
    <3>3. BatchLow(w)'
      BY <1>1, <2>6, <2>10, <3>1 DEF BatchLow, Batched
    <3>4. JobAtHand(w)'
      BY <2>6, <3>1 DEF JobAtHand, Writing, At
    <3> QED BY <3>2, <3>3, <3>4
  <2>12. WorkersRight'
    BY <2>1, <2>6, <2>11, OthersIdle
  <2>13. UsedInOrder'
    BY <2>1, <2>2, <2>7 DEF IInv, UsedInOrder
  <2>14. RetriedFailed' /\ HeardIsOver' /\ EditorHolds'
    BY <2>1, <2>7 DEF IInv, RetriedFailed, HeardIsOver, EditorHolds, told, locks
  <2>15. NothingLost'
    BY <2>1, <2>7 DEF IInv, NothingLost, told
  <2>16. HostsTrack'
    BY <2>1, <2>2, <2>7, TracksOn DEF HostsTrack
  <2> QED BY <2>9, <2>12, <2>13, <2>14, <2>15, <2>16 DEF IInv
<1> QED BY <1>3, <1>4 DEF Settle

-----------------------------------------------------------------------------
(* The edit by hand, which has memory.lock or has not begun to write.         *)
LEMMA EditKeeps ==
  ASSUME IInv, BeginTopicEdit \/ EditStep \/ EditorDies
  PROVE  IInv'
<1>1. /\ StoreType /\ WorkersType /\ LocksType /\ BoundsType /\ FilesType /\ ToldType /\ HostsType
      /\ EditType
  BY TypeParts DEF IInv
<1>2. UNCHANGED <<files, worker, wlock, host, told>>
  BY DEF BeginTopicEdit, EditStep, CommitTopicEdit, EditWrite, EditIndex, EditorDies, locks
<1>3. Editor \notin Workers /\ Editor # Nobody
  BY QueueAssumption DEF Editor, Workers, Nobody
<1>4. ASSUME NEW x \in Workers, Writing(x) PROVE UNCHANGED <<mlock, store>>
  <2>1. mlock = x /\ x # Nobody /\ x # Editor /\ edit.at \notin {"write", "index"}
    BY <1>3, <1>4, OneServes
  <2> QED BY <2>1 DEF BeginTopicEdit, EditStep, CommitTopicEdit, EditWrite, EditIndex, EditorDies,
                      Freed, locks, store
<1>5. ASSUME NEW x \in Workers PROVE (LocksHeld(x) /\ BatchLow(x) /\ JobAtHand(x))'
  BY <1>2, <1>4, OthersStay DEF told
<1>6. EditType' /\ EditorHolds'
  <2>1. CASE BeginTopicEdit
    <3>1. edit.begun + 1 \in 0..MaxEdits
      BY <1>1, <2>1, QueueAssumption DEF BeginTopicEdit, EditType
    <3>2. edit' = [at |-> "open", begun |-> edit.begun + 1]
      BY <2>1 DEF BeginTopicEdit
    <3> QED BY <3>1, <3>2 DEF EditType, EditorHolds
  <2>2. CASE EditStep
    BY <1>1, <2>2 DEF EditStep, CommitTopicEdit, EditWrite, EditIndex, EditGo, EditType, IInv,
       EditorHolds
  <2>3. CASE EditorDies
    BY <1>1, <2>3 DEF EditorDies, EditGo, EditType, EditorHolds
  <2> QED BY <2>1, <2>2, <2>3
<1>7. LocksType'
  BY <1>1, <1>2 DEF BeginTopicEdit, EditStep, CommitTopicEdit, EditWrite, EditIndex, EditorDies,
                    Freed, locks, LocksType
<1>8. StoreType'
  <2>1. Edited \in 0..Edited
    BY QueueAssumption DEF Edited
  <2> QED BY <1>1, <2>1 DEF BeginTopicEdit, EditStep, CommitTopicEdit, EditWrite, EditIndex,
             EditorDies,
                            store, StoreType
<1>9. BoundsType'
  BY <1>1, Counted DEF BeginTopicEdit, EditStep, CommitTopicEdit, EditWrite, EditIndex, EditorDies,
                       bounds, BoundsType
<1>10. TypeOK'
  BY <1>1, <1>2, <1>6, <1>7, <1>8, <1>9, TypePartsNext
     DEF FilesType, WorkersType, HostsType, ToldType, files, told
<1>11. HostsTrack'
  BY <1>2, HostsStay DEF HostsTrack
<1> QED BY <1>2, <1>5, <1>6, <1>10, <1>11, WorkersFrame DEF WorkersRight

-----------------------------------------------------------------------------
(* The invariant holds at the start.                                          *)
LEMMA InitRight == Init => IInv
<1> SUFFICES ASSUME Init PROVE IInv
  OBVIOUS
<1>1. TypeOK
  BY InitTypes
<1>2. /\ \A j \in Jobs : place[j] = "none" /\ job[j] = NoJob /\ receipt[j] = "none" /\ heard[j] = "none"
      /\ \A w \in Workers : worker[w] = Off
      /\ \A h \in Hosts : host[h] = Awake
  BY DEF Init
<1>3. \A k \in Jobs : k # 0
  BY QueueAssumption DEF Jobs
<1>4. UsedInOrder /\ RetriedFailed /\ HeardIsOver /\ NothingLost /\ EditorHolds
  BY <1>2, <1>3 DEF Init, UsedInOrder, RetriedFailed, HeardIsOver, NothingLost, EditorHolds, NoJob
<1>5. HostsTrack
  BY <1>2 DEF HostsTrack, Tracks, HostAt, Awake
<1>6. ASSUME NEW w \in Workers PROVE LocksHeld(w) /\ BatchLow(w) /\ JobAtHand(w)
  <2>1. worker[w].at = "off" /\ worker[w].batch = {}
    BY <1>2 DEF Off
  <2> QED BY <2>1 DEF LocksHeld, BatchLow, JobAtHand, Serving, Batched, Writing, At
<1> QED BY <1>1, <1>4, <1>5, <1>6 DEF IInv, WorkersRight

(* Nothing happening keeps it.                                                *)
LEMMA StutterKeeps == ASSUME IInv, UNCHANGED vars PROVE IInv'
<1>1. UNCHANGED <<files, store, worker, locks, host, edit, told, bounds>>
  BY DEF vars
<1>2. HostsType' /\ ToldType' /\ HeardIsOver'
  BY <1>1, TypeParts DEF IInv, HostsType, ToldType, HeardIsOver, files, told
<1>3. HostsTrack'
  BY <1>1, HostsStay DEF HostsTrack
<1> QED BY <1>1, <1>2, <1>3, CallsFrame DEF told

(* Every step keeps it.                                                       *)
LEMMA StepKeeps == IInv /\ [Next]_vars => IInv'
<1> SUFFICES ASSUME IInv, [Next]_vars PROVE IInv'
  OBVIOUS
<1>1. CASE UNCHANGED vars
  BY <1>1, StutterKeeps
<1>2. ASSUME NEW h \in Hosts, NEW j \in Jobs, NEW op \in Ops[j], Persist(h, j, op) PROVE IInv'
  BY <1>2, PersistKeeps
<1>3. ASSUME NEW h \in Hosts, NEW i \in Jobs, NEW j \in Jobs, RetryFailedJob(h, i, j) PROVE IInv'
  BY <1>3, RetryKeeps
<1>4. ASSUME NEW h \in Hosts, HostStep(h) \/ BackoffOver(h) \/ Wake(h) \/ DrainBegin(h) \/ Restart(h)
      PROVE  IInv'
  <2>1. RetryDone(h) \/ EnsureRunning(h) \/ Calls(h)
    BY <1>4 DEF HostStep, Calls
  <2> QED BY <2>1, RetryDoneKeeps, EnsureRunningKeeps, CallsKeep
<1>5. ASSUME NEW h \in Hosts, HostDies(h) PROVE IInv'
  BY <1>5, HostDiesKeeps
<1>6. ASSUME NEW w \in Workers, WorkerStep(w) \/ WorkerLockTimeout(w) \/ WorkerDies(w) PROVE IInv'
  BY <1>6, QueueStepKeeps, ApplyKeeps, RebuildKeeps, WriteReceiptKeeps, SettleKeeps DEF WorkerStep
<1>7. CASE BeginTopicEdit \/ EditStep \/ EditorDies
  BY <1>7, EditKeeps
<1> QED BY <1>1, <1>2, <1>3, <1>4, <1>5, <1>6, <1>7 DEF Next

(* The inductive invariant holds in every reachable state.                    *)
THEOREM InvariantHolds == Spec => []IInv
<1>1. Init => IInv
  BY InitRight
<1>2. IInv /\ [Next]_vars => IInv'
  BY StepKeeps
<1> QED BY <1>1, <1>2, PTL DEF Spec

(* No process, step or crash brings a variable out of its type.               *)
THEOREM TypesHold == Spec => []TypeOK
<1>1. IInv => TypeOK
  BY DEF IInv
<1> QED BY <1>1, InvariantHolds, PTL

(* A job leaves the queue with a committed receipt, or retried and never      *)
(* after a commit.                                                            *)
THEOREM NothingIsLost == Spec => []NothingLost
<1>1. IInv => NothingLost
  BY DEF IInv
<1> QED BY <1>1, InvariantHolds, PTL

(* One worker at most has a batch, and one process at most writes the store.  *)
OneAtATime ==
  /\ \A w, x \in Workers : Batched(w) /\ Batched(x) => w = x
  /\ \A w \in Workers : Writing(w) => mlock = w /\ edit.at \notin {"write", "index"}

(* What worker.lock and memory.lock are for, in every reachable state.        *)
THEOREM StoreIsExclusive == Spec => []OneAtATime
<1>1. IInv => OneAtATime
  BY OneServes DEF OneAtATime, Serving
<1> QED BY <1>1, InvariantHolds, PTL

-----------------------------------------------------------------------------
(* Which steps write a receipt, and which change what a job did.              *)
LEMMA ReceiptSteps ==
  ASSUME [Next]_vars
  PROVE  UNCHANGED receipt \/ \E w \in Workers : WriteReceipt(w)
<1>1. ASSUME NEW h \in Hosts,
             \/ \E j \in Jobs : \E op \in Ops[j] : Persist(h, j, op)
             \/ \E i, j \in Jobs : RetryFailedJob(h, i, j)
             \/ HostStep(h) \/ BackoffOver(h) \/ Wake(h) \/ DrainBegin(h)
             \/ HostDies(h) \/ Restart(h)
      PROVE  UNCHANGED receipt
  BY <1>1 DEF Persist, RetryFailedJob, HostStep, RetryDone, EnsureRunning, DrainReceipt,
     DrainPending,
              DrainFailed, DrainEnd, BackoffOver, Wake, DrainBegin, HostDies, Restart, files, told
<1>2. ASSUME NEW w \in Workers, WorkerStep(w) \/ WorkerLockTimeout(w) \/ WorkerDies(w)
      PROVE  UNCHANGED receipt \/ WriteReceipt(w)
  BY <1>2 DEF WorkerStep, TakeWorkerLock, Scan, Leave, CheckReceipt, TakeMemoryLock, Apply,
     Rebuild, Settle,
              WorkerLockTimeout, WorkerDies, files
<1>3. CASE BeginTopicEdit \/ EditStep \/ EditorDies
  BY <1>3 DEF BeginTopicEdit, EditStep, CommitTopicEdit, EditWrite, EditIndex, EditorDies, files
<1> QED BY <1>1, <1>2, <1>3 DEF Next, vars, files

(* Only Apply changes what jobs did to the store.                             *)
LEMMA ApplySteps ==
  ASSUME [Next]_vars
  PROVE  UNCHANGED applied \/ \E w \in Workers : Apply(w)
<1>1. ASSUME NEW h \in Hosts,
             \/ \E j \in Jobs : \E op \in Ops[j] : Persist(h, j, op)
             \/ \E i, j \in Jobs : RetryFailedJob(h, i, j)
             \/ HostStep(h) \/ BackoffOver(h) \/ Wake(h) \/ DrainBegin(h)
             \/ HostDies(h) \/ Restart(h)
      PROVE  UNCHANGED applied
  BY <1>1 DEF Persist, RetryFailedJob, HostStep, RetryDone, EnsureRunning, DrainReceipt,
     DrainPending,
              DrainFailed, DrainEnd, BackoffOver, Wake, DrainBegin, HostDies, Restart, told
<1>2. ASSUME NEW w \in Workers, WorkerStep(w) \/ WorkerLockTimeout(w) \/ WorkerDies(w)
      PROVE  UNCHANGED applied \/ Apply(w)
  BY <1>2 DEF WorkerStep, TakeWorkerLock, Scan, Leave, CheckReceipt, TakeMemoryLock, Rebuild,
     WriteReceipt,
              Settle, WorkerLockTimeout, WorkerDies, told
<1>3. CASE BeginTopicEdit \/ EditStep \/ EditorDies
  BY <1>3 DEF BeginTopicEdit, EditStep, CommitTopicEdit, EditWrite, EditIndex, EditorDies, told
<1> QED BY <1>1, <1>2, <1>3 DEF Next, vars, told

(* The job a step applies is the oldest that waits and has no receipt; the    *)
(* job a step writes a receipt for has none, and what a committed one says    *)
(* is in the store.                                                           *)
LEMMA AppliedIsOldest ==
  ASSUME IInv, [Next]_vars, NEW j \in Jobs, applied'[j] # applied[j]
  PROVE  /\ place[j] = "pending" /\ receipt[j] = "none"
         /\ \A i \in Jobs : place[i] = "pending" => j <= i
<1>1. PICK w \in Workers : Apply(w)
  BY ApplySteps
<1>2. Batched(w) /\ Writing(w) /\ receipt[First(w)] = "none"
  BY <1>1 DEF Apply, At, Batched, Writing, IInv, WorkersRight, JobAtHand
<1>3. /\ First(w) \in Jobs /\ place[First(w)] = "pending"
      /\ \A i \in Jobs : place[i] = "pending" => First(w) <= i
  BY <1>2, FirstIsOldest
<1>4. applied \in [Jobs -> Nat]
  BY TypeParts DEF IInv, ToldType
<1>5. j = First(w)
  BY <1>1, <1>4 DEF Apply
<1> QED BY <1>2, <1>3, <1>5

(* A receipt is written for a job without one, and a committed one is true.   *)
LEMMA ReceiptIsDue ==
  ASSUME IInv, [Next]_vars, NEW j \in Jobs, receipt'[j] # receipt[j]
  PROVE  /\ receipt[j] = "none"
         /\ receipt'[j] = "committed" => catalog = topic /\ topic = Effect(j)
<1>1. PICK w \in Workers : WriteReceipt(w)
  BY ReceiptSteps
<1>2. At(w, "receipt") /\ JobAtHand(w)
  BY <1>1 DEF WriteReceipt, IInv, WorkersRight
<1>3. receipt \in [Jobs -> {"none", "committed", "failed"}]
  BY TypeParts DEF IInv, FilesType
<1>4. /\ j = First(w)
      /\ receipt'[j] = "committed" => worker[w].ok
  BY <1>1, <1>3 DEF WriteReceipt
<1> QED BY <1>2, <1>4 DEF JobAtHand, Writing, At

(* What a committed receipt says is in the topic and in the index when the    *)
(* receipt is written, whoever edits the store at the time.                   *)
THEOREM CommittedIsIndexed == Spec => IndexedWhenCommitted
<1>1. IInv /\ [Next]_vars =>
        [\A j \in Jobs : receipt'[j] = "committed" /\ receipt[j] = "none" =>
           catalog = topic /\ topic = Effect(j)]_vars
  BY ReceiptIsDue
<1> QED BY <1>1, InvariantHolds, PTL DEF Spec, IndexedWhenCommitted

(* A receipt is written once; a job with one, or whose end was told, is not   *)
(* applied again.                                                             *)
THEOREM SettledStays == Spec => SettledNotRerun
<1>1. IInv /\ [Next]_vars =>
        [\A j \in Jobs :
           /\ receipt[j] # "none" => receipt'[j] = receipt[j]
           /\ receipt[j] # "none" \/ heard[j] # "none" => applied'[j] = applied[j]]_vars
  <2> SUFFICES ASSUME IInv, [Next]_vars, NEW j \in Jobs
               PROVE  /\ receipt[j] # "none" => receipt'[j] = receipt[j]
                      /\ receipt[j] # "none" \/ heard[j] # "none" => applied'[j] = applied[j]
    OBVIOUS
  <2>1. receipt[j] # "none" => receipt'[j] = receipt[j]
    BY ReceiptIsDue
  <2>2. heard[j] # "none" => receipt[j] # "none" \/ place[j] # "pending"
    BY DEF IInv, HeardIsOver
  <2>3. receipt[j] # "none" \/ heard[j] # "none" => applied'[j] = applied[j]
    BY <2>2, AppliedIsOldest
  <2> QED BY <2>1, <2>3
<1> QED BY <1>1, InvariantHolds, PTL DEF Spec, SettledNotRerun

(* The writes are made in the order they were asked for.                      *)
THEOREM OldestFirst == Spec => NoOvertaking
<1>1. IInv /\ [Next]_vars =>
        [\A i, j \in Jobs : i < j /\ place[i] = "pending" => applied'[j] = applied[j]]_vars
  <2> SUFFICES ASSUME IInv, [Next]_vars, NEW i \in Jobs, NEW j \in Jobs, i < j, place[i] = "pending"
               PROVE  applied'[j] = applied[j]
    OBVIOUS
  <2>1. i \in Nat /\ j \in Nat
    BY QueueAssumption DEF Jobs
  <2> QED BY <2>1, AppliedIsOldest
<1> QED BY <1>1, InvariantHolds, PTL DEF Spec, NoOvertaking
=============================================================================
