----------------------------- MODULE MemoryQueue -----------------------------
(* The queue of memory writes: hosts put jobs into pending/ and track them,   *)
(* worker processes carry them out under worker.lock, memory.lock keeps them  *)
(* and the topic editor apart, and a receipt, written once, says how each job *)
(* ended (src/src/memory/worker_queue.cpp, topic_store.cpp).                  *)
EXTENDS Naturals, FiniteSets, FiniteSetsExt

CONSTANTS
  Hosts,      \* processes with a session; each has a supervisor of its own
  MaxWorker,  \* worker processes that may exist at one time
  Ops,        \* operations a host may ask for, by the job's number
  MaxJob,     \* jobs, named by their stamps, the order pending/ is read in
  MaxFaults,  \* file operations and starts that may fail
  MaxCrashes, \* deaths of hosts and workers
  MaxEdits,   \* edits of the topic by hand
  MaxTroubles \* faults, deaths and edits together

ASSUME QueueAssumption ==
  /\ Ops \in [1..MaxJob -> SUBSET {"upsert", "forget", "verify", "rebuild"}]
  /\ MaxJob \in Nat /\ MaxWorker \in Nat /\ MaxFaults \in Nat /\ MaxCrashes \in Nat /\ MaxEdits \in Nat /\ MaxTroubles \in Nat

Jobs == 1..MaxJob
Workers == 1..MaxWorker
Nobody == 0             \* no host, no holder of a lock
Editor == MaxWorker + 1
Edited == MaxJob + 1   \* what the topic says after an edit by hand

VARIABLES
  job,     \* per job: operation, the job whose text it carries, the job it retries
  place,   \* where its file is: "none", "pending", "failed" or "gone"
  receipt, \* its lifecycle result: "none", "committed" or "failed"
  topic,   \* what the topic file says: 0 if there is none
  catalog, \* what the index says it says
  worker,  \* worker processes
  wlock,   \* holder of worker.lock; a dead holder's lock is free
  mlock,   \* holder of memory.lock
  host,    \* hosts: their call, tracked writes and backoff
  edit,    \* the edit by hand: stage and edits begun
  applied, \* history: how often a job changed the store
  heard,   \* history: what a host told its user of a job
  faults, crashes

files == <<job, place, receipt>>
store == <<topic, catalog>>
locks == <<wlock, mlock>>
told == <<applied, heard>>
bounds == <<faults, crashes>>
vars == <<files, store, worker, locks, host, edit, told, bounds>>

NoJob == [op |-> "none", text |-> 0, from |-> 0]
Off == [at |-> "off", of |-> Nobody, batch |-> {}, ok |-> FALSE]
Awake == [at |-> "idle", job |-> 0, left |-> {}, keep |-> {}, tracked |-> {}, backoff |-> FALSE]
Down == [Awake EXCEPT !.at = "down"]

Pending == {j \in Jobs : place[j] = "pending"}
Spare == faults + crashes + edit.begun < MaxTroubles
Fault == Spare /\ faults < MaxFaults /\ faults' = faults + 1

At(w, s) == worker[w].at = s
Go(w, s) == worker' = [worker EXCEPT ![w].at = s]
HostAt(h, s) == host[h].at = s
Running(h) == {w \in Workers : worker[w].of = h /\ ~At(w, "off") /\ ~At(w, "clean") /\ ~At(w, "unclean")}
Exited(h) == {w \in Workers : worker[w].of = h /\ worker[w].at \in {"clean", "unclean"}}

Init ==
  /\ job = [j \in Jobs |-> NoJob]
  /\ place = [j \in Jobs |-> "none"]
  /\ receipt = [j \in Jobs |-> "none"]
  /\ topic = 0 /\ catalog = 0
  /\ worker = [w \in Workers |-> Off]
  /\ wlock = Nobody /\ mlock = Nobody
  /\ host = [h \in Hosts |-> Awake]
  /\ edit = [at |-> "none", begun |-> 0]
  /\ applied = [j \in Jobs |-> 0]
  /\ heard = [j \in Jobs |-> "none"]
  /\ faults = 0 /\ crashes = 0

-----------------------------------------------------------------------------
\* Hosts.

Unused(j) == place[j] = "none" /\ \A i \in Jobs : i < j => place[i] # "none"

\* The file first, then the account of what was queued here, then the worker.
Persist(h, j, op) ==
  /\ HostAt(h, "idle") /\ Unused(j)
  /\ job' = [job EXCEPT ![j] = [op |-> op, text |-> j, from |-> 0]]
  /\ place' = [place EXCEPT ![j] = "pending"]
  /\ host' = [host EXCEPT ![h].at = "wake", ![h].tracked = @ \cup {j}]
  /\ UNCHANGED <<receipt, store, worker, locks, edit, told, bounds>>

\* A new name and a receipt of its own for a failed job, unless it did commit.
RetryFailedJob(h, i, j) ==
  /\ HostAt(h, "idle") /\ place[i] = "failed" /\ receipt[i] # "committed" /\ Unused(j)
  /\ job' = [job EXCEPT ![j] = [op |-> job[i].op, text |-> job[i].text, from |-> i]]
  /\ place' = [place EXCEPT ![j] = "pending"]
  /\ host' = [host EXCEPT ![h].at = "unfail", ![h].job = j]
  /\ UNCHANGED <<receipt, store, worker, locks, edit, told, bounds>>

\* The failed file goes after the pending one is there. Not being able to remove
\* it is not noticed.
RetryDone(h) ==
  LET i == job[host[h].job].from IN
  /\ HostAt(h, "unfail")
  /\ \/ place[i] = "failed" /\ place' = [place EXCEPT ![i] = "gone"] /\ UNCHANGED faults
     \/ place[i] = "failed" /\ Fault /\ UNCHANGED place
     \/ place[i] # "failed" /\ UNCHANGED <<place, faults>>
  /\ host' = [host EXCEPT ![h].at = "wake", ![h].job = 0, ![h].tracked = @ \cup {host[h].job}]
  /\ UNCHANGED <<job, receipt, store, worker, locks, edit, told, crashes>>

\* EnsureRunning: reaps what has exited, starts a worker if there is work, no
\* backoff, and none that will see it. A worker without the lock counts only
\* while it is young, hence either.
Reaped(h) == [w \in Workers |-> IF w \in Exited(h) THEN Off ELSE worker[w]]
Incident(h) == Pending # {} /\ \E w \in Exited(h) : At(w, "unclean")
Wanted(h) ==
  /\ Pending # {} /\ ~Incident(h) /\ ~host[h].backoff
  /\ ~(Running(h) # {} /\ wlock # Nobody)

EnsureRunning(h) ==
  /\ HostAt(h, "wake")
  /\ \/ /\ ~Wanted(h) \/ Running(h) # {} \/ \A w \in Workers : Reaped(h)[w] # Off
        /\ worker' = Reaped(h) /\ UNCHANGED faults
        /\ host' = [host EXCEPT ![h].at = "idle",
                                ![h].backoff = Pending # {} /\ (@ \/ Incident(h))]
     \/ /\ Wanted(h)
        /\ \E w \in Workers : Reaped(h)[w] = Off
        /\ LET w == Min({x \in Workers : Reaped(h)[x] = Off})
           IN  worker' = [Reaped(h) EXCEPT ![w].at = "lock", ![w].of = h]
        /\ host' = [host EXCEPT ![h].at = "idle"]
        /\ UNCHANGED faults
     \/ /\ Wanted(h) /\ Fault
        /\ worker' = Reaped(h)
        /\ host' = [host EXCEPT ![h].at = "idle", ![h].backoff = TRUE]
  /\ UNCHANGED <<files, store, locks, edit, told, crashes>>

BackoffOver(h) ==
  /\ host[h].backoff
  /\ host' = [host EXCEPT ![h].backoff = FALSE]
  /\ UNCHANGED <<files, store, worker, locks, edit, told, bounds>>

\* The status page and its wake.
Wake(h) ==
  /\ HostAt(h, "idle")
  /\ host' = [host EXCEPT ![h].at = "wake"]
  /\ UNCHANGED <<files, store, worker, locks, edit, told, bounds>>

\* mutant: the wake looks for receipts only.
WakeForReceipts(h) == HostAt(h, "idle") /\ \E j \in host[h].tracked : receipt[j] # "none"

WakeNeededForWrites(h) ==
  /\ HostAt(h, "idle")
  /\ \/ \E j \in host[h].tracked : receipt[j] # "none"
     \/ Running(h) = {} /\ ~host[h].backoff /\ host[h].tracked \cap Pending # {}

\* One round of accounting. Each of the three places is looked at on its own.
DrainBegin(h) ==
  /\ HostAt(h, "idle") /\ host[h].tracked # {}
  /\ host' = [host EXCEPT ![h].at = "receipt", ![h].left = host[h].tracked, ![h].tracked = {}]
  /\ UNCHANGED <<files, store, worker, locks, edit, told, bounds>>

Item(h) == Min(host[h].left)
Tell(h, outcome) ==
  /\ heard' = [heard EXCEPT ![Item(h)] = outcome]
  /\ host' = [host EXCEPT ![h].at = "receipt", ![h].left = @ \ {Item(h)}]

DrainReceipt(h) ==
  /\ HostAt(h, "receipt") /\ host[h].left # {}
  /\ IF receipt[Item(h)] # "none" THEN Tell(h, receipt[Item(h)])
     ELSE host' = [host EXCEPT ![h].at = "pending"] /\ UNCHANGED heard
  /\ UNCHANGED <<files, store, worker, locks, edit, applied, bounds>>

DrainPending(h) ==
  /\ HostAt(h, "pending")
  /\ host' = IF place[Item(h)] = "pending"
             THEN [host EXCEPT ![h].at = "receipt", ![h].left = @ \ {Item(h)},
                               ![h].keep = @ \cup {Item(h)}]
             ELSE [host EXCEPT ![h].at = "failed"]
  /\ UNCHANGED <<files, store, worker, locks, edit, told, bounds>>

DrainFailed(h) ==
  /\ HostAt(h, "failed")
  /\ Tell(h, IF place[Item(h)] = "failed" THEN "failed" ELSE "lost")
  /\ UNCHANGED <<files, store, worker, locks, edit, applied, bounds>>

DrainEnd(h) ==
  /\ HostAt(h, "receipt") /\ host[h].left = {}
  /\ host' = [host EXCEPT ![h].at = IF host[h].keep = {} THEN "idle" ELSE "wake",
                          ![h].tracked = @ \cup host[h].keep, ![h].keep = {}]
  /\ UNCHANGED <<files, store, worker, locks, edit, told, bounds>>

-----------------------------------------------------------------------------
\* Workers. One job at a time, the first of the batch in the order of the names.

\* mutant: the batch is not in order.
AnyFirst(w) == Max(worker[w].batch)
First(w) == Min(worker[w].batch)
Exits(w, code) ==
  /\ worker' = [worker EXCEPT ![w] = IF @.of = Nobody THEN Off ELSE [Off EXCEPT !.at = code, !.of = worker[w].of]]
  /\ wlock' = IF wlock = w THEN Nobody ELSE wlock

TakeWorkerLock(w) ==
  /\ At(w, "lock") /\ wlock = Nobody
  /\ wlock' = w /\ Go(w, "scan")
  /\ UNCHANGED <<files, store, mlock, host, edit, told, bounds>>

WorkerLockTimeout(w) ==
  /\ At(w, "lock") /\ wlock # Nobody
  /\ Exits(w, "unclean")
  /\ UNCHANGED <<files, store, mlock, host, edit, told, bounds>>

\* Two empty scans in a row and it leaves, lock in hand until it has.
Scan(w) ==
  /\ worker[w].at \in {"scan", "rescan"}
  /\ \/ /\ worker' = [worker EXCEPT ![w].batch = Pending,
                                    ![w].at = IF Pending # {} THEN "check"
                                              ELSE IF @ = "scan" THEN "rescan" ELSE "leave"]
        /\ UNCHANGED <<wlock, faults>>
     \/ Fault /\ Exits(w, "unclean")
  /\ UNCHANGED <<files, store, mlock, host, edit, told, crashes>>

Leave(w) ==
  /\ At(w, "leave") /\ Exits(w, "clean")
  /\ UNCHANGED <<files, store, mlock, host, edit, told, bounds>>

\* What has a receipt is not done again: a committed job is cleaned up, a failed
\* one archived.
\* mutant: a job found in the queue is done, whatever its receipt.
CheckNothing(w) ==
  /\ At(w, "check") /\ Go(w, "mlock")
  /\ UNCHANGED <<files, store, locks, host, edit, told, bounds>>

CheckReceipt(w) ==
  /\ At(w, "check")
  /\ \/ receipt[First(w)] = "committed" /\ Go(w, "remove") /\ UNCHANGED faults
     \/ receipt[First(w)] = "failed" /\ Go(w, "archive") /\ UNCHANGED faults
     \/ receipt[First(w)] = "none" /\ Go(w, "mlock") /\ UNCHANGED faults
     \/ receipt[First(w)] = "none" /\ Fault /\ Go(w, "archive")   \* the intent
  /\ UNCHANGED <<files, store, locks, host, edit, told, crashes>>

\* Twenty tries; a job that does not get the lock fails without a receipt.
TakeMemoryLock(w) ==
  /\ At(w, "mlock")
  /\ \/ mlock = Nobody /\ mlock' = w /\ Go(w, "apply")
     \/ mlock # Nobody /\ UNCHANGED mlock /\ Go(w, "archive")
  /\ UNCHANGED <<files, store, wlock, host, edit, told, bounds>>

\* The write itself, or its refusal.
Effect(j) ==
  CASE job[j].op = "upsert" -> job[j].text
    [] job[j].op = "forget" -> 0
    [] OTHER -> topic
Refused(j) == job[j].op \in {"forget", "verify"} /\ topic = 0

Apply(w) ==
  LET j == First(w) IN
  /\ At(w, "apply")
  /\ \/ /\ Refused(j) /\ UNCHANGED <<topic, applied, faults>>
        /\ worker' = [worker EXCEPT ![w].at = "receipt", ![w].ok = FALSE]
     \/ /\ ~Refused(j) /\ topic' = Effect(j) /\ Go(w, "index") /\ UNCHANGED faults
        /\ applied' = [applied EXCEPT ![j] = @ + 1]
     \/ /\ ~Refused(j) /\ job[j].op # "rebuild" /\ Fault
        /\ worker' = [worker EXCEPT ![w].at = "receipt", ![w].ok = FALSE]
        /\ UNCHANGED <<topic, applied>>
  /\ UNCHANGED <<files, catalog, locks, host, edit, heard, crashes>>

\* RebuildMemoryIndex: the catalog, then the index page, either may fail.
Rebuild(w) ==
  /\ At(w, "index")
  /\ \/ catalog' = topic /\ worker' = [worker EXCEPT ![w].at = "receipt", ![w].ok = TRUE] /\ UNCHANGED faults
     \/ Fault /\ catalog' \in {catalog, topic} /\ worker' = [worker EXCEPT ![w].at = "receipt", ![w].ok = FALSE]
  /\ UNCHANGED <<files, topic, locks, host, edit, told, crashes>>

\* mutant: whether the receipt could be written is not looked at.
WriteReceiptUnseen(w) ==
  /\ At(w, "receipt") /\ mlock' = Nobody
  /\ \/ receipt' = [receipt EXCEPT ![First(w)] = IF worker[w].ok THEN "committed" ELSE "failed"] /\ UNCHANGED faults
     \/ Fault /\ UNCHANGED receipt
  /\ Go(w, IF worker[w].ok THEN "remove" ELSE "archive")
  /\ UNCHANGED <<job, place, store, wlock, host, edit, told, crashes>>

WriteReceipt(w) ==
  /\ At(w, "receipt")
  /\ \/ /\ receipt' = [receipt EXCEPT ![First(w)] = IF worker[w].ok THEN "committed" ELSE "failed"]
        /\ Go(w, IF worker[w].ok THEN "remove" ELSE "archive") /\ UNCHANGED faults
     \/ Fault /\ UNCHANGED receipt /\ Go(w, "archive")
  /\ mlock' = Nobody
  /\ UNCHANGED <<job, place, store, wlock, host, edit, told, crashes>>

\* The file goes; a worker that cannot move it gives up.
Settle(w) ==
  /\ worker[w].at \in {"remove", "archive"}
  /\ \/ /\ place' = [place EXCEPT ![First(w)] = IF At(w, "remove") THEN "gone" ELSE "failed"]
        /\ worker' = [worker EXCEPT ![w].batch = @ \ {First(w)}, ![w].ok = FALSE,
                                    ![w].at = IF worker[w].batch = {First(w)} THEN "scan" ELSE "check"]
        /\ UNCHANGED <<wlock, faults>>
     \/ Fault /\ Exits(w, "unclean") /\ UNCHANGED place
  /\ UNCHANGED <<job, receipt, store, mlock, host, edit, told, crashes>>

-----------------------------------------------------------------------------
\* An edit by hand: a copy is taken, and put back under one try of the lock.

BeginTopicEdit ==
  /\ edit.at = "none" /\ Spare /\ edit.begun < MaxEdits /\ topic # 0
  /\ edit' = [at |-> "open", begun |-> edit.begun + 1]
  /\ UNCHANGED <<files, store, worker, locks, host, told, bounds>>

EditGo(s) == edit' = [edit EXCEPT !.at = s]

\* mutant: the edit does not take the lock.
CommitUnlocked ==
  /\ edit.at = "open" /\ EditGo("write")
  /\ UNCHANGED <<files, store, worker, locks, host, told, bounds>>

CommitTopicEdit ==
  /\ edit.at = "open"
  /\ \/ mlock = Nobody /\ mlock' = Editor /\ EditGo("write")
     \/ mlock # Nobody /\ UNCHANGED mlock /\ EditGo("none")
  /\ UNCHANGED <<files, store, worker, wlock, host, told, bounds>>

EditWrite ==
  /\ edit.at = "write"
  /\ \/ topic' = Edited /\ EditGo("index") /\ UNCHANGED <<mlock, faults>>
     \/ Fault /\ EditGo("none") /\ mlock' = Nobody /\ UNCHANGED topic
  /\ UNCHANGED <<files, catalog, worker, wlock, host, told, crashes>>

EditIndex ==
  /\ edit.at = "index" /\ EditGo("none") /\ mlock' = Nobody
  /\ \/ catalog' = topic /\ UNCHANGED faults
     \/ Fault /\ UNCHANGED catalog
  /\ UNCHANGED <<files, topic, worker, wlock, host, told, crashes>>

-----------------------------------------------------------------------------
\* Deaths. A host takes its workers with it where its job objects do
\* (KILL_ON_JOB_CLOSE), and leaves them as orphans elsewhere.

Freed(lock, dead) == IF lock \in dead THEN Nobody ELSE lock
Dies == Spare /\ crashes < MaxCrashes /\ crashes' = crashes + 1

WorkerDies(w) ==
  /\ Dies /\ worker[w].at \notin {"off", "clean", "unclean"}
  /\ Exits(w, "unclean") /\ mlock' = Freed(mlock, {w})
  /\ UNCHANGED <<files, store, host, edit, told, faults>>

HostDies(h) ==
  LET own == {w \in Workers : worker[w].of = h} IN
  /\ Dies /\ ~HostAt(h, "down")
  /\ \/ /\ worker' = [w \in Workers |-> IF w \in own THEN Off ELSE worker[w]]
        /\ wlock' = Freed(wlock, own) /\ mlock' = Freed(mlock, own)
     \/ /\ worker' = [w \in Workers |-> IF w \in Exited(h) THEN Off
                                        ELSE IF w \in own THEN [worker[w] EXCEPT !.of = Nobody] ELSE worker[w]]
        /\ UNCHANGED locks
  /\ host' = [host EXCEPT ![h] = Down]
  /\ UNCHANGED <<files, store, edit, told, faults>>

Restart(h) ==
  /\ HostAt(h, "down")
  /\ host' = [host EXCEPT ![h] = [Awake EXCEPT !.at = "wake"]]
  /\ UNCHANGED <<files, store, worker, locks, edit, told, bounds>>

EditorDies ==
  /\ Dies /\ edit.at # "none" /\ EditGo("none") /\ mlock' = Freed(mlock, {Editor})
  /\ UNCHANGED <<files, store, worker, wlock, host, told, faults>>

-----------------------------------------------------------------------------
HostStep(h) ==
  \/ RetryDone(h) \/ EnsureRunning(h)
  \/ DrainReceipt(h) \/ DrainPending(h) \/ DrainFailed(h) \/ DrainEnd(h)

WorkerStep(w) ==
  \/ TakeWorkerLock(w) \/ Scan(w) \/ Leave(w) \/ CheckReceipt(w) \/ TakeMemoryLock(w)
  \/ Apply(w) \/ Rebuild(w) \/ WriteReceipt(w) \/ Settle(w)

EditStep == CommitTopicEdit \/ EditWrite \/ EditIndex

Next ==
  \/ \E h \in Hosts :
       \/ \E j \in Jobs : \E op \in Ops[j] : Persist(h, j, op)
       \/ \E i, j \in Jobs : RetryFailedJob(h, i, j)
       \/ HostStep(h) \/ BackoffOver(h) \/ Wake(h) \/ DrainBegin(h)
       \/ HostDies(h) \/ Restart(h)
  \/ \E w \in Workers : WorkerStep(w) \/ WorkerLockTimeout(w) \/ WorkerDies(w)
  \/ BeginTopicEdit \/ EditStep \/ EditorDies

Spec == Init /\ [][Next]_vars

\* Calls return, workers run, backoffs end, and the idle wake asks for a round of
\* accounting when WakeNeededForWrites says so.
FairSpec ==
  /\ Spec
  /\ \A h \in Hosts : WF_vars(HostStep(h)) /\ WF_vars(BackoffOver(h))
                      /\ WF_vars(WakeNeededForWrites(h) /\ DrainBegin(h))
  /\ \A w \in Workers : WF_vars(WorkerStep(w) \/ WorkerLockTimeout(w))
  /\ WF_vars(EditStep)

-----------------------------------------------------------------------------
TypeOK ==
  /\ job \in [Jobs -> [op : {"none"} \cup UNION {Ops[j] : j \in Jobs}, text : 0..MaxJob, from : 0..MaxJob]]
  /\ place \in [Jobs -> {"none", "pending", "failed", "gone"}]
  /\ receipt \in [Jobs -> {"none", "committed", "failed"}]
  /\ topic \in 0..Edited /\ catalog \in 0..Edited
  /\ worker \in [Workers -> [at : {"off", "lock", "scan", "rescan", "leave", "check", "mlock", "apply",
                                   "index", "receipt", "remove", "archive", "clean", "unclean"},
                             of : Hosts \cup {Nobody}, batch : SUBSET Jobs, ok : BOOLEAN]]
  /\ wlock \in Workers \cup {Nobody} /\ mlock \in Workers \cup {Nobody, Editor}
  /\ host \in [Hosts -> [at : {"down", "idle", "wake", "unfail", "receipt", "pending", "failed"},
                         job : 0..MaxJob, left : SUBSET Jobs, keep : SUBSET Jobs,
                         tracked : SUBSET Jobs, backoff : BOOLEAN]]
  /\ edit \in [at : {"none", "open", "write", "index"}, begun : 0..MaxEdits]
  /\ applied \in [Jobs -> Nat]
  /\ heard \in [Jobs -> {"none", "committed", "failed", "lost"}]
  /\ faults \in 0..MaxFaults /\ crashes \in 0..MaxCrashes

\* A job leaves the queue with a committed receipt for something it did, or by way
\* of failed/ and a retry that never follows a commit.
NothingLost ==
  \A j \in Jobs :
    /\ place[j] = "gone" => receipt[j] = "committed" \/ \E i \in Jobs : job[i].from = j
    /\ receipt[j] = "committed" => applied[j] > 0 /\ \A i \in Jobs : job[i].from # j

\* What a committed receipt says is in the topic and in the index at the moment the
\* receipt is written, whoever else edits the store.
IndexedWhenCommitted ==
  [][\A j \in Jobs : receipt'[j] = "committed" /\ receipt[j] = "none" =>
       catalog = topic /\ topic = Effect(j)]_vars

\* A job with a receipt, or one its user was told about, is never applied again,
\* and its receipt is never rewritten.
SettledNotRerun ==
  [][\A j \in Jobs :
       /\ receipt[j] # "none" => receipt'[j] = receipt[j]
       /\ receipt[j] # "none" \/ heard[j] # "none" => applied'[j] = applied[j]]_vars

\* No job is applied while an older one is still waiting: the last write asked for
\* is the last one made.
NoOvertaking ==
  [][\A i, j \in Jobs : i < j /\ place[i] = "pending" => applied'[j] = applied[j]]_vars

\* Whatever fails, a write a living host tracks ends: the queue lets go of it.
TrackedSettles ==
  \A h \in Hosts, j \in Jobs :
    (j \in host[h].tracked) ~> (place[j] # "pending" \/ receipt[j] # "none" \/ HostAt(h, "down"))

-----------------------------------------------------------------------------
\* What the code's words promise and the code does not keep.

\* What is reported as neither queued nor receipted has no receipt.
HeardTruth == \A j \in Jobs : heard[j] = "lost" => receipt[j] = "none"

\* A retry does not write again what was already written.
RetryWritesOnce ==
  \A i, j \in Jobs : job[j].from = i /\ i # 0 => applied[i] = 0 \/ applied[j] = 0

\* A job in the queue is tried again in the end, whoever queued it.
PendingSettles ==
  \A j \in Jobs : (place[j] = "pending") ~> (place[j] # "pending" \/ receipt[j] # "none")
=============================================================================
