--------------------------- MODULE ToolJobsEvidence ---------------------------
(***************************************************************************)
(* What the ledger proves of a job, for any number of jobs, limits and     *)
(* restarts: memory is never ahead of it, a job runs and ends at most      *)
(* once, no completion is lost, no limit is exceeded, and read as a job's  *)
(* life it implements JobLife.                                             *)
(***************************************************************************)
EXTENDS ToolJobsProofs, ToolJobsLife

-----------------------------------------------------------------------------
(* The inductive invariant.  A view makes sense: nothing before the         *)
(* registration, no folded end without its observation, no lease that the   *)
(* folded state does not show.                                              *)
ViewSound(v) ==
  /\ ~v.reg => v.disp = 0 /\ v.obs = 0 /\ v.job = "none"
  /\ v.reg => v.job # "none"
  /\ v.job \in TerminalStates => v.obs > 0
  /\ v.disp > 0 => v.job \notin {"none", "awaiting_approval", "registered", "queued"}

(* A worker runs under the lease of its record and of the ledger.           *)
WorkerLeased(j) ==
  worker[j] # 0 =>
    /\ worker[j] = led[j].disp /\ worker[j] = mem[j].owner /\ led[j].started
    /\ mem[j].st = "running" \/ Ended(mem[j].st)

(* A record stands for a registered job; while the ledger is healthy it     *)
(* counts the leases the ledger has; what runs has one.                     *)
Recorded(j) ==
  mem[j].st # "none" =>
    /\ led[j].reg
    /\ wOk => mem[j].epoch = led[j].disp
    /\ mem[j].st = "running" => led[j].disp > 0

(* Memory and ledger agree on what has ended, except after a readmission.   *)
EndsAgree(j) ==
  /\ mem[j].st \in TerminalStates => led[j].obs > 0 /\ (gap[j] \/ led[j].job = mem[j].st)
  /\ mem[j].st # "none" /\ ~Ended(mem[j].st) /\ ~gap[j] => ~Ended(led[j].job)

(* One lease, one execution under it, one end, except after a readmission.  *)
Once(j) ==
  ~gap[j] =>
    /\ execs[j] <= led[j].disp /\ led[j].disp <= 1 /\ led[j].obs <= 1
    /\ led[j].job \notin TerminalStates => led[j].obs = 0
    /\ wOk /\ j \in Waiting => led[j].disp = 0

Sound(j) == /\ ViewSound(led[j]) /\ WorkerLeased(j) /\ Recorded(j)
            /\ EndsAgree(j) /\ Once(j)

(* A number that can still be issued names no registered job: adoption      *)
(* passes all of them before the first start.                               *)
Issued ==
  \A j \in Jobs :
    j >= next /\ up # "down" /\ (ctl.pc = "adopt" => j < ctl.i) => ~led[j].reg

Evidence == Issued /\ NoLostCompletion /\ \A j \in Jobs : Sound(j)

-----------------------------------------------------------------------------
(* Lines that no reader of a job's execution takes notice of.               *)
SameFold(v, w) == w.reg = v.reg /\ w.disp = v.disp /\ w.obs = v.obs /\ w.job = v.job

(* The lines of the attempts, the admission and the requests are such.      *)
LEMMA LineFold ==
  ASSUME NEW v \in View
  PROVE  /\ SameFold(v, v)
         /\ SameFold(v, Started(v)) /\ SameFold(v, Selected(v))
         /\ SameFold(v, Admitted(v)) /\ Admitted(v).started = v.started
         /\ SameFold(v, Compacted(v)) /\ Compacted(v).started = v.started
         /\ SameFold(v, CancelRequested(v)) /\ CancelRequested(v).started = v.started
         /\ SameFold(v, NextAttempt(v)) /\ SameFold(v, Pending(v, 1))
         /\ \A t \in ActionTerminals :
              SameFold(v, Closed(v, t)) /\ Closed(v, t).started = v.started
<1>1. /\ SameFold(v, v) /\ SameFold(v, Started(v)) /\ SameFold(v, Selected(v))
  BY DEF SameFold, Started, Selected, View
<1>2. /\ SameFold(v, Admitted(v)) /\ Admitted(v).started = v.started
      /\ SameFold(v, Compacted(v)) /\ Compacted(v).started = v.started
      /\ SameFold(v, CancelRequested(v)) /\ CancelRequested(v).started = v.started
  BY DEF SameFold, Admitted, Compacted, CancelRequested, View
<1>3. SameFold(v, NextAttempt(v)) /\ SameFold(v, Pending(v, 1))
  BY DEF SameFold, NextAttempt, Pending, View
<1>4. \A t \in ActionTerminals :
        SameFold(v, Closed(v, t)) /\ Closed(v, t).started = v.started
  BY DEF SameFold, Closed, View
<1> QED BY <1>1, <1>2, <1>3, <1>4

(* A terminal observation counts, and decides the folded state unless that  *)
(* has ended already.                                                       *)
LEMMA ObservedFold ==
  ASSUME NEW v \in View, NEW s \in TerminalStates, v.job # "none"
  PROVE  /\ Observed(v, s).reg = v.reg /\ Observed(v, s).disp = v.disp
         /\ Observed(v, s).started = v.started
         /\ Observed(v, s).obs = v.obs + 1
         /\ Observed(v, s).job = IF v.job \in TerminalStates THEN v.job ELSE s
<1>1. /\ JobStateRank(s) = 4
      /\ v.job \in TerminalStates => JobStateRank(v.job) = 4
      /\ v.job \notin TerminalStates => JobStateRank(v.job) < 4
  BY DEF JobStateRank, TerminalStates, View, JobStates
<1>2. /\ Observed(v, s).reg = v.reg /\ Observed(v, s).disp = v.disp
      /\ Observed(v, s).started = v.started
      /\ Observed(v, s).obs = v.obs + 1
  BY DEF Observed, View
<1>3. Observed(v, s).job = IF v.job \in TerminalStates THEN v.job ELSE s
  <2>1. Observed(v, s).job =
          IF \/ JobStateRank(v.job) < JobStateRank(s) /\ JobStateRank(v.job) < 4
             \/ JobStateRank(v.job) = 3 /\ JobStateRank(s) = 3
          THEN s ELSE v.job
    BY DEF Observed, View
  <2> QED BY <1>1, <2>1
<1> QED BY <1>2, <1>3

(* A lease counts, and shows as running unless more is known.               *)
LEMMA DispatchedFold ==
  ASSUME NEW v \in View
  PROVE  /\ Dispatched(v).reg = v.reg /\ Dispatched(v).disp = v.disp + 1
         /\ Dispatched(v).obs = v.obs
         /\ Dispatched(v).job =
              IF v.job \in {"awaiting_approval", "registered", "queued"} THEN "running" ELSE v.job
<1>1. JobStateRank(v.job) < 3 <=> v.job \in {"awaiting_approval", "registered", "queued"}
  BY DEF JobStateRank, View, JobStates, TerminalStates
<1>2. Dispatched(v).job = IF JobStateRank(v.job) < 3 THEN "running" ELSE v.job
  BY DEF Dispatched, View
<1>3. /\ Dispatched(v).reg = v.reg /\ Dispatched(v).disp = v.disp + 1
      /\ Dispatched(v).obs = v.obs
  BY DEF Dispatched, View
<1> QED BY <1>1, <1>2, <1>3

-----------------------------------------------------------------------------
(* A step that concerns one job.                                            *)
Only(j) ==
  /\ \A k \in Jobs : k # j =>
       /\ led'[k] = led[k] /\ mem'[k] = mem[k] /\ worker'[k] = worker[k]
       /\ execs'[k] = execs[k] /\ gap'[k] = gap[k]
  /\ wOk' => wOk

(* It leaves what is known of the others sound.                             *)
LEMMA OthersSound ==
  ASSUME NEW j \in Jobs, Only(j), NEW k \in Jobs, k # j, Sound(k)
  PROVE  Sound(k)'
<1>1. /\ led'[k] = led[k] /\ mem'[k] = mem[k] /\ worker'[k] = worker[k]
      /\ execs'[k] = execs[k] /\ gap'[k] = gap[k] /\ (wOk' => wOk)
  BY DEF Only
<1>2. k \in Waiting' <=> k \in Waiting
  BY <1>1 DEF Waiting
<1>3. ViewSound(led[k])' /\ WorkerLeased(k)' /\ Recorded(k)' /\ EndsAgree(k)'
  BY <1>1 DEF Sound, ViewSound, WorkerLeased, Recorded, EndsAgree
<1>4. Once(k)'
  BY <1>1, <1>2 DEF Sound, Once
<1> QED BY <1>3, <1>4 DEF Sound

(* What a step may do with the job.  It takes notes: nothing folded.        *)
SameWork(j) == execs'[j] = execs[j] /\ gap'[j] = gap[j] /\ worker'[j] = worker[j]

Notes(j) ==
  /\ Only(j) /\ SameFold(led[j], led'[j])
  /\ execs'[j] = execs[j] /\ gap'[j] = gap[j] /\ worker'[j] \in {0, worker[j]}
  /\ worker'[j] # 0 => led'[j].started = led[j].started
  /\ mem'[j].owner = mem[j].owner /\ mem'[j].epoch = mem[j].epoch
  /\ mem[j].pend # NoEnvelope => mem'[j].pend # NoEnvelope
  /\ \/ mem'[j].st = mem[j].st
     \/ mem[j].st = "awaiting_approval" /\ mem'[j].st = "queued"

(* It accepts the job; issues a lease and executes it, or fails to; or ends *)
(* it.                                                                      *)
Accepts(j) ==
  /\ Only(j) /\ SameWork(j) /\ ~led[j].reg
  /\ led'[j].reg /\ led'[j].disp = led[j].disp /\ led'[j].obs = led[j].obs
  /\ led'[j].job \in {"awaiting_approval", "registered"}
  /\ mem[j].st = "none" /\ j \in Waiting' /\ mem'[j].epoch = 0

LeaseFold(v, w) ==
  /\ w.reg = v.reg /\ w.disp = v.disp + 1 /\ w.obs = v.obs
  /\ w.job = IF v.job \in {"awaiting_approval", "registered", "queued"}
             THEN "running" ELSE v.job

Leases(j) ==
  /\ Only(j) /\ wOk /\ j \in Waiting /\ LeaseFold(led[j], led'[j]) /\ led'[j].started
  /\ mem'[j].st = "running"
  /\ worker'[j] = mem[j].epoch + 1
  /\ mem'[j].epoch = mem[j].epoch + 1 /\ mem'[j].owner = mem[j].epoch + 1
  /\ execs'[j] = execs[j] + 1 /\ gap'[j] = gap[j]

LosesLease(j) ==
  /\ Only(j) /\ SameWork(j) /\ ~wOk' /\ j \in Waiting
  /\ SameFold(led[j], led'[j]) \/ (wOk /\ LeaseFold(led[j], led'[j]))
  /\ mem'[j].st = mem[j].st

EndFold(v, w, s) ==
  /\ w.reg = v.reg /\ w.disp = v.disp /\ w.obs = v.obs + 1
  /\ w.job = IF v.job \in TerminalStates THEN v.job ELSE s

Ends(j, s) ==
  /\ Only(j) /\ SameWork(j) /\ EndFold(led[j], led'[j], s)
  /\ worker[j] # 0 => led'[j].started = led[j].started
  /\ mem[j].st # "none" /\ ~Ended(mem[j].st)
  /\ s = "succeeded" => mem[j].st = "running"
  /\ mem'[j].st = s /\ mem'[j].owner = mem[j].owner /\ mem'[j].epoch = mem[j].epoch

(* Adoption takes a registered job up as the ledger has it, concludes what  *)
(* was left open, or readmits it.                                           *)
TakesUp(j) ==
  /\ Only(j) /\ SameWork(j) /\ led'[j] = led[j] /\ led[j].reg
  /\ mem[j].st = "none"
  /\ mem'[j].st \notin {"none", "running"} /\ mem'[j].epoch = led[j].disp
  /\ mem'[j].st \in TerminalStates => led[j].job = mem'[j].st
  /\ ~Ended(mem'[j].st) => ~Ended(led[j].job)
  /\ wOk' /\ j \in Waiting' => led[j].disp = 0

Concludes(j, s) ==
  /\ Only(j) /\ SameWork(j) /\ led[j].reg /\ led[j].disp > 0 /\ ~Ended(led[j].job)
  /\ mem[j].st = "none" /\ mem'[j].st = s /\ mem'[j].epoch = led[j].disp
  /\ led'[j].reg /\ led'[j].disp = led[j].disp /\ led'[j].job = s
  /\ \/ s = "succeeded" /\ led'[j].obs = led[j].obs + 1
     \/ s = "unknown" /\ led'[j].obs = led[j].obs

Readmits(j) ==
  /\ Only(j) /\ SameFold(led[j], led'[j]) /\ led[j].reg
  /\ execs'[j] = execs[j] /\ gap'[j] /\ worker'[j] = worker[j]
  /\ mem[j].st = "none" /\ mem'[j].st = "queued" /\ mem'[j].epoch = led[j].disp

JobStep(j) ==
  \/ Notes(j) \/ Accepts(j) \/ Leases(j) \/ LosesLease(j) \/ \E s \in TerminalStates : Ends(j, s)
  \/ TakesUp(j) \/ (\E s \in {"succeeded", "unknown"} : Concludes(j, s)) \/ Readmits(j)

(* Each of them keeps what is known of the job sound.                       *)
LEMMA StepSound ==
  ASSUME TypeOK, NEW j \in Jobs, Sound(j), JobStep(j)
  PROVE  Sound(j)'
<1>0. /\ led[j] \in View /\ mem[j] \in Record /\ execs[j] \in Nat
      /\ led[j].disp \in Nat /\ led[j].obs \in Nat /\ mem[j].epoch \in Nat
  BY DEF TypeOK, View, Record
<1>1. /\ ViewSound(led[j]) /\ WorkerLeased(j) /\ Recorded(j) /\ EndsAgree(j) /\ Once(j)
  BY DEF Sound
<1>2. \A s \in TerminalStates : Ended(s) /\ s \notin {"none", "running", "unknown", "queued",
                                          "registered", "awaiting_approval"}
  BY DEF TerminalStates, Ended
<1>3. mem[j].st = "none" => worker[j] = 0
  BY <1>1 DEF WorkerLeased, Ended, TerminalStates
<1>4. CASE Notes(j)
  <2>1. j \in Waiting' <=> j \in Waiting
    BY <1>4 DEF Notes, Waiting
  <2>2. mem'[j].st \in TerminalStates => mem'[j].st = mem[j].st
    BY <1>4 DEF Notes, TerminalStates
  <2>3. ViewSound(led[j])'
    BY <1>1, <1>4 DEF Notes, SameFold, ViewSound
  <2>4. WorkerLeased(j)'
    BY <1>1, <1>4 DEF Notes, SameFold, WorkerLeased, Ended, TerminalStates
  <2>5. Recorded(j)'
    BY <1>1, <1>4 DEF Notes, SameFold, Recorded, Only
  <2>6. EndsAgree(j)'
    BY <1>1, <1>4, <2>2 DEF Notes, SameFold, EndsAgree, Ended, TerminalStates
  <2>7. Once(j)'
    BY <1>1, <1>4, <2>1 DEF Notes, SameFold, Once, Only
  <2> QED BY <2>3, <2>4, <2>5, <2>6, <2>7 DEF Sound
<1>5. CASE Accepts(j)
  <2>1. led[j].disp = 0 /\ led[j].obs = 0 /\ led'[j].disp = 0 /\ led'[j].obs = 0
    BY <1>1, <1>5 DEF Accepts, ViewSound
  <2>2. mem'[j].st \notin TerminalStates /\ mem'[j].st # "running"
        /\ led'[j].job \notin TerminalStates
        /\ ~Ended(led'[j].job) /\ led'[j].job # "none"
    BY <1>2, <1>5 DEF Accepts, Waiting, Ended, TerminalStates
  <2>3. ViewSound(led[j])' /\ WorkerLeased(j)' /\ Recorded(j)'
    BY <1>3, <1>5, <2>1, <2>2 DEF Accepts, SameWork, ViewSound, WorkerLeased, Recorded
  <2>4. EndsAgree(j)' /\ Once(j)'
    BY <1>1, <1>5, <2>1, <2>2 DEF Accepts, SameWork, EndsAgree, Once
  <2> QED BY <2>3, <2>4 DEF Sound
<1>6. CASE Leases(j)
  <2>1. led'[j].disp = led[j].disp + 1 /\ led'[j].reg = led[j].reg /\ led'[j].obs = led[j].obs
    BY <1>6 DEF Leases, LeaseFold
  <2>2. /\ mem[j].st # "none" /\ ~Ended(mem[j].st) /\ led[j].reg
        /\ mem[j].epoch = led[j].disp /\ wOk
    BY <1>1, <1>6 DEF Leases, Waiting, Recorded, Ended, TerminalStates
  <2>3. /\ led'[j].job \in TerminalStates <=> led[j].job \in TerminalStates
        /\ Ended(led'[j].job) <=> Ended(led[j].job)
        /\ led'[j].job # "none"
        /\ led'[j].job \notin {"none", "awaiting_approval", "registered", "queued"}
    BY <1>0, <1>1, <1>6, <2>2 DEF Leases, LeaseFold, Ended, TerminalStates, ViewSound
  <2>4. ViewSound(led[j])'
    BY <1>1, <2>1, <2>2, <2>3 DEF ViewSound
  <2>5. WorkerLeased(j)' /\ Recorded(j)'
    BY <1>0, <1>6, <2>1, <2>2 DEF Leases, WorkerLeased, Recorded
  <2>6. EndsAgree(j)'
    BY <1>1, <1>2, <1>6, <2>2, <2>3 DEF Leases, EndsAgree
  <2>7. Once(j)'
    <3>1. j \notin Waiting'
      BY <1>6 DEF Leases, Waiting
    <3>2. ~gap[j] => led[j].disp = 0
      BY <1>1, <1>6 DEF Leases, Once
    <3> QED BY <1>0, <1>1, <1>6, <2>1, <2>3, <3>1, <3>2 DEF Leases, Once
  <2> QED BY <2>4, <2>5, <2>6, <2>7 DEF Sound
<1>7. CASE LosesLease(j)
  <2>1. /\ mem[j].st # "none" /\ ~Ended(mem[j].st) /\ led[j].reg /\ mem[j].st # "running"
        /\ mem'[j].st = mem[j].st
    BY <1>1, <1>7 DEF LosesLease, Waiting, Recorded, Ended, TerminalStates
  <2>2. /\ led'[j].reg = led[j].reg /\ led'[j].obs = led[j].obs
        /\ led'[j].disp = led[j].disp \/ (wOk /\ led'[j].disp = led[j].disp + 1)
    BY <1>7 DEF LosesLease, SameFold, LeaseFold
  <2>3. /\ led'[j].job \in TerminalStates <=> led[j].job \in TerminalStates
        /\ Ended(led'[j].job) <=> Ended(led[j].job)
        /\ led'[j].job # "none"
        /\ led'[j].disp > 0 =>
             led'[j].job \notin {"none", "awaiting_approval", "registered", "queued"}
    <3>1. CASE SameFold(led[j], led'[j])
      BY <1>1, <2>1, <3>1 DEF SameFold, ViewSound
    <3>2. CASE LeaseFold(led[j], led'[j])
      BY <1>0, <1>1, <2>1, <3>2 DEF LeaseFold, Ended, TerminalStates, ViewSound
    <3> QED BY <1>7, <3>1, <3>2 DEF LosesLease
  <2>4. ViewSound(led[j])'
    BY <1>1, <2>1, <2>2, <2>3 DEF ViewSound
  <2>5. WorkerLeased(j)' /\ Recorded(j)'
    <3>1. worker'[j] = 0
      BY <1>1, <1>7, <2>1 DEF LosesLease, SameWork, WorkerLeased
    <3> QED BY <1>7, <2>1, <2>2, <3>1 DEF LosesLease, WorkerLeased, Recorded
  <2>6. EndsAgree(j)'
    BY <1>1, <1>2, <1>7, <2>1, <2>3 DEF LosesLease, SameWork, EndsAgree, Ended
  <2>7. Once(j)'
    <3>1. ~gap[j] /\ wOk => led[j].disp = 0
      BY <1>1, <1>7 DEF LosesLease, Once
    <3>2. ~gap[j] => led'[j].disp <= 1 /\ led'[j].disp >= led[j].disp /\ led'[j].disp \in Nat
      BY <1>0, <1>1, <2>2, <3>1 DEF Once
    <3>3. execs'[j] = execs[j] /\ gap'[j] = gap[j] /\ ~wOk'
      BY <1>7 DEF LosesLease, SameWork
    <3>4. ~gap[j] => execs[j] <= led'[j].disp
      BY <1>0, <1>1, <3>2 DEF Once
    <3> QED BY <1>1, <2>2, <2>3, <3>2, <3>3, <3>4 DEF Once
  <2> QED BY <2>4, <2>5, <2>6, <2>7 DEF Sound
<1>8. ASSUME NEW s \in TerminalStates, Ends(j, s) PROVE Sound(j)'
  <2>1. /\ led'[j].reg = led[j].reg /\ led'[j].disp = led[j].disp /\ led'[j].obs = led[j].obs + 1
        /\ led'[j].job = IF led[j].job \in TerminalStates THEN led[j].job ELSE s
    BY <1>8 DEF Ends, EndFold
  <2>2. mem[j].st # "none" /\ ~Ended(mem[j].st) /\ led[j].reg /\ mem'[j].st = s
    BY <1>1, <1>8 DEF Ends, Recorded
  <2>3. led'[j].job \in TerminalStates /\ j \notin Waiting'
    BY <1>2, <2>1, <2>2 DEF Waiting
  <2>4. ViewSound(led[j])'
    BY <1>0, <1>2, <2>1, <2>2, <2>3 DEF ViewSound
  <2>5. WorkerLeased(j)'
    BY <1>1, <1>2, <1>8, <2>1, <2>2 DEF Ends, SameWork, WorkerLeased
  <2>6. Recorded(j)'
    BY <1>1, <1>2, <1>8, <2>1, <2>2 DEF Ends, Recorded, Only
  <2>7. EndsAgree(j)'
    <3>1. ~gap[j] => led'[j].job = s
      BY <1>1, <1>2, <2>1, <2>2 DEF EndsAgree, Ended
    <3> QED BY <1>0, <1>2, <1>8, <2>1, <2>2, <3>1 DEF Ends, SameWork, EndsAgree
  <2>8. Once(j)'
    <3>1. ~gap[j] => led[j].obs = 0
      BY <1>1, <2>2 DEF EndsAgree, Once, Ended
    <3> QED BY <1>0, <1>1, <1>8, <2>1, <2>3, <3>1 DEF Ends, SameWork, Once
  <2> QED BY <2>4, <2>5, <2>6, <2>7, <2>8 DEF Sound
<1>9. CASE TakesUp(j)
  <2>1. ViewSound(led[j])' /\ WorkerLeased(j)' /\ Recorded(j)'
    BY <1>1, <1>3, <1>9 DEF TakesUp, SameWork, ViewSound, WorkerLeased, Recorded
  <2>2. EndsAgree(j)'
    BY <1>0, <1>1, <1>9 DEF TakesUp, SameWork, EndsAgree, ViewSound
  <2>3. Once(j)'
    BY <1>1, <1>9 DEF TakesUp, SameWork, Once
  <2> QED BY <2>1, <2>2, <2>3 DEF Sound
<1>10. ASSUME NEW s \in {"succeeded", "unknown"}, Concludes(j, s) PROVE Sound(j)'
  <2>1. /\ s = "succeeded" => s \in TerminalStates
        /\ s = "unknown" => s \notin TerminalStates
        /\ Ended(s) /\ s \notin {"none", "running", "awaiting_approval", "registered", "queued"}
    BY DEF Ended, TerminalStates
  <2>2. ViewSound(led[j])'
    BY <1>0, <1>10, <2>1 DEF Concludes, ViewSound
  <2>3. WorkerLeased(j)' /\ Recorded(j)'
    BY <1>3, <1>10, <2>1 DEF Concludes, SameWork, WorkerLeased, Recorded
  <2>4. EndsAgree(j)'
    BY <1>0, <1>10, <2>1 DEF Concludes, SameWork, EndsAgree
  <2>5. Once(j)'
    <3>1. j \notin Waiting'
      BY <1>10, <2>1 DEF Concludes, Waiting
    <3>2. ~gap[j] => led[j].obs = 0
      BY <1>1, <1>10 DEF Concludes, Once, Ended
    <3> QED BY <1>0, <1>1, <1>10, <2>1, <3>1, <3>2 DEF Concludes, SameWork, Once
  <2> QED BY <2>2, <2>3, <2>4, <2>5 DEF Sound
<1>11. CASE Readmits(j)
  <2>1. ViewSound(led[j])' /\ WorkerLeased(j)' /\ Recorded(j)'
    BY <1>1, <1>3, <1>11 DEF Readmits, SameFold, ViewSound, WorkerLeased, Recorded
  <2>2. EndsAgree(j)' /\ Once(j)'
    BY <1>11 DEF Readmits, EndsAgree, Once, TerminalStates
  <2> QED BY <2>1, <2>2 DEF Sound
<1> QED BY <1>4, <1>5, <1>6, <1>7, <1>8, <1>9, <1>10, <1>11 DEF JobStep

-----------------------------------------------------------------------------
(* The handlers, one by one.  Each of them takes such a step with the job   *)
(* it is about.                                                             *)
Typed(j) == /\ led \in [Jobs -> View] /\ wOk \in BOOLEAN /\ mem \in [Jobs -> Record]
            /\ led[j] \in View /\ mem[j] \in Record /\ worker \in [Jobs -> Nat]
            /\ execs \in [Jobs -> Nat] /\ gap \in [Jobs -> BOOLEAN]

(* The shapes a handler's proof needs of its job.                           *)
LEMMA Types == TypeOK => \A j \in Jobs : Typed(j)
BY DEF TypeOK, Typed

(* A job without a record has no worker.                                    *)
LEMMA NoWorker ==
  ASSUME NEW j \in Jobs, Sound(j), mem[j].st \notin {"running"}, ~Ended(mem[j].st)
  PROVE  worker[j] = 0
BY DEF Sound, WorkerLeased

(* The lines written aside: nothing folded, the attempt as it was.          *)
Aside(v, w) == SameFold(v, w) /\ w.started = v.started

(* Stages made of such lines.                                               *)
LEMMA AsideSeqs ==
  ASSUME NEW v \in View, NEW w \in View, Aside(v, w)
  PROVE  /\ Aside(v, v)
         /\ <<v>> \in Views /\ \A n \in DOMAIN <<v>> : Aside(v, <<v>>[n])
         /\ <<v, w>> \in Views /\ \A n \in DOMAIN <<v, w>> : Aside(v, <<v, w>>[n])
<1> HIDE DEF View
<1>1. Aside(v, v)
  BY DEF Aside, SameFold
<1>2. \A n \in DOMAIN <<v>> : Aside(v, <<v>>[n])
  <2>1. DOMAIN <<v>> = {1} /\ <<v>>[1] = v
    OBVIOUS
  <2> QED BY <1>1, <2>1
<1>3. \A n \in DOMAIN <<v, w>> : Aside(v, <<v, w>>[n])
  <2>1. DOMAIN <<v, w>> = {1, 2} /\ <<v, w>>[1] = v /\ <<v, w>>[2] = w
    OBVIOUS
  <2> QED BY <1>1, <2>1
<1> QED BY <1>1, <1>2, <1>3, StageSeqs

(* CancelJob past its gate, also in the fallback to inline execution.       *)
LEMMA CancelStep ==
  ASSUME IInv, NEW j \in Jobs, Sound(j), CancelEffects(j), Cancellable(j),
         UNCHANGED <<worker, execs, gap>>
  PROVE  JobStep(j)
<1> DEFINE v == led[j]
           c == IF mem[j].cancelReq THEN v ELSE CancelRequested(v)
           o == Observed(c, "cancelled")
           ask == IF mem[j].cancelReq THEN <<v>> ELSE <<v, c>>
           stages == IF mem[j].dispatched THEN ask ELSE Append(ask, o)
<1>1. Typed(j)
  BY Types DEF IInv
<1>2. v \in View /\ c \in View /\ Aside(v, v) /\ Aside(v, c)
  BY <1>1, LineType, LineFold DEF Typed, Aside
<1>3. v.job # "none" /\ c.job # "none" /\ "cancelled" \in TerminalStates
  <2>1. v.job # "none"
    BY DEF Sound, ViewSound, Recorded, Cancellable
  <2> HIDE DEF c, v
  <2> QED BY <1>2, <2>1 DEF Aside, SameFold, TerminalStates
<1>4. o \in View /\ EndFold(v, o, "cancelled") /\ o.started = v.started
  <2> HIDE DEF c, v
  <2>1. o \in View
    BY <1>2, <1>3, CountType
  <2> QED BY <1>2, <1>3, <2>1, ObservedFold DEF Aside, SameFold, EndFold
<1>5. ask \in Views /\ \A n \in DOMAIN ask : Aside(v, ask[n])
  <2>1. ask = <<v>> \/ ask = <<v, c>>
    OBVIOUS
  <2> HIDE DEF c, v, ask
  <2> QED BY <1>2, <2>1, AsideSeqs
<1>6. PICK n \in Reach(stages) :
        /\ Commit(j, stages, n)
        /\ mem' = [mem EXCEPT
             ![j].cancelReq = n >= Len(ask),
             ![j].flag = @ \/ n >= Len(ask),
             ![j].st = IF ~mem[j].dispatched /\ All(stages, n) THEN "cancelled" ELSE @]
  BY DEF CancelEffects
<1>7. /\ \A k \in Jobs : k # j => mem'[k] = mem[k]
      /\ mem'[j].owner = mem[j].owner /\ mem'[j].epoch = mem[j].epoch
      /\ mem'[j].pend = mem[j].pend
      /\ mem'[j].st = IF ~mem[j].dispatched /\ n = Len(stages) THEN "cancelled" ELSE mem[j].st
  <2> HIDE DEF stages, ask
  <2> QED BY <1>1, <1>6 DEF Record, All, Typed
<1> HIDE DEF v, c, o, ask
<1>8. /\ stages \in Views
      /\ mem[j].dispatched => \A i \in DOMAIN stages : Aside(v, stages[i])
      /\ ~mem[j].dispatched =>
           /\ \A i \in DOMAIN stages : i # Len(stages) => Aside(v, stages[i])
           /\ stages[Len(stages)] = o
  <2>1. Append(ask, o) \in Views
    BY <1>4, <1>5, AppendProperties DEF Views
  <2>2. /\ Append(ask, o)[Len(Append(ask, o))] = o
        /\ \A i \in DOMAIN Append(ask, o) :
             i # Len(Append(ask, o)) => Aside(v, Append(ask, o)[i])
    BY <1>4, <1>5, AppendProperties DEF Views
  <2> QED BY <1>5, <2>1, <2>2
<1> HIDE DEF stages
<1>9. /\ n \in DOMAIN stages /\ led'[j] = stages[n] /\ (wOk' => wOk)
      /\ \A k \in Jobs : k # j => led'[k] = led[k]
  BY <1>1, <1>6, <1>8, CommitType DEF Typed
<1>10. Only(j) /\ SameWork(j)
  BY <1>7, <1>9 DEF Only, SameWork
<1>11. CASE ~mem[j].dispatched /\ n = Len(stages)
  <2>1. Ends(j, "cancelled")
    BY <1>4, <1>7, <1>8, <1>9, <1>10, <1>11 DEF Ends, Cancellable, v
  <2> QED BY <1>3, <2>1 DEF JobStep
<1>12. CASE mem[j].dispatched \/ n # Len(stages)
  <2>1. Aside(v, led'[j])
    BY <1>8, <1>9, <1>12
  <2>2. Notes(j)
    BY <1>7, <1>10, <1>12, <2>1 DEF Notes, SameWork, Aside, v
  <2> QED BY <2>2 DEF JobStep
<1> QED BY <1>11, <1>12

(* The other calls about one job, a deadline and a worker's end.            *)
LEMMA CallStep ==
  ASSUME IInv, NEW j \in Jobs, Sound(j),
         \/ CompleteAdmission(j) \/ GrantApproval(j) \/ CancelJob(j)
         \/ FallBackInline(j) \/ Compact(j) \/ DeadlinePassed(j)
         \/ \E ok \in BOOLEAN : WorkerEnds(j, ok)
  PROVE  JobStep(j)
<1> USE DEF ledger, memory, quota, posts, bounds, ghosts
<1>0. Typed(j)
  BY Types DEF IInv
<1>1. ASSUME NEW w \in View, Aside(led[j], w), NEW n \in Reach(<<led[j], w>>),
             Commit(j, <<led[j], w>>, n)
      PROVE  /\ \A k \in Jobs : k # j => led'[k] = led[k]
             /\ Aside(led[j], led'[j]) /\ (wOk' => wOk)
  <2> DEFINE stages == <<led[j], w>>
             v == led[j]
  <2>1. v \in View /\ Aside(v, v)
    BY <1>0 DEF Aside, SameFold, Typed
  <2>2. stages \in Views /\ \A i \in DOMAIN stages : Aside(v, stages[i])
    <3> HIDE DEF v
    <3> QED BY <1>1, <2>1, AsideSeqs DEF v
  <2> HIDE DEF stages, v
  <2>3. /\ n \in DOMAIN stages /\ led'[j] = stages[n] /\ (wOk' => wOk)
        /\ \A k \in Jobs : k # j => led'[k] = led[k]
    BY <1>0, <1>1, <2>2, CommitType DEF Typed, stages
  <2> QED BY <2>2, <2>3 DEF v
<1>2. CASE CompleteAdmission(j)
  <2> DEFINE w == Admitted(led[j])
  <2>1. w \in View /\ Aside(led[j], w)
    BY <1>0, LineType, LineFold DEF Typed, Aside
  <2>2. PICK n \in Reach(<<led[j], w>>) :
          Commit(j, <<led[j], w>>, n) /\ mem' = [mem EXCEPT ![j].admC = All(<<led[j], w>>, n)]
    BY <1>2 DEF CompleteAdmission
  <2>3. /\ \A k \in Jobs : k # j => mem'[k] = mem[k]
        /\ mem'[j].owner = mem[j].owner /\ mem'[j].epoch = mem[j].epoch
        /\ mem'[j].pend = mem[j].pend
        /\ mem'[j].st = mem[j].st
    <3> HIDE DEF w
    <3> QED BY <1>0, <2>2 DEF Record, Typed
  <2>4. UNCHANGED <<worker, execs, gap>>
    BY <1>2 DEF CompleteAdmission
  <2> HIDE DEF w
  <2>5. /\ \A k \in Jobs : k # j => led'[k] = led[k]
        /\ Aside(led[j], led'[j]) /\ (wOk' => wOk)
    BY <1>1, <2>1, <2>2
  <2> QED BY <2>3, <2>4, <2>5 DEF JobStep, Notes, Only, Aside
<1>3. CASE GrantApproval(j)
  <2>1. /\ \A k \in Jobs : k # j => mem'[k] = mem[k]
        /\ mem'[j].owner = mem[j].owner /\ mem'[j].epoch = mem[j].epoch
        /\ mem'[j].pend = mem[j].pend
        /\ mem[j].st = "awaiting_approval" /\ mem'[j].st = "queued"
    BY <1>0, <1>3 DEF GrantApproval, Record, Typed
  <2>2. UNCHANGED <<led, wOk, worker, execs, gap>>
    BY <1>3 DEF GrantApproval
  <2> QED BY <2>1, <2>2 DEF JobStep, Notes, Only, SameFold
<1>4. CASE CancelJob(j)
  BY <1>4, CancelStep DEF CancelJob
<1>5. CASE FallBackInline(j)
  <2>1. CASE Cancellable(j) /\ CancelEffects(j)
    BY <1>5, <2>1, CancelStep DEF FallBackInline
  <2>2. CASE UNCHANGED <<ledger, mem>>
    BY <1>5, <2>2 DEF FallBackInline, JobStep, Notes, Only, SameFold
  <2> QED BY <1>5, <2>1, <2>2 DEF FallBackInline
<1>6. CASE Compact(j)
  <2>1. led' = [led EXCEPT ![j] = Compacted(@)] /\ UNCHANGED <<wOk, mem, worker, execs, gap>>
    BY <1>6 DEF Compact
  <2>2. led'[j] = Compacted(led[j]) /\ \A k \in Jobs : k # j => led'[k] = led[k]
    BY <1>0, <2>1 DEF Typed
  <2> QED BY <1>0, <2>1, <2>2, LineFold DEF Typed, JobStep, Notes, Only
<1>7. CASE DeadlinePassed(j)
  <2> DEFINE w == CancelRequested(led[j])
  <2>1. w \in View /\ Aside(led[j], w)
    BY <1>0, LineType, LineFold DEF Typed, Aside
  <2>2. PICK n \in Reach(<<led[j], w>>) :
          /\ Commit(j, <<led[j], w>>, n)
          /\ mem' \in {[mem EXCEPT ![j].cancelReq = TRUE, ![j].flag = TRUE], mem}
    BY <1>7 DEF DeadlinePassed
  <2>3. /\ \A k \in Jobs : k # j => mem'[k] = mem[k]
        /\ mem'[j].owner = mem[j].owner /\ mem'[j].epoch = mem[j].epoch
        /\ mem'[j].pend = mem[j].pend
        /\ mem'[j].st = mem[j].st
    <3> HIDE DEF w
    <3> QED BY <1>0, <2>2 DEF Record, Typed
  <2>4. UNCHANGED <<worker, execs, gap>>
    BY <1>7 DEF DeadlinePassed
  <2> HIDE DEF w
  <2>5. /\ \A k \in Jobs : k # j => led'[k] = led[k]
        /\ Aside(led[j], led'[j]) /\ (wOk' => wOk)
    BY <1>1, <2>1, <2>2
  <2> QED BY <2>3, <2>4, <2>5 DEF JobStep, Notes, Only, Aside
<1>8. ASSUME NEW ok \in BOOLEAN, WorkerEnds(j, ok) PROVE JobStep(j)
  <2>1. worker' = [worker EXCEPT ![j] = 0] /\ UNCHANGED <<led, wOk, mem, execs, gap>>
    BY <1>8 DEF WorkerEnds
  <2>2. worker'[j] = 0 /\ \A k \in Jobs : k # j => worker'[k] = worker[k]
    BY <1>0, <2>1 DEF Typed
  <2> QED BY <2>1, <2>2 DEF JobStep, Notes, Only, SameFold
<1> QED BY <1>2, <1>3, <1>4, <1>5, <1>6, <1>7, <1>8

-----------------------------------------------------------------------------
(* The admission chain writes nothing folded.                               *)
LEMMA ChainFold ==
  ASSUME NEW v \in View, NEW store \in BOOLEAN, NEW early \in BOOLEAN,
         NEW i \in DOMAIN AdmissionChain(v, store, early)
  PROVE  SameFold(v, AdmissionChain(v, store, early)[i])
<1> DEFINE s == Started(v)
           c == Closed(s, "done")
           x == Selected(c)
           m == Admitted(x)
<1>1. s \in View /\ SameFold(v, s)
  BY LineType, LineFold
<1>2. c \in View /\ SameFold(v, c)
  <2> HIDE DEF s
  <2> QED BY <1>1, LineType, LineFold DEF SameFold, ActionTerminals
<1>3. x \in View /\ SameFold(v, x)
  <2> HIDE DEF c
  <2> QED BY <1>2, LineType, LineFold DEF SameFold
<1>4. SameFold(v, m)
  <2> HIDE DEF x
  <2> QED BY <1>3, LineFold DEF SameFold
<1>5. AdmissionChain(v, store, early) \in {<<s, c>>, <<s, c, x>>, <<s, c, x, m>>}
  BY DEF AdmissionChain
<1> HIDE DEF s, c, x, m
<1>6. CASE AdmissionChain(v, store, early) = <<s, c>>
  BY <1>1, <1>2, <1>6
<1>7. CASE AdmissionChain(v, store, early) = <<s, c, x>>
  BY <1>1, <1>2, <1>3, <1>7
<1>8. CASE AdmissionChain(v, store, early) = <<s, c, x, m>>
  BY <1>1, <1>2, <1>3, <1>4, <1>8
<1> QED BY <1>5, <1>6, <1>7, <1>8

(* A start registers the job with its third line and folds nothing else.    *)
RegisteredFold(v, w) ==
  /\ w.reg /\ w.disp = v.disp /\ w.obs = v.obs
  /\ w.job \in {"awaiting_approval", "registered"}

(* Stage by stage, what the folds see of a start.                           *)
LEMMA StartFold ==
  ASSUME led \in [Jobs -> View], NEW j \in Jobs, NEW kind, NEW ask \in BOOLEAN,
         NEW store \in BOOLEAN, NEW n \in DOMAIN StartStages(j, kind, ask, store)
  PROVE  LET w == StartStages(j, kind, ask, store)[n]
         IN  IF n < 3 THEN SameFold(led[j], w) ELSE RegisteredFold(led[j], w)
<1> DEFINE v == led[j]
           p == Pending(v, 1)
           r == Registered(p, IF kind = "native" THEN "native_deferred"
                                                 ELSE "job_handle", ask)
           early == kind = "early"
           chain == AdmissionChain(r, store, early)
           w == StartStages(j, kind, ask, store)[n]
<1>1. v \in View /\ p \in View /\ SameFold(v, v) /\ SameFold(v, p)
  BY LineType, LineFold
<1>2. r \in View /\ RegisteredFold(v, r)
  <2> HIDE DEF p, v
  <2>1. r \in View
    BY <1>1, LineType DEF LedgerModes
  <2>2. RegisteredFold(v, r)
    BY <1>1 DEF Registered, View, SameFold, RegisteredFold
  <2> QED BY <2>1, <2>2
<1>3. early \in BOOLEAN
  OBVIOUS
<1>4. /\ <<v, p, r>> \in Seq(View) /\ Len(<<v, p, r>>) = 3
      /\ <<v, p, r>>[1] = v /\ <<v, p, r>>[2] = p /\ <<v, p, r>>[3] = r
  <2> HIDE DEF v, p, r
  <2> QED BY <1>1, <1>2
<1>5. CASE kind = "native"
  <2>1. StartStages(j, kind, ask, store) = <<v, p, r>>
    BY <1>5 DEF StartStages
  <2> HIDE DEF v, p, r
  <2>2. (n = 1 /\ w = v) \/ (n = 2 /\ w = p) \/ (n = 3 /\ w = r)
    BY <1>4, <2>1
  <2> QED BY <1>1, <1>2, <2>2 DEF v
<1>6. CASE kind # "native"
  <2>1. StartStages(j, kind, ask, store) = <<v, p, r>> \o chain
    BY <1>6 DEF StartStages
  <2> HIDE DEF v, p, r
  <2>2. chain \in Seq(View) /\ \A i \in DOMAIN chain : SameFold(r, chain[i])
    BY <1>2, <1>3, ChainSeq, ChainFold
  <2> HIDE DEF chain
  <2>3. n \in 1 .. (3 + Len(chain)) /\ Len(chain) \in Nat /\ DOMAIN chain = 1 .. Len(chain)
        /\ w = IF n <= 3 THEN <<v, p, r>>[n] ELSE chain[n - 3]
    BY <1>4, <2>1, <2>2, ConcatProperties
  <2>4. CASE n > 3
    <3>1. n - 3 \in DOMAIN chain /\ w = chain[n - 3]
      BY <2>3, <2>4
    <3>2. RegisteredFold(v, w)
      BY <1>2, <2>2, <3>1 DEF SameFold, RegisteredFold
    <3>3. ~(n < 3)
      BY <2>3, <2>4
    <3> QED BY <3>2, <3>3 DEF v
  <2>5. CASE n <= 3
    <3>1. (n = 1 /\ w = v) \/ (n = 2 /\ w = p) \/ (n = 3 /\ w = r)
      BY <1>4, <2>3, <2>5
    <3> QED BY <1>1, <1>2, <3>1 DEF v
  <2> QED BY <2>3, <2>4, <2>5
<1> QED BY <1>5, <1>6

(* The number a start takes has no record, no worker and is not registered. *)
LEMMA NextFacts ==
  ASSUME IInv, Evidence, CanStart
  PROVE  /\ next \in Jobs /\ next \in Nat /\ mem[next] = Unborn /\ mem[next].st = "none"
         /\ worker[next] = 0 /\ ~led[next].reg /\ Typed(next) /\ Sound(next)
<1>1. next \in Jobs /\ next \in Nat /\ next >= next
  BY JobsAssumption DEF CanStart, Jobs
<1>2. mem[next] = Unborn /\ mem[next].st = "none" /\ Sound(next) /\ Typed(next)
  <2>1. mem[next] = Unborn
    BY <1>1 DEF IInv, Numbered
  <2>2. Typed(next) /\ Sound(next)
    BY <1>1, Types DEF IInv, Evidence
  <2> QED BY <2>1, <2>2 DEF Unborn
<1>3. worker[next] = 0
  BY <1>1, <1>2, NoWorker DEF Ended, TerminalStates
<1>4. ~led[next].reg
  BY <1>1 DEF Evidence, Issued, CanStart, Calls, Idle
<1> QED BY <1>1, <1>2, <1>3, <1>4

(* StartJob: nothing the folds see, or an accepted job.                     *)
LEMMA StartStep ==
  ASSUME IInv, Evidence, NEW kind, NEW ask \in BOOLEAN, NEW store \in BOOLEAN,
         StartJob(kind, ask, store)
  PROVE  JobStep(next)
<1> DEFINE j == next
           stages == StartStages(j, kind, ask, store)
<1>0. /\ j \in Jobs /\ mem[j] = Unborn /\ mem[j].st = "none"
      /\ worker[j] = 0 /\ ~led[j].reg /\ Typed(j)
  BY NextFacts DEF StartJob
<1>1. PICK n \in Reach(stages) : \E r :
        /\ Commit(j, stages, n)
        /\ mem' = IF n < 3 THEN mem ELSE [mem EXCEPT ![j] = r]
        /\ r.epoch = 0
        /\ r.st \in {"registered", "awaiting_approval", "queued"}
  <2> DEFINE ok(n) == All(stages, n) /\ (kind = "native" \/ store)
             st(n) == IF ~ok(n) THEN "registered"
                      ELSE IF ask THEN "awaiting_approval" ELSE "queued"
             r(n) == [Unborn EXCEPT !.st = st(n), !.admC = ok(n) /\ kind = "batch",
                                    !.admF = ok(n) /\ kind # "native"]
  <2>1. PICK n \in Reach(stages) :
          Commit(j, stages, n) /\ mem' = IF n < 3 THEN mem ELSE [mem EXCEPT ![j] = r(n)]
    BY DEF StartJob
  <2>2. r(n).epoch = 0 /\ r(n).st = st(n)
    <3> HIDE DEF st, ok
    <3> QED BY DEF Unborn
  <2>3. st(n) \in {"registered", "awaiting_approval", "queued"}
    OBVIOUS
  <2> HIDE DEF r, st, stages
  <2> QED BY <2>1, <2>2, <2>3
<1>2. stages \in Views
  BY <1>0, StartStagesType DEF Typed
<1>3. /\ n \in DOMAIN stages /\ led'[j] = stages[n] /\ (wOk' => wOk) /\ n \in Nat
      /\ \A k \in Jobs : k # j => led'[k] = led[k]
  <2> HIDE DEF stages
  <2> QED BY <1>0, <1>1, <1>2, CommitType, NonEmptySeq DEF Views, Typed
<1>4. IF n < 3 THEN SameFold(led[j], led'[j]) ELSE RegisteredFold(led[j], led'[j])
  BY <1>0, <1>3, StartFold DEF Typed
<1> HIDE DEF stages
<1>5. /\ \A k \in Jobs : k # j => mem'[k] = mem[k]
      /\ UNCHANGED <<worker, execs, gap>>
  BY <1>0, <1>1 DEF StartJob, posts, ghosts, Typed
<1>6. Only(j) /\ SameWork(j)
  BY <1>3, <1>5 DEF Only, SameWork
<1>7. CASE n < 3
  <2>1. mem' = mem
    BY <1>1, <1>7
  <2>2. Notes(j)
    BY <1>0, <1>4, <1>6, <1>7, <2>1 DEF Notes, SameWork
  <2> QED BY <2>2 DEF JobStep
<1>8. CASE ~(n < 3)
  <2>1. mem'[j].epoch = 0 /\ j \in Waiting'
    BY <1>0, <1>1, <1>8 DEF Waiting, Typed
  <2>2. Accepts(j)
    BY <1>0, <1>4, <1>6, <1>8, <2>1 DEF Accepts, RegisteredFold
  <2> QED BY <2>2 DEF JobStep
<1> QED BY <1>7, <1>8

(* A denied start writes an attempt, and that it was rejected.              *)
LEMMA StartDeniedStep ==
  ASSUME IInv, Evidence, StartDenied
  PROVE  JobStep(next)
<1> USE DEF memory, quota, posts, bounds, ghosts
<1> DEFINE v == led[next]
           p == Pending(v, 1)
           c == Closed(p, "rejected")
           stages == <<v, p, c>>
<1>0. next \in Jobs /\ worker[next] = 0 /\ Typed(next)
  BY NextFacts DEF StartDenied
<1>1. v \in View /\ p \in View /\ SameFold(v, v) /\ SameFold(v, p)
  BY <1>0, LineType, LineFold DEF Typed
<1>2. c \in View /\ SameFold(v, c)
  <2> HIDE DEF p, v
  <2> QED BY <1>1, LineType, LineFold DEF SameFold, ActionTerminals
<1>3. stages \in Views /\ \A i \in DOMAIN stages : SameFold(v, stages[i])
  <2> HIDE DEF v, p, c
  <2>1. DOMAIN stages = 1 .. 3 /\ stages[1] = v /\ stages[2] = p /\ stages[3] = c
    OBVIOUS
  <2>2. \A i \in 1 .. 3 : i = 1 \/ i = 2 \/ i = 3
    OBVIOUS
  <2>3. stages \in Views
    BY <1>1, <1>2, StageSeqs
  <2> HIDE DEF stages
  <2> QED BY <1>1, <1>2, <2>1, <2>2, <2>3
<1>4. PICK n \in Reach(stages) : Commit(next, stages, n)
  BY DEF StartDenied
<1> HIDE DEF stages, v
<1>5. /\ SameFold(v, led'[next]) /\ (wOk' => wOk)
      /\ \A k \in Jobs : k # next => led'[k] = led[k]
  BY <1>0, <1>3, <1>4, CommitType DEF Typed
<1>6. UNCHANGED <<mem, worker, execs, gap>>
  BY DEF StartDenied
<1> QED BY <1>0, <1>5, <1>6 DEF JobStep, Notes, Only, v

-----------------------------------------------------------------------------
(* The entry the scan looks at is a registered job, with no worker.         *)
LEMMA EntryJob ==
  ASSUME IInv, Evidence, AtEntry
  PROVE  /\ Here \in Jobs /\ Here \in Waiting /\ Typed(Here) /\ Sound(Here)
         /\ worker[Here] = 0 /\ led[Here].job # "none"
         /\ mem[Here].st # "none" /\ ~Ended(mem[Here].st) /\ mem[Here].st # "running"
<1>1. Here \in Jobs /\ Here \in Waiting
  BY EntryFacts
<1>2. Typed(Here) /\ Sound(Here)
  BY <1>1, Types DEF IInv, Evidence
<1>3. mem[Here].st # "none" /\ ~Ended(mem[Here].st) /\ mem[Here].st # "running"
  BY <1>1 DEF Waiting, Ended, TerminalStates
<1>4. worker[Here] = 0
  BY <1>1, <1>2, <1>3, NoWorker
<1>5. led[Here].job # "none"
  BY <1>2, <1>3 DEF Sound, ViewSound, Recorded
<1> QED BY <1>1, <1>2, <1>3, <1>4, <1>5

(* A job cancelled in the queue ends there, unless the append fails.        *)
LEMMA ScanCancelledStep ==
  ASSUME IInv, Evidence, ScanCancelled
  PROVE  JobStep(Here)
<1> USE DEF ghosts, posts
<1> DEFINE j == Here
           v == led[j]
           o == Observed(v, "cancelled")
           stages == <<v, o>>
<1>0. /\ j \in Jobs /\ Typed(j) /\ worker[j] = 0 /\ v.job # "none"
      /\ mem[j].st # "none" /\ ~Ended(mem[j].st)
  BY EntryJob DEF ScanCancelled
<1>1. "cancelled" \in TerminalStates
  BY DEF TerminalStates
<1>2. v \in View /\ o \in View /\ EndFold(v, o, "cancelled") /\ SameFold(v, v)
  BY <1>0, <1>1, CountType, ObservedFold DEF Typed, EndFold, SameFold
<1>3. PICK n \in Reach(stages) :
        /\ Commit(j, stages, n)
        /\ mem' = IF All(stages, n) THEN [mem EXCEPT ![j].st = "cancelled"] ELSE mem
  BY DEF ScanCancelled
<1>4. stages \in Views /\ Len(stages) = 2 /\ DOMAIN stages = 1 .. 2
      /\ stages[1] = v /\ stages[2] = o
  <2> HIDE DEF v, o
  <2>1. stages \in Views
    BY <1>2, StageSeqs
  <2>2. Len(stages) = 2 /\ DOMAIN stages = 1 .. 2 /\ stages[1] = v /\ stages[2] = o
    OBVIOUS
  <2> QED BY <2>1, <2>2
<1>5. UNCHANGED <<worker, execs, gap>>
  BY DEF ScanCancelled
<1> HIDE DEF v, o
<1>6. /\ \A k \in Jobs : k # j => mem'[k] = mem[k]
      /\ mem'[j].owner = mem[j].owner /\ mem'[j].epoch = mem[j].epoch
      /\ mem'[j].pend = mem[j].pend
      /\ mem'[j].st = IF n = 2 THEN "cancelled" ELSE mem[j].st
  <2> HIDE DEF stages
  <2> QED BY <1>0, <1>3, <1>4 DEF Record, All, Typed
<1> HIDE DEF stages
<1>7. /\ n \in DOMAIN stages /\ led'[j] = stages[n] /\ (wOk' => wOk)
      /\ \A k \in Jobs : k # j => led'[k] = led[k]
  BY <1>0, <1>3, <1>4, CommitType DEF Typed
<1>8. Only(j) /\ SameWork(j)
  BY <1>5, <1>6, <1>7 DEF Only, SameWork
<1>9. CASE n = 2
  <2>1. Ends(j, "cancelled")
    BY <1>0, <1>2, <1>4, <1>6, <1>7, <1>8, <1>9 DEF Ends, v
  <2> QED BY <1>1, <2>1 DEF JobStep
<1>10. CASE n # 2
  <2>1. led'[j] = v
    BY <1>4, <1>7, <1>10
  <2>2. Notes(j)
    BY <1>0, <1>2, <1>6, <1>8, <1>10, <2>1 DEF Notes, SameWork, v
  <2> QED BY <2>2 DEF JobStep
<1> QED BY <1>9, <1>10

(* A denial at dispatch ends the job as failed, unless an append fails or   *)
(* the attempt cannot be opened.                                            *)
LEMMA ScanDeniedStep ==
  ASSUME IInv, Evidence, ScanDenied
  PROVE  JobStep(Here)
<1> USE DEF ledger, posts, ghosts
<1> DEFINE j == Here
           v == led[j]
           p == NextAttempt(v)
           r == Closed(p, "rejected")
           o == Observed(r, "failed")
           stages == <<v, p, r, o>>
<1>0. /\ j \in Jobs /\ Typed(j) /\ worker[j] = 0 /\ v.job # "none"
      /\ mem[j].st # "none" /\ ~Ended(mem[j].st)
  BY EntryJob DEF ScanDenied
<1>1. "failed" \in TerminalStates
  BY DEF TerminalStates
<1>2. v \in View /\ p \in View /\ SameFold(v, v) /\ SameFold(v, p)
  BY <1>0, CountType, LineFold DEF Typed
<1>3. r \in View /\ SameFold(v, r)
  <2> HIDE DEF v, p
  <2> QED BY <1>2, LineType, LineFold DEF SameFold, ActionTerminals
<1>4. o \in View /\ EndFold(v, o, "failed")
  <2> HIDE DEF v, r
  <2>1. r.job # "none"
    BY <1>0, <1>3 DEF SameFold
  <2>2. o \in View
    BY <1>1, <1>3, CountType
  <2> QED BY <1>1, <1>3, <2>1, <2>2, ObservedFold DEF SameFold, EndFold
<1>5. UNCHANGED <<worker, execs, gap>>
  BY DEF ScanDenied
<1>6. CASE AttemptOpen(v)
  <2>1. UNCHANGED <<led, wOk, mem>>
    BY <1>6 DEF ScanDenied
  <2> HIDE DEF j
  <2> QED BY <1>5, <2>1 DEF JobStep, Notes, Only, SameFold
<1>7. CASE ~AttemptOpen(v)
  <2>1. PICK n \in Reach(stages) :
          /\ Commit(j, stages, n)
          /\ mem' = IF All(stages, n) THEN [mem EXCEPT ![j].st = "failed"] ELSE mem
    BY <1>7 DEF ScanDenied
  <2> HIDE DEF v, p, r, o
  <2>2. stages \in Views /\ Len(stages) = 4 /\ DOMAIN stages = 1 .. 4
        /\ stages[1] = v /\ stages[2] = p /\ stages[3] = r /\ stages[4] = o
    <3>1. stages \in Views
      BY <1>2, <1>3, <1>4, StageSeqs
    <3>2. Len(stages) = 4 /\ DOMAIN stages = 1 .. 4
          /\ stages[1] = v /\ stages[2] = p /\ stages[3] = r /\ stages[4] = o
      OBVIOUS
    <3> QED BY <3>1, <3>2
  <2> HIDE DEF stages
  <2>3. /\ \A k \in Jobs : k # j => mem'[k] = mem[k]
        /\ mem'[j].owner = mem[j].owner /\ mem'[j].epoch = mem[j].epoch
        /\ mem'[j].pend = mem[j].pend
        /\ mem'[j].st = IF n = 4 THEN "failed" ELSE mem[j].st
    BY <1>0, <2>1, <2>2 DEF Record, All, Typed
  <2>4. /\ n \in DOMAIN stages /\ led'[j] = stages[n] /\ (wOk' => wOk)
        /\ \A k \in Jobs : k # j => led'[k] = led[k]
    BY <1>0, <2>1, <2>2, CommitType DEF Typed
  <2>5. Only(j) /\ SameWork(j)
    BY <1>5, <2>3, <2>4 DEF Only, SameWork
  <2>6. CASE n = 4
    <3>1. Ends(j, "failed")
      BY <1>0, <1>4, <2>2, <2>3, <2>4, <2>5, <2>6 DEF Ends, v
    <3> QED BY <1>1, <3>1 DEF JobStep
  <2>7. CASE n # 4
    <3>1. SameFold(v, led'[j])
      <4>1. n = 1 \/ n = 2 \/ n = 3
        BY <2>2, <2>4, <2>7
      <4> QED BY <1>2, <1>3, <2>2, <2>4, <4>1
    <3>2. Notes(j)
      BY <1>0, <2>3, <2>5, <2>7, <3>1 DEF Notes, SameWork, v
    <3> QED BY <3>2 DEF JobStep
  <2> QED BY <2>6, <2>7
<1> QED BY <1>6, <1>7

(* The appends of a dispatch: at most the lease is folded, and the last of  *)
(* them starts the attempt under it.                                        *)
LEMMA DispatchFold ==
  ASSUME led \in [Jobs -> View], NEW j \in Jobs
  PROVE  LET s == DispatchStages(j)
         IN  /\ s \in Views /\ Len(s) >= 3
             /\ \A n \in DOMAIN s : SameFold(led[j], s[n]) \/ LeaseFold(led[j], s[n])
             /\ SameFold(led[j], s[1])
             /\ LeaseFold(led[j], s[Len(s)]) /\ s[Len(s)].started
<1> DEFINE v == led[j]
           p == IF Native(j) THEN v ELSE NextAttempt(v)
           d == Dispatched(p)
           t == Started(d)
<1>1. v \in View /\ SameFold(v, v)
  BY LineFold
<1>2. p \in View /\ SameFold(v, p)
  BY <1>1, CountType, LineFold
<1>3. d \in View /\ LeaseFold(v, d)
  <2> HIDE DEF p, v
  <2> QED BY <1>2, CountType, DispatchedFold DEF SameFold, LeaseFold
<1>4. t \in View /\ LeaseFold(v, t) /\ t.started
  <2> HIDE DEF d, v
  <2>1. t \in View /\ SameFold(d, t)
    BY <1>3, LineType, LineFold
  <2>2. t.started
    BY <1>3 DEF Started, View
  <2> QED BY <1>3, <2>1, <2>2 DEF SameFold, LeaseFold
<1>5. DispatchStages(j) \in {<<v, d, t>>, <<v, p, d, t>>}
  BY DEF DispatchStages
<1> HIDE DEF v, p, d, t
<1>6. CASE DispatchStages(j) = <<v, d, t>>
  <2>1. <<v, d, t>> \in Views
    BY <1>1, <1>3, <1>4, StageSeqs
  <2> QED BY <1>1, <1>3, <1>4, <1>6, <2>1 DEF v
<1>7. CASE DispatchStages(j) = <<v, p, d, t>>
  <2>1. <<v, p, d, t>> \in Views
    BY <1>1, <1>2, <1>3, <1>4, StageSeqs
  <2> QED BY <1>1, <1>2, <1>3, <1>4, <1>7, <2>1 DEF v
<1> QED BY <1>5, <1>6, <1>7

(* A dispatch issues the lease its worker runs under.                       *)
LEMMA ScanDispatchStep ==
  ASSUME IInv, Evidence, ScanDispatch
  PROVE  JobStep(Here)
<1> DEFINE j == Here
           stages == DispatchStages(j)
           n == Len(stages)
<1>0. j \in Jobs /\ Typed(j) /\ j \in Waiting
  BY EntryJob DEF ScanDispatch, CanDispatch
<1>1. n \in Reach(stages) /\ Commit(j, stages, n)
  BY DEF ScanDispatch
<1>2. stages \in Views /\ n >= 3 /\ LeaseFold(led[j], stages[n]) /\ stages[n].started
  BY <1>0, DispatchFold DEF Typed
<1>3. /\ mem' = [mem EXCEPT ![j] = [Lease(j) EXCEPT
                     !.st = "running", !.dispatched = TRUE, !.flag = FALSE]]
      /\ worker' = [worker EXCEPT ![j] = Lease(j).epoch]
      /\ execs' = [execs EXCEPT ![j] = @ + 1] /\ gap' = gap
  BY DEF ScanDispatch
<1>4. /\ Lease(j) \in Record
      /\ Lease(j).epoch = mem[j].epoch + 1 /\ Lease(j).owner = mem[j].epoch + 1
  BY <1>0, LeaseType DEF Typed
<1> HIDE DEF stages, n, j
<1>5. /\ led'[j] = stages[n] /\ (wOk' => wOk) /\ wOk
      /\ \A k \in Jobs : k # j => led'[k] = led[k]
  BY <1>0, <1>1, <1>2, CommitType DEF Typed
<1>6. /\ mem'[j].st = "running"
      /\ mem'[j].epoch = mem[j].epoch + 1 /\ mem'[j].owner = mem[j].epoch + 1
      /\ worker'[j] = mem[j].epoch + 1 /\ execs'[j] = execs[j] + 1
      /\ \A k \in Jobs : k # j =>
           mem'[k] = mem[k] /\ worker'[k] = worker[k] /\ execs'[k] = execs[k]
  BY <1>0, <1>3, <1>4 DEF Typed, Record
<1>7. Leases(j)
  BY <1>0, <1>2, <1>3, <1>5, <1>6 DEF Leases, Only
<1> QED BY <1>7 DEF JobStep, j

(* One that fails issues at most a lease that nobody uses.                  *)
LEMMA ScanDispatchFailsStep ==
  ASSUME IInv, Evidence, ScanDispatchFails
  PROVE  JobStep(Here)
<1> USE DEF posts, ghosts
<1> DEFINE j == Here
           stages == DispatchStages(j)
<1>0. j \in Jobs /\ Typed(j) /\ j \in Waiting
  BY EntryJob DEF ScanDispatchFails, CanDispatch
<1>1. PICK n \in Reach(stages) \ {Len(stages)} :
        /\ Commit(j, stages, n)
        /\ mem' = IF Native(j) \/ n >= 2 THEN [mem EXCEPT ![j] = Lease(j)] ELSE mem
  BY DEF ScanDispatchFails
<1>2. /\ stages \in Views /\ SameFold(led[j], stages[1])
      /\ \A i \in DOMAIN stages : SameFold(led[j], stages[i]) \/ LeaseFold(led[j], stages[i])
  BY <1>0, DispatchFold DEF Typed
<1>3. Lease(j).st = mem[j].st
  BY <1>0, LeaseType DEF Typed
<1>4. UNCHANGED <<worker, execs, gap>>
  BY DEF ScanDispatchFails
<1> HIDE DEF stages, j
<1>5. /\ n \in DOMAIN stages /\ led'[j] = stages[n] /\ ~wOk' /\ (~wOk => n = 1)
      /\ \A k \in Jobs : k # j => led'[k] = led[k]
  BY <1>0, <1>1, <1>2, CommitType DEF Typed
<1>6. /\ mem'[j].st = mem[j].st
      /\ \A k \in Jobs : k # j => mem'[k] = mem[k]
  BY <1>0, <1>1, <1>3 DEF Typed
<1>7. LosesLease(j)
  <2>1. Only(j) /\ SameWork(j)
    BY <1>4, <1>5, <1>6 DEF Only, SameWork
  <2>2. SameFold(led[j], led'[j]) \/ (wOk /\ LeaseFold(led[j], led'[j]))
    BY <1>2, <1>5
  <2> QED BY <1>0, <1>5, <1>6, <2>1, <2>2 DEF LosesLease
<1> QED BY <1>7 DEF JobStep, j

-----------------------------------------------------------------------------
(* An accepted completion ends its job, or is kept with what could be       *)
(* written of its attempt.                                                  *)
LEMMA DrainSettleStep ==
  ASSUME IInv, Evidence, DrainSettle
  PROVE  Arrived.job \in Jobs /\ JobStep(Arrived.job)
<1> USE DEF ledger, memory, quota, posts, bounds, ghosts
<1> DEFINE env == Arrived
           j == env.job
           v == led[j]
           c == Closed(v, ActionTerminal(env.out))
           o == Observed(c, env.out)
           stages == <<v, c, o>>
           settle == [mem EXCEPT ![j] = [@ EXCEPT !.st = env.out, !.pend = NoEnvelope]]
           retain == [mem EXCEPT ![j] = [@ EXCEPT !.pend = env]]
<1>1. env \in Envelope
  BY DEF DrainSettle, Draining, Arrived, IInv, TypeOK
<1>2. j \in Jobs /\ env.out \in TerminalStates /\ env.epoch # 0
  BY <1>1 DEF Envelope, Outcomes
<1>3. /\ mem[j].st # "none" /\ ~Ended(mem[j].st) /\ mem[j].owner # 0
      /\ Typed(j) /\ Sound(j)
  BY <1>2, Types DEF DrainSettle, Acceptable, IInv, Evidence
<1>4. wOk => mem[j].st = "running"
  BY <1>2, <1>3 DEF IInv, LeasedRuns
<1>5. v \in View /\ v.job # "none" /\ Aside(v, v)
  BY <1>3 DEF Typed, Sound, ViewSound, Recorded, Aside, SameFold
<1>6. c \in View /\ Aside(v, c)
  <2>1. ActionTerminal(env.out) \in ActionTerminals
    BY <1>2 DEF ActionTerminal, ActionTerminals, TerminalStates
  <2> HIDE DEF v
  <2> QED BY <1>5, <2>1, LineType, LineFold DEF Aside
<1>7. o \in View /\ EndFold(v, o, env.out) /\ o.started = v.started
  <2> HIDE DEF v, c, env
  <2>1. c.job # "none"
    BY <1>5, <1>6 DEF Aside, SameFold
  <2> QED BY <1>2, <1>6, <2>1, CountType, ObservedFold DEF Aside, SameFold, EndFold
<1>8. UNCHANGED <<worker, execs, gap>>
  BY DEF DrainSettle
<1>9. ASSUME mem' = retain
      PROVE  /\ \A k \in Jobs : k # j => mem'[k] = mem[k]
             /\ mem'[j].owner = mem[j].owner /\ mem'[j].epoch = mem[j].epoch
             /\ mem'[j].pend # NoEnvelope
             /\ mem'[j].st = mem[j].st
  <2>1. env # NoEnvelope
    BY <1>2, JobsAssumption DEF NoEnvelope, Jobs
  <2> HIDE DEF env
  <2>2. mem'[j].pend = env
    BY <1>2, <1>3, <1>9 DEF Record, Typed
  <2> QED BY <1>2, <1>3, <1>9, <2>1, <2>2 DEF Record, Typed
<1>10. CASE v.term # "none"
  <2>1. mem' = retain /\ UNCHANGED <<led, wOk>>
    BY <1>10 DEF DrainSettle
  <2> HIDE DEF retain
  <2>2. Notes(j)
    BY <1>8, <1>9, <2>1 DEF Notes, Only, SameFold
  <2> QED BY <1>2, <2>2 DEF JobStep
<1>11. CASE v.term = "none"
  <2>1. PICK n \in Reach(stages) :
          /\ Commit(j, stages, n)
          /\ mem' = IF All(stages, n) THEN settle ELSE retain
    BY <1>11 DEF DrainSettle
  <2>2. /\ stages \in Views /\ Len(stages) = 3 /\ DOMAIN stages = 1 .. 3
        /\ stages[1] = v /\ stages[2] = c /\ stages[3] = o
    <3> HIDE DEF v, c, o
    <3>1. stages \in Views
      BY <1>5, <1>6, <1>7, StageSeqs
    <3>2. Len(stages) = 3 /\ DOMAIN stages = 1 .. 3
          /\ stages[1] = v /\ stages[2] = c /\ stages[3] = o
      OBVIOUS
    <3> QED BY <3>1, <3>2
  <2> HIDE DEF v, c, o, stages
  <2>3. /\ n \in DOMAIN stages /\ led'[j] = stages[n] /\ (wOk' => wOk) /\ (~wOk => n = 1)
        /\ \A k \in Jobs : k # j => led'[k] = led[k]
    <3> HIDE DEF j
    <3> QED BY <1>2, <1>3, <2>1, <2>2, CommitType DEF Typed
  <2>4. CASE n = 3
    <3>1. mem' = settle /\ wOk
      BY <2>1, <2>2, <2>3, <2>4 DEF All
    <3>2. /\ \A k \in Jobs : k # j => mem'[k] = mem[k]
          /\ mem'[j].owner = mem[j].owner /\ mem'[j].epoch = mem[j].epoch
          /\ mem'[j].st = env.out
      <4> HIDE DEF env
      <4> QED BY <1>2, <1>3, <3>1 DEF Record, Typed
    <3> HIDE DEF env, settle, retain
    <3>3. Ends(j, env.out)
      BY <1>3, <1>4, <1>7, <1>8, <2>2, <2>3, <2>4, <3>1, <3>2 DEF Ends, Only, SameWork, v
    <3>4. JobStep(j)
      BY <1>2, <3>3 DEF JobStep
    <3> QED BY <1>2, <3>4 DEF env
  <2>5. CASE n # 3
    <3>1. mem' = retain
      BY <2>1, <2>2, <2>5 DEF All
    <3>2. Aside(v, led'[j])
      <4>1. n = 1 \/ n = 2
        BY <2>2, <2>3, <2>5
      <4> QED BY <1>5, <1>6, <2>2, <2>3, <4>1
    <3> HIDE DEF retain
    <3>3. Notes(j)
      BY <1>8, <1>9, <2>3, <3>1, <3>2 DEF Notes, Only, Aside, v
    <3> QED BY <1>2, <3>3 DEF JobStep
  <2> QED BY <2>4, <2>5
<1> QED BY <1>10, <1>11

-----------------------------------------------------------------------------
(* Adoption meets a registered job that has no record and no worker; its    *)
(* record counts the leases of the ledger.                                  *)
LEMMA AdoptingFacts ==
  ASSUME IInv, Evidence, NEW j \in Jobs, Adopting(j)
  PROVE  /\ Typed(j) /\ Sound(j) /\ led[j].reg /\ mem[j].st = "none" /\ worker[j] = 0
         /\ Adopted(j) \in Record /\ Adopted(j).epoch = led[j].disp /\ Adopted(j).st = "queued"
         /\ execs' = execs /\ worker' = worker
         /\ \A k \in Jobs : k # j => gap'[k] = gap[k]
         /\ Disposition(led[j]) # "admission_chain_missing" => gap'[j] = gap[j]
         /\ Disposition(led[j]) = "admission_chain_missing" => gap'[j]
<1>1. j \in Nat /\ ctl.i = j /\ ctl.pc = "adopt"
  BY JobsAssumption DEF Adopting, Jobs
<1>2. mem[j] = Unborn /\ mem[j].st = "none"
  <2>1. j >= ctl.i
    BY <1>1
  <2>2. mem[j] = Unborn
    BY <1>1, <2>1 DEF IInv, AdoptFresh
  <2> QED BY <2>2 DEF Unborn
<1>3. Typed(j) /\ Sound(j)
  BY Types DEF IInv, Evidence
<1>4. worker[j] = 0
  BY <1>2, <1>3, NoWorker DEF Ended, TerminalStates
<1>5. Adopted(j) \in Record
  BY <1>3, AdoptedType DEF Typed
<1>6. Adopted(j).epoch = led[j].disp /\ Adopted(j).st = "queued"
  BY DEF Adopted, Unborn
<1>7. /\ led[j].reg /\ execs' = execs /\ worker' = worker
      /\ gap' = [gap EXCEPT ![j] = gap[j] \/ Disposition(led[j]) = "admission_chain_missing"]
  BY DEF Adopting, posts
<1>8. /\ \A k \in Jobs : k # j => gap'[k] = gap[k]
      /\ gap'[j] = (gap[j] \/ Disposition(led[j]) = "admission_chain_missing")
      /\ gap[j] \in BOOLEAN
  BY <1>3, <1>7 DEF Typed
<1> QED BY <1>2, <1>3, <1>4, <1>5, <1>6, <1>7, <1>8

(* What PlanRecovery's verdicts say of the ledger.                          *)
LEMMA Verdicts ==
  ASSUME NEW v \in View, v.reg, ViewSound(v)
  PROVE  LET d == Disposition(v)
         IN  /\ d = "already_terminal" => Ended(v.job)
             /\ d = "awaiting_approval" => v.disp = 0 /\ ~Ended(v.job)
             /\ d = "requeue" => v.disp = 0 /\ ~Ended(v.job)
             /\ d = "terminal_observation_missing" => v.disp > 0 /\ v.job = "running"
             /\ d = "unknown_hold" => v.disp > 0 /\ v.job = "running"
             /\ d \in {"terminal_observation_missing", "unknown_hold"} => ~Ended(v.job)
<1>1. v.disp \in Nat /\ v.job \in JobStates
  BY DEF View, ViewSound
<1> QED BY <1>1 DEF Disposition, ViewSound, Ended, JobStates, TerminalStates

(* Nothing to write: the job is taken up as the ledger has it.              *)
LEMMA AdoptKnownStep ==
  ASSUME IInv, Evidence, NEW j \in Jobs, AdoptKnown(j)
  PROVE  JobStep(j)
<1> DEFINE d == Disposition(led[j])
           s == CASE d = "unsupported_mode"  -> "unknown"
                 [] d = "already_terminal"  -> led[j].job
                 [] d = "awaiting_approval" -> "awaiting_approval"
                 [] d = "requeue"           -> "queued"
           b == d = "already_terminal" /\ led[j].cancel
<1>1. /\ Adopting(j) /\ led' = led /\ wOk' = wOk
      /\ d \in {"unsupported_mode", "already_terminal", "awaiting_approval", "requeue"}
  BY DEF AdoptKnown, ledger
<1>2. mem' = [mem EXCEPT ![j] = [Adopted(j) EXCEPT !.st = s, !.cancelReq = b]]
  BY DEF AdoptKnown
<1>3. /\ Typed(j) /\ Sound(j) /\ led[j].reg /\ mem[j].st = "none" /\ worker[j] = 0
      /\ Adopted(j) \in Record /\ Adopted(j).epoch = led[j].disp
      /\ execs' = execs /\ worker' = worker
      /\ \A k \in Jobs : k # j => gap'[k] = gap[k]
      /\ d # "admission_chain_missing" => gap'[j] = gap[j]
  BY <1>1, AdoptingFacts
<1>4. /\ d = "already_terminal" => Ended(led[j].job)
      /\ d = "awaiting_approval" => led[j].disp = 0 /\ ~Ended(led[j].job)
      /\ d = "requeue" => led[j].disp = 0 /\ ~Ended(led[j].job)
  BY <1>3, Verdicts DEF Typed, Sound
<1> HIDE DEF d
<1>5. /\ s \in TerminalStates => led[j].job = s
      /\ ~Ended(s) => led[j].disp = 0 /\ ~Ended(led[j].job)
      /\ s \notin {"none", "running"}
  BY <1>1, <1>4 DEF Ended, TerminalStates
<1> HIDE DEF s, b
<1>6. /\ mem'[j].st = s /\ mem'[j].epoch = led[j].disp
      /\ \A k \in Jobs : k # j => mem'[k] = mem[k]
  BY <1>2, <1>3 DEF Typed, Record
<1>7. j \in Waiting' => ~Ended(s)
  BY <1>6 DEF Waiting, Ended, TerminalStates
<1>8. TakesUp(j)
  BY <1>1, <1>3, <1>5, <1>6, <1>7 DEF TakesUp, Only, SameWork
<1> QED BY <1>8 DEF JobStep

(* What was left open is concluded, unless the append fails.                *)
LEMMA AdoptObservedStep ==
  ASSUME IInv, Evidence, NEW j \in Jobs, AdoptObserved(j)
  PROVE  JobStep(j)
<1> DEFINE d == Disposition(led[j])
           v == led[j]
           s == IF d = "unknown_hold" THEN "unknown" ELSE "succeeded"
           o == Observed(v, s)
           stages == <<v, o>>
<1>1. Adopting(j) /\ d \in {"terminal_observation_missing", "unknown_hold"}
  BY DEF AdoptObserved
<1>2. PICK n \in Reach(stages) :
        /\ Commit(j, stages, n)
        /\ mem' = [mem EXCEPT ![j] =
                     [Adopted(j) EXCEPT !.st = IF All(stages, n) THEN s ELSE "queued"]]
  BY DEF AdoptObserved
<1>3. /\ Typed(j) /\ Sound(j) /\ led[j].reg /\ mem[j].st = "none" /\ worker[j] = 0
      /\ Adopted(j) \in Record /\ Adopted(j).epoch = led[j].disp
      /\ execs' = execs /\ worker' = worker
      /\ \A k \in Jobs : k # j => gap'[k] = gap[k]
      /\ d # "admission_chain_missing" => gap'[j] = gap[j]
  BY <1>1, AdoptingFacts
<1>4. v \in View /\ v.disp > 0 /\ v.job = "running" /\ ~Ended(v.job)
  BY <1>1, <1>3, Verdicts DEF Typed, Sound
<1>5. s \in {"succeeded", "unknown"}
  OBVIOUS
<1> HIDE DEF d, s, v
<1>6. /\ o \in View /\ o.reg = v.reg /\ o.disp = v.disp /\ o.job = s
      /\ \/ s = "succeeded" /\ o.obs = v.obs + 1
         \/ s = "unknown" /\ o.obs = v.obs
  <2>1. CASE s = "succeeded"
    <3>1. s \in TerminalStates /\ v.job # "none" /\ v.job \notin TerminalStates
      BY <1>4, <2>1 DEF TerminalStates
    <3> QED BY <1>4, <2>1, <3>1, CountType, ObservedFold
  <2>2. CASE s = "unknown"
    <3>1. JobStateRank(v.job) = 3 /\ JobStateRank(s) = 3 /\ s \notin TerminalStates
      BY <1>4, <2>2 DEF JobStateRank, TerminalStates
    <3>2. /\ Observed(v, s).reg = v.reg /\ Observed(v, s).disp = v.disp
          /\ Observed(v, s).obs = v.obs /\ Observed(v, s).job = s
      BY <1>4, <3>1 DEF Observed, View
    <3> QED BY <1>4, <2>2, <3>2, CountType
  <2> QED BY <1>5, <2>1, <2>2
<1>7. stages \in Views /\ Len(stages) = 2 /\ DOMAIN stages = 1 .. 2
      /\ stages[1] = v /\ stages[2] = o
  <2> HIDE DEF o
  <2>1. stages \in Views
    BY <1>4, <1>6, StageSeqs
  <2>2. Len(stages) = 2 /\ DOMAIN stages = 1 .. 2 /\ stages[1] = v /\ stages[2] = o
    OBVIOUS
  <2> QED BY <2>1, <2>2
<1> HIDE DEF o, stages
<1>8. /\ n \in DOMAIN stages /\ led'[j] = stages[n] /\ (wOk' => wOk)
      /\ (n # Len(stages) => ~wOk')
      /\ \A k \in Jobs : k # j => led'[k] = led[k]
  <2>1. led \in [Jobs -> View] /\ wOk \in BOOLEAN /\ Commit(j, stages, n)
    BY <1>2, <1>3 DEF Typed
  <2> QED BY <1>7, <2>1, CommitType
<1>9. /\ \A k \in Jobs : k # j => mem'[k] = mem[k]
      /\ mem'[j].epoch = v.disp /\ mem'[j].st = IF n = 2 THEN s ELSE "queued"
  <2> DEFINE t == IF All(stages, n) THEN s ELSE "queued"
  <2>1. t = IF n = 2 THEN s ELSE "queued"
    BY <1>7 DEF All
  <2>2. mem' = [mem EXCEPT ![j] = [Adopted(j) EXCEPT !.st = t]]
    BY <1>2
  <2> HIDE DEF t
  <2>3. /\ \A k \in Jobs : k # j => mem'[k] = mem[k]
        /\ mem'[j].epoch = Adopted(j).epoch /\ mem'[j].st = t
    BY <1>3, <2>2 DEF Typed, Record
  <2> QED BY <1>3, <2>1, <2>3 DEF v
<1>10. Only(j) /\ SameWork(j)
  BY <1>1, <1>3, <1>8, <1>9 DEF Only, SameWork
<1>11. CASE n = 2
  <2>1. Concludes(j, s)
    BY <1>3, <1>4, <1>6, <1>7, <1>8, <1>9, <1>10, <1>11 DEF Concludes, v
  <2> QED BY <1>5, <2>1 DEF JobStep
<1>12. CASE n # 2
  <2>1. led'[j] = v /\ ~wOk'
    BY <1>7, <1>8, <1>12
  <2>2. TakesUp(j)
    BY <1>3, <1>4, <1>9, <1>10, <1>12, <2>1 DEF TakesUp, TerminalStates, v
  <2> QED BY <2>2 DEF JobStep
<1> QED BY <1>11, <1>12

(* The chain that adoption completes writes nothing folded either.          *)
LEMMA AdoptChainFold ==
  ASSUME led \in [Jobs -> View], NEW j \in Jobs, NEW store \in BOOLEAN,
         NEW n \in DOMAIN AdoptChain(j, store)
  PROVE  SameFold(led[j], AdoptChain(j, store)[n])
<1> DEFINE v == led[j]
           chain == AdmissionChain(v, store, FALSE)
           Folds(s) == s \in Seq(View) /\ \A i \in DOMAIN s : SameFold(v, s[i])
<1>1. v \in View /\ SameFold(v, v)
  BY LineFold
<1>2. Folds(chain) /\ Folds(Tail(chain)) /\ Folds(Tail(Tail(chain)))
  <2>1. /\ chain \in Seq(View) /\ Tail(chain) \in Seq(View)
        /\ Tail(Tail(chain)) \in Seq(View)
    BY <1>1, ChainSeq
  <2>2. chain # <<>> /\ Tail(chain) # <<>>
    BY <1>1, ChainLength
  <2>3. Folds(chain)
    BY <1>1, <2>1, ChainFold
  <2> HIDE DEF chain
  <2>4. ASSUME NEW s \in Seq(View), s # <<>>, Folds(s) PROVE Folds(Tail(s))
    BY <2>4, HeadTailProperties
  <2> QED BY <2>1, <2>2, <2>3, <2>4
<1>3. AdoptChain(j, store) \in
        {<<v>>, <<v>> \o chain, <<v>> \o Tail(chain), <<v>> \o Tail(Tail(chain))}
  <2> HIDE DEF chain
  <2> QED BY Zenon DEF AdoptChain, chain
<1>4. ASSUME NEW s, Folds(s)
      PROVE  \A i \in DOMAIN (<<v>> \o s) : SameFold(v, (<<v>> \o s)[i])
  <2>1. <<v>> \in Seq(View) /\ Len(<<v>>) = 1 /\ <<v>>[1] = v
    BY <1>1
  <2>2. /\ Len(<<v>> \o s) = 1 + Len(s) /\ Len(s) \in Nat
        /\ DOMAIN (<<v>> \o s) = 1 .. (1 + Len(s)) /\ DOMAIN s = 1 .. Len(s)
        /\ \A i \in 1 .. (1 + Len(s)) :
             (<<v>> \o s)[i] = IF i <= 1 THEN <<v>>[i] ELSE s[i - 1]
    BY <1>4, <2>1, ConcatProperties
  <2>3. ASSUME NEW i \in DOMAIN (<<v>> \o s) PROVE SameFold(v, (<<v>> \o s)[i])
    <3>1. i = 1 \/ (i > 1 /\ i - 1 \in DOMAIN s)
      BY <2>2
    <3> HIDE DEF v
    <3> QED BY <1>1, <1>4, <2>1, <2>2, <3>1
  <2> QED BY <2>3
<1>5. \A i \in DOMAIN <<v>> : SameFold(v, <<v>>[i])
  <2> HIDE DEF v
  <2>1. DOMAIN <<v>> = {1} /\ <<v>>[1] = v
    OBVIOUS
  <2> QED BY <1>1, <2>1
<1> HIDE DEF v, chain, Folds
<1> QED BY <1>2, <1>3, <1>4, <1>5 DEF v

(* The admission is completed as far as it goes, and the job admitted anew. *)
LEMMA AdoptUnadmittedStep ==
  ASSUME IInv, Evidence, NEW j \in Jobs, NEW store \in BOOLEAN, AdoptUnadmitted(j, store)
  PROVE  JobStep(j)
<1> DEFINE stages == AdoptChain(j, store)
<1>1. Adopting(j) /\ Disposition(led[j]) = "admission_chain_missing"
  BY DEF AdoptUnadmitted
<1>2. PICK n \in Reach(stages) : \E f, c :
        /\ Commit(j, stages, n)
        /\ mem' = [mem EXCEPT ![j] = [Adopted(j) EXCEPT !.admF = f, !.admC = c]]
  <2> DEFINE base == Adopted(j)
             f(n) == base.admC \/ (store /\ stages[n].sel)
             c(n) == base.admC \/ (store /\ All(stages, n))
  <2>1. PICK n \in Reach(stages) :
          /\ Commit(j, stages, n)
          /\ mem' = [mem EXCEPT ![j] = [base EXCEPT !.admF = f(n), !.admC = c(n)]]
    BY DEF AdoptUnadmitted
  <2> HIDE DEF f, c
  <2> QED BY <2>1
<1>3. /\ Typed(j) /\ Sound(j) /\ led[j].reg /\ mem[j].st = "none" /\ worker[j] = 0
      /\ Adopted(j) \in Record /\ Adopted(j).epoch = led[j].disp /\ Adopted(j).st = "queued"
      /\ execs' = execs /\ worker' = worker
      /\ (\A k \in Jobs : k # j => gap'[k] = gap[k]) /\ gap'[j]
  BY <1>1, AdoptingFacts
<1>4. led \in [Jobs -> View] /\ wOk \in BOOLEAN /\ mem \in [Jobs -> Record]
  BY <1>3 DEF Typed
<1>5. stages \in Views /\ \A i \in DOMAIN stages : SameFold(led[j], stages[i])
  BY <1>4, AdoptChainType, AdoptChainFold
<1> HIDE DEF stages
<1>6. /\ n \in DOMAIN stages /\ led'[j] = stages[n] /\ (wOk' => wOk)
      /\ \A k \in Jobs : k # j => led'[k] = led[k]
  <2>1. Commit(j, stages, n)
    BY <1>2
  <2> QED BY <1>4, <1>5, <2>1, CommitType
<1>7. /\ mem'[j].st = "queued" /\ mem'[j].epoch = led[j].disp
      /\ \A k \in Jobs : k # j => mem'[k] = mem[k]
  BY <1>2, <1>3, <1>4 DEF Record
<1>8. Readmits(j)
  BY <1>3, <1>5, <1>6, <1>7 DEF Readmits, Only
<1> QED BY <1>8 DEF JobStep

-----------------------------------------------------------------------------
(* The steps that are about no job.  They leave every job as it is, but for *)
(* flags; or the coordinator is not there, before or after.                 *)
Alike ==
  /\ UNCHANGED <<led, worker, execs, gap>> /\ (wOk' => wOk)
  /\ \A k \in Jobs :
       /\ mem'[k].st = mem[k].st /\ mem'[k].epoch = mem[k].epoch
       /\ mem'[k].owner = mem[k].owner /\ mem'[k].pend = mem[k].pend

Forgotten ==
  /\ UNCHANGED <<led, execs, gap>>
  /\ \A k \in Jobs : mem'[k].st = "none" /\ worker'[k] = 0

(* What is known of a job stays sound in both.                              *)
LEMMA OutsideSound ==
  ASSUME NEW k \in Jobs, Sound(k), Alike \/ Forgotten
  PROVE  Sound(k)'
<1>1. CASE Alike
  <2>1. /\ led'[k] = led[k] /\ worker'[k] = worker[k]
        /\ execs'[k] = execs[k] /\ gap'[k] = gap[k] /\ (wOk' => wOk)
        /\ mem'[k].st = mem[k].st /\ mem'[k].epoch = mem[k].epoch
        /\ mem'[k].owner = mem[k].owner
    BY <1>1 DEF Alike
  <2>2. k \in Waiting' <=> k \in Waiting
    BY <2>1 DEF Waiting
  <2>3. ViewSound(led[k])' /\ WorkerLeased(k)' /\ Recorded(k)' /\ EndsAgree(k)'
    BY <2>1 DEF Sound, ViewSound, WorkerLeased, Recorded, EndsAgree
  <2>4. Once(k)'
    BY <2>1, <2>2 DEF Sound, Once
  <2> QED BY <2>3, <2>4 DEF Sound
<1>2. CASE Forgotten
  <2>1. /\ led'[k] = led[k] /\ worker'[k] = 0 /\ mem'[k].st = "none"
        /\ execs'[k] = execs[k] /\ gap'[k] = gap[k] /\ k \notin Waiting'
    BY <1>2 DEF Forgotten, Waiting
  <2>2. ViewSound(led[k])' /\ WorkerLeased(k)' /\ Recorded(k)' /\ EndsAgree(k)' /\ Once(k)'
    BY <2>1 DEF Sound, ViewSound, WorkerLeased, Recorded, EndsAgree, Once, TerminalStates
  <2> QED BY <2>2 DEF Sound
<1> QED BY <1>1, <1>2

(* The other calls and the handlers' turns that decide nothing.             *)
LEMMA AlikeSteps ==
  ASSUME IInv, Evidence,
         \/ ScanEnd \/ ScanDrop \/ ScanNoRoom \/ PumpBegin
         \/ (\E j \in Jobs : RetryKept(j)) \/ TakeEnvelopes \/ DrainDiscard \/ DrainEnd
         \/ AdoptSkip \/ AdoptEnd \/ Others \/ Close \/ UNCHANGED vars
         \/ \E j \in Jobs, e \in 1..2, out \in Outcomes : ForgeEnvelope(j, e, out)
  PROVE  Alike
<1> USE DEF ledger, memory, quota, posts, bounds, ghosts
<1>1. ASSUME UNCHANGED <<led, wOk, mem, worker, execs, gap>> PROVE Alike
  BY <1>1 DEF Alike
<1>2. CASE Close
  <2>1. /\ mem' = [j \in Jobs |-> IF mem[j].st \in {"running", "queued"}
                                  THEN [mem[j] EXCEPT !.flag = TRUE] ELSE mem[j]]
        /\ UNCHANGED <<led, wOk, worker, execs, gap>>
    BY <1>2 DEF Close
  <2>2. \A k \in Jobs : mem[k] \in Record
    BY DEF IInv, TypeOK
  <2>3. \A k \in Jobs : /\ mem'[k].st = mem[k].st /\ mem'[k].epoch = mem[k].epoch
                        /\ mem'[k].owner = mem[k].owner /\ mem'[k].pend = mem[k].pend
    BY <2>1, <2>2 DEF Record
  <2> QED BY <2>1, <2>3 DEF Alike
<1>3. CASE ScanEnd \/ ScanDrop \/ ScanNoRoom
  BY <1>1, <1>3 DEF ScanEnd, ScanDrop, ScanNoRoom
<1>4. CASE PumpBegin \/ (\E j \in Jobs : RetryKept(j)) \/ TakeEnvelopes \/ DrainDiscard \/ DrainEnd
  BY <1>1, <1>4 DEF PumpBegin, RetryKept, TakeEnvelopes, DrainDiscard, DrainEnd
<1>5. CASE AdoptSkip \/ AdoptEnd \/ Others
  BY <1>1, <1>5 DEF AdoptSkip, AdoptEnd, Others, OtherTakes, OtherGives
<1>6. CASE \E j \in Jobs, e \in 1..2, out \in Outcomes : ForgeEnvelope(j, e, out)
  BY <1>1, <1>6 DEF ForgeEnvelope
<1>7. CASE UNCHANGED vars
  BY <1>1, <1>7 DEF vars
<1> QED BY <1>2, <1>3, <1>4, <1>5, <1>6, <1>7

(* A crash, a destructor that returns and a new coordinator.                *)
LEMMA ForgottenSteps ==
  ASSUME IInv, Evidence, Lifecycle
  PROVE  Forgotten
<1> USE DEF ledger, memory, quota, posts, bounds, ghosts
<1>1. CASE Crash \/ Destroy
  <2>1. Forget /\ UNCHANGED <<led, execs, gap>>
    BY <1>1 DEF Crash, Destroy
  <2>2. \A k \in Jobs : mem'[k] = Unborn /\ worker'[k] = 0
    BY <2>1 DEF Forget
  <2> QED BY <2>1, <2>2 DEF Forgotten, Unborn
<1>2. CASE Restart
  <2>1. /\ \A k \in Jobs : mem[k] = Unborn
        /\ UNCHANGED <<led, mem, worker, execs, gap>>
    BY <1>2 DEF Restart, IInv, DownIsEmpty
  <2>2. ASSUME NEW k \in Jobs PROVE mem[k].st = "none" /\ worker[k] = 0
    <3>1. mem[k].st = "none" /\ Typed(k) /\ Sound(k)
      BY <2>1, Types DEF IInv, Evidence, Unborn
    <3> QED BY <3>1, NoWorker DEF Ended, TerminalStates
  <2> QED BY <2>1, <2>2 DEF Forgotten
<1> QED BY <1>1, <1>2 DEF Lifecycle

(* Every step is about one job, or about none.                              *)
LEMMA StepKinds ==
  ASSUME IInv, Evidence, [Next]_vars
  PROVE  (\E j \in Jobs : JobStep(j)) \/ Alike \/ Forgotten
<1>1. CASE StartDenied
  BY <1>1, NextFacts, StartDeniedStep DEF StartDenied
<1>2. CASE Start
  <2>1. PICK kind \in Kinds, ask \in BOOLEAN, store \in StoreOutcomes :
          StartJob(kind, ask, store)
    BY <1>2 DEF Start
  <2>2. store \in BOOLEAN /\ CanStart
    BY <2>1 DEF StoreOutcomes, StartJob
  <2> QED BY <2>1, <2>2, NextFacts, StartStep
<1>3. ASSUME NEW j \in Jobs,
             \/ CompleteAdmission(j) \/ GrantApproval(j) \/ CancelJob(j)
             \/ FallBackInline(j) \/ Compact(j) \/ DeadlinePassed(j)
             \/ \E ok \in BOOLEAN : WorkerEnds(j, ok)
      PROVE JobStep(j)
  <2>1. Sound(j)
    BY DEF Evidence
  <2> QED BY <1>3, <2>1, CallStep
<1>4. CASE PumpStep
  BY <1>4, DrainSettleStep, AlikeSteps DEF PumpStep
<1>5. CASE ScanStep
  <2>1. CASE ScanEnd \/ ScanDrop \/ ScanNoRoom
    BY <2>1, AlikeSteps
  <2>2. CASE ScanCancelled
    BY <2>2, EntryJob, ScanCancelledStep DEF ScanCancelled
  <2>3. CASE ScanDenied
    BY <2>3, EntryJob, ScanDeniedStep DEF ScanDenied
  <2>4. CASE ScanDispatch
    BY <2>4, EntryJob, ScanDispatchStep DEF ScanDispatch, CanDispatch
  <2>5. CASE ScanDispatchFails
    BY <2>5, EntryJob, ScanDispatchFailsStep DEF ScanDispatchFails, CanDispatch
  <2> QED BY <1>5, <2>1, <2>2, <2>3, <2>4, <2>5 DEF ScanStep
<1>6. CASE AdoptStep
  <2>1. ASSUME NEW j \in Jobs, NEW store \in StoreOutcomes, AdoptUnadmitted(j, store)
        PROVE  JobStep(j)
    <3>1. store \in BOOLEAN
      BY DEF StoreOutcomes
    <3> QED BY <2>1, <3>1, AdoptUnadmittedStep
  <2> QED BY <1>6, <2>1, AdoptKnownStep, AdoptObservedStep, AlikeSteps DEF AdoptStep
<1>7. CASE Lifecycle
  BY <1>7, ForgottenSteps
<1>8. CASE Close \/ Others \/ PumpBegin \/ UNCHANGED vars
           \/ \E j \in Jobs, e \in 1..2, out \in Outcomes : ForgeEnvelope(j, e, out)
  BY <1>8, AlikeSteps
<1>9. CASE Interface
  BY <1>1, <1>2, <1>3, <1>8, <1>9 DEF Interface
<1>10. CASE Work \/ Deadline
  BY <1>3, <1>10 DEF Work, Deadline
<1> QED BY <1>4, <1>5, <1>6, <1>7, <1>8, <1>9, <1>10 DEF Next

-----------------------------------------------------------------------------
(* A job that becomes registered has its record by then: its number is      *)
(* taken.                                                                   *)
LEMMA FreshStays ==
  ASSUME IInv, IInv', Evidence, [Next]_vars, NEW k \in Jobs, k >= next', ~led[k].reg
  PROVE  ~led'[k].reg
<1>1. mem'[k].st = "none"
  BY DEF IInv, Numbered, Unborn
<1>2. CASE Alike \/ Forgotten
  BY <1>2 DEF Alike, Forgotten
<1>3. ASSUME NEW j \in Jobs, JobStep(j) PROVE ~led'[k].reg
  <2>1. CASE Accepts(j)
    <3>1. k # j
      BY <1>1, <2>1 DEF Accepts, Waiting
    <3> QED BY <2>1, <3>1 DEF Accepts, Only
  <2>2. CASE ~Accepts(j)
    <3>1. Only(j) /\ (led'[j].reg => led[j].reg)
      BY <1>3, <2>2 DEF JobStep, Notes, Leases, LosesLease, Ends, TakesUp, Concludes, Readmits,
                        SameFold, LeaseFold, EndFold
    <3> QED BY <3>1 DEF Only
  <2> QED BY <2>1, <2>2
<1> QED BY <1>2, <1>3, StepKinds

(* Steps outside adoption keep a number that can be issued free.            *)
LEMMA IssuedStill ==
  ASSUME IInv, IInv', Evidence, [Next]_vars,
         next' >= next, ctl.pc = "adopt" => ctl' = ctl, up = "down" => up' = "down"
  PROVE  Issued'
<1> SUFFICES ASSUME NEW k \in Jobs, k >= next', up' # "down", ctl'.pc = "adopt" => k < ctl'.i
             PROVE  ~led'[k].reg
  BY DEF Issued
<1>1. k \in Nat /\ next \in Nat /\ next' \in Nat
  BY JobsAssumption DEF IInv, TypeOK, Jobs
<1>2. k >= next
  BY <1>1
<1>3. ~led[k].reg
  BY <1>2 DEF Evidence, Issued
<1> QED BY <1>3, FreshStays

(* Every step keeps them free: adoption passes the registered ones and      *)
(* counts past them.                                                        *)
LEMMA NextIssued ==
  ASSUME IInv, IInv', Evidence, [Next]_vars
  PROVE  Issued'
<1> USE DEF ledger, memory, quota, posts, bounds, ghosts
<1>0. /\ next \in Nat /\ next' \in Nat /\ next >= next /\ next + 1 >= next
      /\ ctl \in Control /\ ctl.i \in Nat
  BY DEF IInv, TypeOK, Control
<1>1. CASE AdoptStep
  <2>1. CASE AdoptSkip
    <3>1. /\ ctl.pc = "adopt" /\ ~led[ctl.i].reg
          /\ ctl' = [ctl EXCEPT !.i = @ + 1] /\ UNCHANGED <<led, up, next>>
      BY <2>1 DEF AdoptSkip
    <3>2. ctl'.i = ctl.i + 1 /\ ctl'.pc = "adopt"
      BY <1>0, <3>1 DEF Control
    <3>3. ASSUME NEW k \in Jobs, k >= next, up # "down", k < ctl.i + 1 PROVE ~led[k].reg
      <4>1. k \in Nat
        BY JobsAssumption DEF Jobs
      <4>2. k = ctl.i \/ k < ctl.i
        BY <1>0, <3>3, <4>1
      <4> QED BY <3>1, <3>3, <4>2 DEF Evidence, Issued
    <3> QED BY <3>1, <3>2, <3>3 DEF Issued
  <2>2. CASE AdoptEnd
    <3>1. ctl.i > MaxJob /\ UNCHANGED <<led, up, next>>
      BY <2>2 DEF AdoptEnd
    <3>2. \A k \in Jobs : k < ctl.i
      BY <1>0, <3>1, JobsAssumption DEF Jobs
    <3> QED BY <3>1, <3>2 DEF Evidence, Issued
  <2>3. ASSUME NEW j \in Jobs, Adopting(j) PROVE Issued'
    <3>1. ctl'.i = j + 1 /\ ctl'.pc = "adopt" /\ j \in Nat
      BY <1>0, <2>3, JobsAssumption DEF Adopting, Control, Jobs
    <3>2. next' >= j + 1
      BY <1>0, <2>3, <3>1 DEF Adopting
    <3>3. ASSUME NEW k \in Jobs, k >= next', k < j + 1 PROVE FALSE
      <4>1. k \in Nat
        BY JobsAssumption DEF Jobs
      <4> QED BY <1>0, <3>1, <3>2, <3>3, <4>1
    <3> QED BY <3>1, <3>3 DEF Issued
  <2> QED BY <1>1, <2>1, <2>2, <2>3 DEF AdoptStep, AdoptKnown, AdoptObserved, AdoptUnadmitted
<1>2. CASE Crash \/ Destroy
  BY <1>2 DEF Crash, Destroy, Forget, Issued
<1>3. CASE Restart
  <2>1. ctl' = [Idle EXCEPT !.pc = "adopt", !.i = 1]
    BY <1>3 DEF Restart
  <2>2. ctl'.pc = "adopt" /\ ctl'.i = 1
    BY <2>1 DEF Idle
  <2>3. \A k \in Jobs : ~(k < 1)
    BY JobsAssumption DEF Jobs
  <2> QED BY <2>2, <2>3 DEF Issued
<1>4. ASSUME next' \in {next, next + 1}, ctl.pc = "adopt" => ctl' = ctl,
             up = "down" => up' = "down"
      PROVE  Issued'
  BY <1>0, <1>4, IssuedStill
<1>5. CASE Interface
  <2>1. CASE StartDenied
    BY <1>4, <2>1 DEF StartDenied
  <2>2. CASE Start
    <3>1. next' = next + 1 /\ ctl.pc # "adopt" /\ up' = up
      BY <2>2 DEF Start, StartJob, CanStart, Calls, Idle
    <3> QED BY <1>4, <3>1
  <2>3. CASE Close
    BY <1>4, <2>3 DEF Close, Calls
  <2>4. ASSUME NEW j \in Jobs,
               \/ CompleteAdmission(j) \/ GrantApproval(j) \/ CancelJob(j)
               \/ FallBackInline(j) \/ Compact(j)
        PROVE Issued'
    <3>1. next' = next /\ up' = up /\ ctl = Idle
      BY <2>4 DEF CompleteAdmission, GrantApproval, CancelJob, FallBackInline, Compact, Calls
    <3> QED BY <1>4, <3>1 DEF Idle
  <2>5. ASSUME NEW j \in Jobs, NEW e \in 1..2, NEW out \in Outcomes, ForgeEnvelope(j, e, out)
        PROVE Issued'
    <3>1. next' = next /\ up' = up /\ ctl = Idle
      BY <2>5 DEF ForgeEnvelope, Calls
    <3> QED BY <1>4, <3>1 DEF Idle
  <2> QED BY <1>5, <2>1, <2>2, <2>3, <2>4, <2>5 DEF Interface
<1>6. CASE Work \/ Others \/ Deadline \/ PumpBegin \/ UNCHANGED vars
  <2>1. next' = next /\ up' = up /\ (ctl' = ctl \/ ctl = Idle)
    BY <1>6 DEF Work, WorkerEnds, Others, OtherTakes, OtherGives, Deadline, DeadlinePassed,
                PumpBegin, vars
  <2> QED BY <1>4, <2>1 DEF Idle
<1>7. CASE PumpStep
  <2>1. next' = next /\ up' = up /\ ctl.pc \in {"pump", "drain"}
    BY <1>7 DEF PumpStep, RetryKept, TakeEnvelopes, DrainDiscard, DrainSettle, DrainEnd, Draining
  <2> QED BY <1>4, <2>1
<1>8. CASE ScanStep
  <2>1. next' = next /\ up' = up /\ ctl.pc = "scan"
    BY <1>8 DEF ScanStep, ScanEnd, ScanDrop, ScanCancelled, ScanDenied, ScanNoRoom, ScanDispatch,
                ScanDispatchFails, CanDispatch, AtEntry, Scanning
  <2> QED BY <1>4, <2>1
<1> QED BY <1>1, <1>2, <1>3, <1>5, <1>6, <1>7, <1>8 DEF Next, Lifecycle

-----------------------------------------------------------------------------
(* The envelopes under a lease of a job that a mailbox holds.               *)
Under(seq, k, n) == \E i \in DOMAIN seq : seq[i].job = k /\ seq[i].epoch = n

(* What posting, taking and dropping do to them.                            *)
LEMMA UnderSeqs ==
  ASSUME NEW seq \in Seq(Envelope), NEW env \in Envelope, NEW k, NEW n
  PROVE  /\ Under(seq, k, n) => Under(Append(seq, env), k, n)
         /\ Under(Append(seq, env), env.job, env.epoch)
         /\ ~Under(<<>>, k, n)
         /\ seq # <<>> /\ Under(seq, k, n) =>
              Under(Tail(seq), k, n) \/ (Head(seq).job = k /\ Head(seq).epoch = n)
<1>1. /\ DOMAIN Append(seq, env) = 1 .. (Len(seq) + 1)
      /\ \A i \in 1 .. Len(seq) : Append(seq, env)[i] = seq[i]
      /\ Append(seq, env)[Len(seq) + 1] = env
      /\ DOMAIN seq = 1 .. Len(seq) /\ Len(seq) \in Nat
  BY AppendProperties
<1>2. Under(seq, k, n) => Under(Append(seq, env), k, n)
  BY <1>1 DEF Under
<1>3. Under(Append(seq, env), env.job, env.epoch)
  <2>1. Len(seq) + 1 \in DOMAIN Append(seq, env)
    BY <1>1
  <2> QED BY <1>1, <2>1 DEF Under
<1>4. ~Under(<<>>, k, n)
  BY DEF Under
<1>5. ASSUME seq # <<>>, Under(seq, k, n), ~(Head(seq).job = k /\ Head(seq).epoch = n)
      PROVE  Under(Tail(seq), k, n)
  <2>1. PICK i \in DOMAIN seq : seq[i].job = k /\ seq[i].epoch = n
    BY <1>5 DEF Under
  <2>2. /\ Head(seq) = seq[1] /\ DOMAIN Tail(seq) = 1 .. (Len(seq) - 1)
        /\ \A m \in 1 .. (Len(seq) - 1) : Tail(seq)[m] = seq[m + 1]
    BY <1>1, <1>5, HeadTailProperties
  <2>3. i # 1
    BY <1>5, <2>1, <2>2
  <2>4. i - 1 \in 1 .. (Len(seq) - 1) /\ (i - 1) + 1 = i
    BY <1>1, <2>1, <2>3
  <2>5. Tail(seq)[i - 1] = seq[i]
    BY <2>2, <2>4
  <2> QED BY <2>1, <2>2, <2>4, <2>5 DEF Under
<1> QED BY <1>2, <1>3, <1>4, <1>5

(* A running job without a worker ran before, under the same lease, and     *)
(* what was kept of it still is.                                            *)
LEMMA Carried ==
  ASSUME IInv, Evidence, [Next]_vars, NEW k \in Jobs, mem'[k].st = "running", worker'[k] = 0
  PROVE  /\ mem[k].st = "running" /\ mem'[k].owner = mem[k].owner
         /\ mem[k].pend # NoEnvelope => mem'[k].pend # NoEnvelope
<1>1. CASE Alike
  BY <1>1 DEF Alike
<1>2. ~Forgotten
  BY DEF Forgotten
<1>3. ASSUME NEW j \in Jobs, JobStep(j)
      PROVE  /\ mem[k].st = "running" /\ mem'[k].owner = mem[k].owner
             /\ mem[k].pend # NoEnvelope => mem'[k].pend # NoEnvelope
  <2>1. CASE k # j
    <3>1. Only(j)
      BY <1>3 DEF JobStep, Notes, Accepts, Leases, LosesLease, Ends, TakesUp, Concludes, Readmits
    <3> QED BY <2>1, <3>1 DEF Only
  <2>2. CASE k = j
    <3>1. ~Leases(j)
      <4>1. mem[j].epoch \in Nat
        BY DEF IInv, TypeOK, Record
      <4>2. mem[j].epoch + 1 # 0
        BY <4>1
      <4> QED BY <2>2, <4>2 DEF Leases
    <3>2. ~Accepts(j) /\ ~LosesLease(j)
      BY <2>2 DEF Accepts, LosesLease, Waiting
    <3>3. /\ \A s \in TerminalStates : ~Ends(j, s)
          /\ ~TakesUp(j) /\ ~Readmits(j) /\ \A s \in {"succeeded", "unknown"} : ~Concludes(j, s)
      BY <2>2 DEF Ends, TakesUp, Readmits, Concludes, TerminalStates
    <3>4. Notes(j)
      BY <1>3, <3>1, <3>2, <3>3 DEF JobStep
    <3> QED BY <2>2, <3>4 DEF Notes
  <2> QED BY <2>1, <2>2
<1> QED BY <1>1, <1>2, <1>3, StepKinds

(* So a step loses no completion when a worker that ends posts one, and     *)
(* what leaves a mailbox is kept, or its job is not running any more.       *)
LEMMA PostsKept ==
  ASSUME IInv, Evidence, [Next]_vars,
         ASSUME NEW k \in Jobs, worker[k] # 0, worker'[k] = 0
         PROVE  Under(envelopes', k, worker[k]),
         ASSUME NEW k \in Jobs, mem'[k].st = "running",
                Under(envelopes, k, mem[k].owner) \/ Under(incoming, k, mem[k].owner)
         PROVE  \/ Under(envelopes', k, mem[k].owner) \/ Under(incoming', k, mem[k].owner)
                \/ mem'[k].pend # NoEnvelope
  PROVE  NoLostCompletion'
<1> SUFFICES ASSUME NEW k \in Jobs, mem'[k].st = "running", worker'[k] = 0
             PROVE  \/ Under(envelopes', k, mem'[k].owner) \/ Under(incoming', k, mem'[k].owner)
                    \/ mem'[k].pend # NoEnvelope
  BY DEF NoLostCompletion, Running, Under
<1>1. /\ mem[k].st = "running" /\ mem'[k].owner = mem[k].owner
      /\ mem[k].pend # NoEnvelope => mem'[k].pend # NoEnvelope
  BY Carried
<1>2. worker[k] # 0 => worker[k] = mem[k].owner
  BY DEF Evidence, Sound, WorkerLeased
<1>3. \/ worker[k] # 0 \/ mem[k].pend # NoEnvelope
      \/ Under(envelopes, k, mem[k].owner) \/ Under(incoming, k, mem[k].owner)
  BY <1>1 DEF Evidence, NoLostCompletion, Running, Under
<1> QED BY <1>1, <1>2, <1>3

(* No step loses one.                                                       *)
LEMMA NextPosts ==
  ASSUME IInv, Evidence, [Next]_vars
  PROVE  NoLostCompletion'
<1> USE DEF ledger, memory, quota, posts, bounds, ghosts
<1>0. /\ envelopes \in Seq(Envelope) /\ incoming \in Seq(Envelope)
      /\ worker \in [Jobs -> Nat] /\ mem \in [Jobs -> Record]
  BY DEF IInv, TypeOK
<1>1. ASSUME UNCHANGED <<worker, envelopes, incoming>> PROVE NoLostCompletion'
  BY <1>1, PostsKept
<1>2. ASSUME NEW j \in Jobs, NEW ok \in BOOLEAN, WorkerEnds(j, ok) PROVE NoLostCompletion'
  <2> DEFINE out == IF ok THEN "succeeded" ELSE IF mem[j].flag THEN "cancelled" ELSE "failed"
             env == [job |-> j, epoch |-> worker[j], out |-> out]
  <2>1. /\ worker[j] # 0 /\ envelopes' = Append(envelopes, env)
        /\ worker' = [worker EXCEPT ![j] = 0] /\ incoming' = incoming
    BY <1>2 DEF WorkerEnds
  <2>2. env \in Envelope /\ env.job = j /\ env.epoch = worker[j]
    BY <1>0, <2>1 DEF Envelope, Outcomes, TerminalStates
  <2> HIDE DEF env
  <2>3. ASSUME NEW k \in Jobs, worker[k] # 0, worker'[k] = 0
        PROVE  Under(envelopes', k, worker[k])
    <3>1. k = j
      BY <1>0, <2>1, <2>3
    <3> QED BY <1>0, <2>1, <2>2, <3>1, UnderSeqs
  <2> QED BY <1>0, <2>1, <2>2, <2>3, PostsKept, UnderSeqs
<1>3. CASE TakeEnvelopes
  <2>1. incoming = <<>> /\ incoming' = envelopes /\ worker' = worker
    BY <1>3 DEF TakeEnvelopes
  <2>2. ASSUME NEW k, NEW n PROVE ~Under(incoming, k, n)
    BY <2>1 DEF Under
  <2> QED BY <2>1, <2>2, PostsKept
<1>4. ASSUME NEW j \in Jobs, RetryKept(j) PROVE NoLostCompletion'
  <2>1. incoming = <<>> /\ envelopes' = envelopes /\ worker' = worker
    BY <1>4 DEF RetryKept
  <2>2. ASSUME NEW k, NEW n PROVE ~Under(incoming, k, n)
    BY <2>1 DEF Under
  <2> QED BY <2>1, <2>2, PostsKept
<1>5. ASSUME incoming # <<>>, incoming' = Tail(incoming), envelopes' = envelopes, worker' = worker,
             ASSUME NEW k \in Jobs, mem'[k].st = "running",
                    Arrived.job = k, Arrived.epoch = mem[k].owner
             PROVE  mem'[k].pend # NoEnvelope
      PROVE  NoLostCompletion'
  <2>1. Arrived \in Envelope
    BY <1>0, <1>5 DEF Arrived
  <2>2. ASSUME NEW k \in Jobs, mem'[k].st = "running",
               Under(envelopes, k, mem[k].owner) \/ Under(incoming, k, mem[k].owner)
        PROVE  \/ Under(envelopes', k, mem[k].owner) \/ Under(incoming', k, mem[k].owner)
               \/ mem'[k].pend # NoEnvelope
    <3>1. CASE Under(envelopes, k, mem[k].owner)
      BY <1>5, <3>1
    <3>2. CASE Under(incoming, k, mem[k].owner)
      <4>1. Under(Tail(incoming), k, mem[k].owner)
              \/ (Arrived.job = k /\ Arrived.epoch = mem[k].owner)
        BY <1>0, <1>5, <2>1, <3>2, UnderSeqs DEF Arrived
      <4> QED BY <1>5, <2>2, <4>1
    <3> QED BY <2>2, <3>1, <3>2
  <2> QED BY <1>5, <2>2, PostsKept
<1>6. CASE DrainDiscard
  <2>1. /\ incoming # <<>> /\ ~Acceptable(Arrived)
        /\ incoming' = Tail(incoming) /\ UNCHANGED <<mem, worker, envelopes>>
    BY <1>6 DEF DrainDiscard, Draining
  <2>2. ASSUME NEW k \in Jobs, mem'[k].st = "running",
               Arrived.job = k, Arrived.epoch = mem[k].owner
        PROVE  FALSE
    BY <2>1, <2>2 DEF Acceptable, Ended, TerminalStates
  <2> QED BY <1>5, <2>1, <2>2
<1>7. CASE DrainSettle
  <2> DEFINE env == Arrived
             j == env.job
             settle == [mem EXCEPT ![j] = [@ EXCEPT !.st = env.out, !.pend = NoEnvelope]]
             retain == [mem EXCEPT ![j] = [@ EXCEPT !.pend = env]]
  <2>1. /\ incoming # <<>> /\ incoming' = Tail(incoming) /\ UNCHANGED <<worker, envelopes>>
        /\ mem' = settle \/ mem' = retain
    <3>1. mem' = settle \/ mem' = retain
      <4> HIDE DEF settle, retain
      <4> QED BY <1>7, Zenon DEF DrainSettle, settle, retain
    <3> QED BY <1>7, <3>1 DEF DrainSettle, Draining
  <2>2. env \in Envelope
    BY <1>0, <2>1 DEF Arrived
  <2>3. env.job \in Jobs /\ env.out \in TerminalStates
    BY <2>2 DEF Envelope, Outcomes
  <2>4. env # NoEnvelope
    BY <2>3, JobsAssumption DEF NoEnvelope, Jobs
  <2>5. mem'[j].st # "running" \/ mem'[j].pend = env
    <3> HIDE DEF env
    <3>1. mem[j] \in Record
      BY <1>0, <2>3
    <3>2. CASE mem' = settle
      <4>1. mem'[j].st = env.out
        BY <1>0, <2>3, <3>1, <3>2 DEF Record
      <4> QED BY <2>3, <4>1 DEF TerminalStates
    <3>3. CASE mem' = retain
      BY <1>0, <2>3, <3>1, <3>3 DEF Record
    <3> QED BY <2>1, <3>2, <3>3
  <2> QED BY <1>5, <2>1, <2>4, <2>5
<1>8. ASSUME NEW j \in Jobs, NEW e \in 1..2, NEW out \in Outcomes, ForgeEnvelope(j, e, out)
      PROVE  NoLostCompletion'
  <2> DEFINE env == [job |-> j, epoch |-> e, out |-> out]
  <2>1. envelopes' = Append(envelopes, env) /\ incoming' = incoming /\ worker' = worker
    BY <1>8 DEF ForgeEnvelope
  <2>2. env \in Envelope
    BY DEF Envelope
  <2> HIDE DEF env
  <2> QED BY <1>0, <2>1, <2>2, PostsKept, UnderSeqs
<1>9. CASE ScanDispatch
  <2>1. worker' = [worker EXCEPT ![Here] = Lease(Here).epoch] /\ worker[Here] = 0
        /\ envelopes' = envelopes /\ incoming' = incoming
    BY <1>9, EntryJob DEF ScanDispatch, CanDispatch
  <2>2. \A k \in Jobs : worker[k] # 0 => worker'[k] = worker[k]
    <3> HIDE DEF Here
    <3> QED BY <1>0, <2>1
  <2> QED BY <2>1, <2>2, PostsKept
<1>10. CASE Crash \/ Destroy
  <2>1. \A k \in Jobs : mem'[k].st = "none"
    BY <1>10 DEF Crash, Destroy, Forget, Unborn
  <2> QED BY <2>1 DEF NoLostCompletion, Running
<1>11. CASE Restart \/ Others \/ PumpBegin \/ Deadline \/ UNCHANGED vars
  BY <1>1, <1>11 DEF Restart, Others, OtherTakes, OtherGives, PumpBegin, Deadline, DeadlinePassed,
                     vars
<1>12. CASE PumpStep
  BY <1>1, <1>3, <1>4, <1>6, <1>7, <1>12 DEF PumpStep, DrainEnd
<1>13. CASE ScanStep
  BY <1>1, <1>9, <1>13 DEF ScanStep, ScanEnd, ScanDrop, ScanCancelled, ScanDenied, ScanNoRoom,
                           ScanDispatchFails
<1>14. CASE AdoptStep
  BY <1>1, <1>14 DEF AdoptStep, AdoptSkip, AdoptEnd, AdoptKnown, AdoptObserved, AdoptUnadmitted,
                     Adopting
<1>15. CASE Interface
  <2>1. CASE StartDenied \/ Start \/ Close
    <3>1. UNCHANGED posts
      <4>1. CASE Start
        BY <4>1 DEF Start, StartJob
      <4> QED BY <2>1, <4>1 DEF StartDenied, Close
    <3> QED BY <1>1, <3>1
  <2>2. ASSUME NEW j \in Jobs,
               \/ CompleteAdmission(j) \/ GrantApproval(j) \/ CancelJob(j)
               \/ FallBackInline(j) \/ Compact(j)
        PROVE  NoLostCompletion'
    BY <1>1, <2>2 DEF CompleteAdmission, GrantApproval, CancelJob, FallBackInline, Compact
  <2> QED BY <1>8, <1>15, <2>1, <2>2 DEF Interface
<1>16. CASE Work
  BY <1>2, <1>16 DEF Work
<1> QED BY <1>10, <1>11, <1>12, <1>13, <1>14, <1>15, <1>16 DEF Next, Lifecycle

-----------------------------------------------------------------------------
(* Nothing is registered at the beginning.                                  *)
LEMMA InitEvidence == Init => Evidence
<1> SUFFICES ASSUME Init PROVE Evidence
  OBVIOUS
<1>1. \A k \in Jobs : /\ led[k] = EmptyView /\ mem[k] = Unborn /\ worker[k] = 0
                      /\ execs[k] = 0 /\ gap[k] = FALSE
  BY DEF Init
<1>2. \A k \in Jobs : ViewSound(led[k])
  BY <1>1 DEF ViewSound, EmptyView, TerminalStates
<1>3. \A k \in Jobs : WorkerLeased(k) /\ Recorded(k) /\ EndsAgree(k)
  BY <1>1 DEF WorkerLeased, Recorded, EndsAgree, Unborn, TerminalStates
<1>4. \A k \in Jobs : Once(k)
  BY <1>1 DEF Once, EmptyView, Waiting, Unborn
<1>5. Issued /\ NoLostCompletion
  BY <1>1 DEF Issued, NoLostCompletion, Running, EmptyView, Unborn
<1> QED BY <1>2, <1>3, <1>4, <1>5 DEF Evidence, Sound

(* Every step keeps the evidence.                                           *)
LEMMA NextEvidence == IInv /\ IInv' /\ Evidence /\ [Next]_vars => Evidence'
<1> SUFFICES ASSUME IInv, IInv', Evidence, [Next]_vars PROVE Evidence'
  OBVIOUS
<1>1. TypeOK
  BY DEF IInv
<1>2. ASSUME NEW k \in Jobs PROVE Sound(k)'
  <2>1. Sound(k)
    BY DEF Evidence
  <2>2. ASSUME NEW j \in Jobs, JobStep(j) PROVE Sound(k)'
    <3>1. Only(j)
      BY <2>2 DEF JobStep, Notes, Accepts, Leases, LosesLease, Ends, TakesUp, Concludes, Readmits
    <3> QED BY <1>1, <2>1, <2>2, <3>1, OthersSound, StepSound
  <2> QED BY <2>1, <2>2, OutsideSound, StepKinds
<1>3. Issued' /\ NoLostCompletion'
  BY NextIssued, NextPosts
<1> QED BY <1>2, <1>3 DEF Evidence

(* Memory and ledger tell the same of every job in every reachable state.   *)
THEOREM EvidenceCorrect == Spec => []Evidence
<1>1. Spec => []IInv
  BY Inductive
<1>2. Init => Evidence
  BY InitEvidence
<1>3. IInv /\ IInv' /\ Evidence /\ [Next]_vars => Evidence'
  BY NextEvidence
<1> QED BY <1>1, <1>2, <1>3, PTL DEF Spec

(* The ledger is written first: no worker without its lease on it, no end   *)
(* reported without its observation, wherever an append fails, the process  *)
(* dies or a late envelope arrives.                                         *)
THEOREM LedgerCorrect == Spec => []LedgerFirst
<1>1. Evidence => LedgerFirst
  BY DEF Evidence, Sound, WorkerLeased, EndsAgree, LedgerFirst, LeaseOnLedger, TerminalIsDurable
<1> QED BY <1>1, EvidenceCorrect, PTL

(* A job is executed at most once and ends at most once on the ledger,      *)
(* whatever crashes and restarts, unless a recovery admitted it again.      *)
THEOREM OnceCorrect == Spec => []OnceUnlessGap
<1>1. TypeOK /\ Evidence => OnceUnlessGap
  <2> SUFFICES ASSUME TypeOK, Evidence, NEW j \in Jobs, ~gap[j]
               PROVE  execs[j] <= 1 /\ led[j].obs <= 1
    BY DEF OnceUnlessGap
  <2>1. execs[j] \in Nat /\ led[j].disp \in Nat
    BY DEF TypeOK, View
  <2>2. execs[j] <= led[j].disp /\ led[j].disp <= 1 /\ led[j].obs <= 1
    BY DEF Evidence, Sound, Once
  <2> QED BY <2>1, <2>2
<1> QED BY <1>1, TypeCorrect, EvidenceCorrect, PTL

(* No completion is lost: a running job has its worker, its envelope on the *)
(* way or the completion that is kept, at every step of every handler.      *)
THEOREM CompletionCorrect == Spec => []NoLostCompletion
<1>1. Evidence => NoLostCompletion
  BY DEF Evidence
<1> QED BY <1>1, EvidenceCorrect, PTL

-----------------------------------------------------------------------------
(* Only a dispatch makes a job run.                                         *)
LEMMA NoNewRunning ==
  ASSUME IInv, Evidence, [Next]_vars, execs' = execs
  PROVE  Running' \subseteq Running
<1> SUFFICES ASSUME NEW k \in Jobs, mem'[k].st = "running" PROVE mem[k].st = "running"
  BY DEF Running
<1>1. CASE Alike \/ Forgotten
  BY <1>1 DEF Alike, Forgotten
<1>2. ASSUME NEW j \in Jobs, JobStep(j) PROVE mem[k].st = "running"
  <2>1. CASE k # j
    <3>1. Only(j)
      BY <1>2 DEF JobStep, Notes, Accepts, Leases, LosesLease, Ends, TakesUp, Concludes, Readmits
    <3> QED BY <2>1, <3>1 DEF Only
  <2>2. CASE k = j
    <3>1. ~Leases(j)
      <4>1. execs[j] \in Nat
        BY DEF IInv, TypeOK
      <4>2. execs[j] + 1 # execs[j]
        BY <4>1
      <4> QED BY <4>2 DEF Leases
    <3>2. ~Accepts(j) /\ (LosesLease(j) => mem[k].st = "running")
      BY <2>2 DEF Accepts, LosesLease, Waiting
    <3>3. /\ \A s \in TerminalStates : ~Ends(j, s)
          /\ ~TakesUp(j) /\ ~Readmits(j) /\ \A s \in {"succeeded", "unknown"} : ~Concludes(j, s)
      BY <2>2 DEF Ends, TakesUp, Readmits, Concludes, TerminalStates
    <3>4. Notes(j) => mem[k].st = "running"
      BY <2>2 DEF Notes
    <3> QED BY <1>2, <3>1, <3>2, <3>3, <3>4 DEF JobStep
  <2> QED BY <2>1, <2>2
<1> QED BY <1>1, <1>2, StepKinds

(* Every other step starts no executor and takes no slot over the limit.    *)
LEMMA SlotsElsewhere ==
  ASSUME IInv, [Next]_vars, ~ScanDispatch, GlobalLimit > 0 => gquota <= GlobalLimit
  PROVE  execs' = execs /\ (GlobalLimit > 0 => gquota' <= GlobalLimit)
<1> USE DEF ledger, memory, quota, posts, bounds, ghosts
<1>0. gquota \in Nat /\ GlobalLimit \in Nat
  BY JobsAssumption DEF IInv, TypeOK
<1>1. ASSUME execs' = execs,
             gquota' \in {gquota, 0, QuotaGiven} \/ (QuotaFree /\ gquota' = gquota + 1)
      PROVE  execs' = execs /\ (GlobalLimit > 0 => gquota' <= GlobalLimit)
  BY <1>0, <1>1 DEF QuotaGiven, QuotaFree
<1>2. CASE Lifecycle
  BY <1>1, <1>2 DEF Lifecycle, Crash, Destroy, Restart
<1>3. CASE Others \/ UNCHANGED vars
  BY <1>1, <1>3 DEF Others, OtherTakes, OtherGives, vars
<1>4. CASE Work \/ PumpBegin \/ Deadline
  BY <1>1, <1>4 DEF Work, WorkerEnds, PumpBegin, Deadline, DeadlinePassed
<1>5. CASE PumpStep
  <2>1. CASE DrainSettle
    <3>1. execs' = execs /\ gquota' \in {gquota, QuotaGiven}
      BY <2>1 DEF DrainSettle
    <3> QED BY <1>1, <3>1
  <2> QED BY <1>1, <1>5, <2>1 DEF PumpStep, RetryKept, TakeEnvelopes, DrainDiscard, DrainEnd
<1>6. CASE ScanStep
  BY <1>1, <1>6 DEF ScanStep, ScanEnd, ScanDrop, ScanCancelled, ScanDenied, ScanNoRoom,
                    ScanDispatchFails
<1>7. CASE AdoptStep
  BY <1>1, <1>7 DEF AdoptStep, AdoptSkip, AdoptEnd, AdoptKnown, AdoptObserved, AdoptUnadmitted,
                    Adopting
<1>8. CASE Interface
  <2>1. UNCHANGED <<quota, ghosts>>
    <3>1. CASE StartDenied \/ Close
      BY <3>1 DEF StartDenied, Close
    <3>2. CASE Start
      BY <3>2 DEF Start, StartJob
    <3>3. ASSUME NEW j \in Jobs,
                 \/ CompleteAdmission(j) \/ GrantApproval(j) \/ CancelJob(j)
                 \/ FallBackInline(j) \/ Compact(j)
                 \/ \E e \in 1..2, out \in Outcomes : ForgeEnvelope(j, e, out)
          PROVE UNCHANGED <<quota, ghosts>>
      BY <3>3 DEF CompleteAdmission, GrantApproval, CancelJob, FallBackInline, Compact,
                  ForgeEnvelope
    <3> QED BY <1>8, <3>1, <3>2, <3>3 DEF Interface
  <2> QED BY <1>1, <2>1
<1> QED BY <1>2, <1>3, <1>4, <1>5, <1>6, <1>7, <1>8 DEF Next

(* The limits are kept by every step.                                       *)
LEMMA NextLimits ==
  ASSUME IInv, Evidence, WithinLimits, [Next]_vars
  PROVE  WithinLimits'
<1> DEFINE Same(j) == {k \in Running : ToolOf[k] = ToolOf[j]}
<1>0. /\ IsFiniteSet(Running) /\ Running \subseteq Jobs /\ Cardinality(Running) \in Nat
      /\ gquota \in Nat /\ {GlobalLimit, SessionLimit, ToolLimit} \subseteq Nat
  BY RunningFinite, FS_CardinalityType, JobsAssumption DEF IInv, TypeOK
<1>1. \A j : IsFiniteSet(Same(j)) /\ Cardinality(Same(j)) \in Nat
  <2> TAKE j
  <2>1. Same(j) \in SUBSET Running
    OBVIOUS
  <2> HIDE DEF Same
  <2> QED BY <1>0, <2>1, FS_Subset, FS_CardinalityType
<1>2. CASE ~ScanDispatch
  <2>1. execs' = execs /\ (GlobalLimit > 0 => gquota' <= GlobalLimit)
    BY <1>2, SlotsElsewhere DEF WithinLimits
  <2>2. Running' \subseteq Running
    BY <2>1, NoNewRunning
  <2>3. /\ IsFiniteSet(Running') /\ Cardinality(Running') \in Nat
        /\ Cardinality(Running') <= Cardinality(Running)
    BY <1>0, <2>2, FS_Subset, FS_CardinalityType
  <2>4. ASSUME NEW j \in Running', ToolLimit > 0 PROVE Cardinality(Same(j)') <= ToolLimit
    <3>1. Same(j)' \in SUBSET Same(j)
      BY <2>2
    <3>2. Cardinality(Same(j)) <= ToolLimit
      BY <2>2, <2>4 DEF WithinLimits
    <3> HIDE DEF Same
    <3>3. Cardinality(Same(j)') \in Nat /\ Cardinality(Same(j)') <= Cardinality(Same(j))
      BY <1>1, <3>1, FS_Subset, FS_CardinalityType
    <3> QED BY <1>0, <1>1, <3>2, <3>3
  <2>5. SessionLimit > 0 => Cardinality(Running') <= SessionLimit
    BY <1>0, <2>3 DEF WithinLimits
  <2> QED BY <2>1, <2>4, <2>5 DEF WithinLimits
<1>3. CASE ScanDispatch
  <2> DEFINE h == Here
  <2>1. /\ h \in Jobs /\ mem \in [Jobs -> Record] /\ Room(h) /\ gquota' = QuotaTaken
        /\ \E r : mem' = [mem EXCEPT ![h] = r]
    BY <1>3, EntryJob DEF ScanDispatch, CanDispatch, IInv, TypeOK
  <2>2. Running' \subseteq Running \cup {h}
    BY <2>1 DEF Running
  <2> HIDE DEF h
  <2>3. GlobalLimit > 0 => gquota' <= GlobalLimit
    BY <1>0, <2>1 DEF Room, QuotaFree, QuotaTaken
  <2>4. SessionLimit > 0 => Cardinality(Running') <= SessionLimit
    <3>1. /\ IsFiniteSet(Running \cup {h})
          /\ Cardinality(Running \cup {h}) \in {Cardinality(Running), Cardinality(Running) + 1}
      BY <1>0, FS_AddElement
    <3>2. Cardinality(Running') \in Nat /\ Cardinality(Running') <= Cardinality(Running \cup {h})
      BY <2>2, <3>1, FS_Subset, FS_CardinalityType
    <3>3. SessionLimit > 0 => Cardinality(Running) < SessionLimit
      BY <1>0, <2>1 DEF Room
    <3> QED BY <1>0, <3>1, <3>2, <3>3
  <2>5. ASSUME NEW j \in Running', ToolLimit > 0 PROVE Cardinality(Same(j)') <= ToolLimit
    <3>1. CASE ToolOf[j] = ToolOf[h]
      <4>1. Same(j)' \in SUBSET (Same(h) \cup {h})
        BY <2>2, <3>1
      <4>2. Cardinality(Same(h)) < ToolLimit
        BY <1>0, <2>1, <2>5 DEF Room
      <4> HIDE DEF Same
      <4>3. /\ IsFiniteSet(Same(h) \cup {h})
            /\ Cardinality(Same(h) \cup {h}) \in {Cardinality(Same(h)), Cardinality(Same(h)) + 1}
        BY <1>1, FS_AddElement
      <4>4. /\ Cardinality(Same(j)') \in Nat
            /\ Cardinality(Same(j)') <= Cardinality(Same(h) \cup {h})
        BY <4>1, <4>3, FS_Subset, FS_CardinalityType
      <4> QED BY <1>0, <1>1, <4>2, <4>3, <4>4
    <3>2. CASE ToolOf[j] # ToolOf[h]
      <4>1. Same(j)' \in SUBSET Same(j) /\ j \in Running
        BY <2>2, <2>5, <3>2
      <4>2. Cardinality(Same(j)) <= ToolLimit
        BY <2>5, <4>1 DEF WithinLimits
      <4> HIDE DEF Same
      <4>3. Cardinality(Same(j)') \in Nat /\ Cardinality(Same(j)') <= Cardinality(Same(j))
        BY <1>1, <4>1, FS_Subset, FS_CardinalityType
      <4> QED BY <1>0, <1>1, <4>2, <4>3
    <3> QED BY <3>1, <3>2
  <2> QED BY <2>3, <2>4, <2>5 DEF WithinLimits
<1> QED BY <1>2, <1>3

(* No limit is exceeded by any interleaving of dispatches, settlements,     *)
(* crashes and other sessions: the test and the taking of a slot are one    *)
(* step under the mutex.                                                    *)
THEOREM LimitsCorrect == Spec => []WithinLimits
<1>1. Init => WithinLimits
  <2> SUFFICES ASSUME Init PROVE WithinLimits
    OBVIOUS
  <2>1. Running = {} /\ gquota = 0
    BY DEF Init, Running, Unborn
  <2>2. Cardinality(Running) = 0
    BY <2>1, FS_EmptySet
  <2> QED BY <2>1, <2>2, JobsAssumption DEF WithinLimits
<1>2. IInv /\ Evidence /\ WithinLimits /\ [Next]_vars => WithinLimits'
  BY NextLimits
<1> QED BY <1>1, <1>2, Inductive, EvidenceCorrect, PTL DEF Spec

-----------------------------------------------------------------------------
(* The lives the ledger tells.                                              *)
LifeAt == [k \in Jobs |-> LifeOf(led[k])]

(* A step about one job changes the life of no other, and is a change of    *)
(* its own life.                                                            *)
LEMMA LifeFrame ==
  ASSUME TypeOK, TypeOK', NEW j \in Jobs, Only(j)
  PROVE  /\ LifeAt' = [LifeAt EXCEPT ![j] = LifeOf(led'[j])]
         /\ execs' = [execs EXCEPT ![j] = execs'[j]]
         /\ gap' = [gap EXCEPT ![j] = gap'[j]]
         /\ LifeAt[j] = LifeOf(led[j])
<1>1. \A k \in Jobs : k # j => led'[k] = led[k] /\ execs'[k] = execs[k] /\ gap'[k] = gap[k]
  BY DEF Only
<1>2. LifeAt' = [k \in Jobs |-> LifeOf(led'[k])]
  BY DEF LifeAt, LifeOf, Ended
<1>3. /\ execs \in [Jobs -> Nat] /\ execs' \in [Jobs -> Nat]
      /\ gap \in [Jobs -> BOOLEAN] /\ gap' \in [Jobs -> BOOLEAN]
  BY DEF TypeOK
<1>4. LifeAt' = [LifeAt EXCEPT ![j] = LifeOf(led'[j])]
  BY <1>1, <1>2 DEF LifeAt
<1>5. /\ execs' = [execs EXCEPT ![j] = execs'[j]]
      /\ gap' = [gap EXCEPT ![j] = gap'[j]]
  BY <1>1, <1>3
<1>6. LifeAt[j] = LifeOf(led[j])
  BY DEF LifeAt
<1> QED BY <1>4, <1>5, <1>6

(* Each kind of step is one of the life's, or none.                         *)
LEMMA StepLife ==
  ASSUME TypeOK, TypeOK', NEW j \in Jobs, Sound(j), JobStep(j)
  PROVE  [Life!Next]_(Life!vars)
<1>0. /\ led[j] \in View /\ led'[j] \in View /\ execs[j] \in Nat /\ gap[j] \in BOOLEAN
      /\ led[j].disp \in Nat /\ led[j].obs \in Nat
  BY DEF TypeOK, View
<1>1. /\ ViewSound(led[j]) /\ Recorded(j) /\ EndsAgree(j) /\ Once(j)
  BY DEF Sound
<1>2. Only(j)
  BY DEF JobStep, Notes, Accepts, Leases, LosesLease, Ends, TakesUp, Concludes, Readmits
<1>3. /\ LifeAt' = [LifeAt EXCEPT ![j] = LifeOf(led'[j])]
      /\ execs' = [execs EXCEPT ![j] = execs'[j]]
      /\ gap' = [gap EXCEPT ![j] = gap'[j]]
      /\ LifeAt[j] = LifeOf(led[j]) /\ DOMAIN LifeAt = Jobs
      /\ \A k \in Jobs \ {j} : LifeAt'[k] = LifeAt[k] /\ execs'[k] = execs[k]
  <2>1. /\ LifeAt' = [LifeAt EXCEPT ![j] = LifeOf(led'[j])]
        /\ execs' = [execs EXCEPT ![j] = execs'[j]]
        /\ gap' = [gap EXCEPT ![j] = gap'[j]]
        /\ LifeAt[j] = LifeOf(led[j])
    BY <1>2, LifeFrame
  <2>2. DOMAIN LifeAt = Jobs
    BY DEF LifeAt
  <2> QED BY <1>2, <2>1, <2>2 DEF Only
<1>4. ASSUME execs'[j] = execs[j] PROVE execs' = execs
  BY <1>3, <1>4 DEF TypeOK
<1>5. ASSUME gap'[j] = gap[j] PROVE gap' = gap
  BY <1>3, <1>5 DEF TypeOK
<1>6. ASSUME LifeOf(led'[j]) = LifeOf(led[j]) PROVE LifeAt' = LifeAt
  BY <1>3, <1>6 DEF LifeAt
<1>7. ASSUME SameFold(led[j], led'[j]) PROVE LifeAt' = LifeAt
  BY <1>6, <1>7 DEF SameFold, LifeOf
<1>8. ASSUME LifeAt' = LifeAt, execs' = execs, gap' = gap PROVE UNCHANGED Life!vars
  BY <1>8 DEF Life!vars, LifeAt
<1>9. ASSUME gap[j], gap' = gap PROVE Life!Next
  <2>1. Life!Unpromised(j)
    BY <1>3, <1>9 DEF Life!Unpromised, LifeAt
  <2> QED BY <2>1 DEF Life!Next
<1>10. CASE Notes(j)
  BY <1>4, <1>5, <1>7, <1>8, <1>10 DEF Notes
<1>11. CASE TakesUp(j)
  <2>1. SameFold(led[j], led'[j])
    BY <1>11 DEF TakesUp, SameFold
  <2> QED BY <1>4, <1>5, <1>7, <1>8, <1>11, <2>1 DEF TakesUp, SameWork
<1>12. CASE Accepts(j)
  <2>1. LifeOf(led[j]) = "absent" /\ LifeOf(led'[j]) = "accepted"
    BY <1>0, <1>1, <1>12 DEF Accepts, LifeOf, Ended, TerminalStates, ViewSound
  <2>2. execs' = execs /\ gap' = gap
    BY <1>4, <1>5, <1>12 DEF Accepts, SameWork
  <2>3. Life!Accept(j)
    BY <1>3, <2>1, <2>2 DEF Life!Accept, Life!Become, LifeAt
  <2> QED BY <2>3 DEF Life!Next
<1>13. ASSUME ~gap[j], gap' = gap, wOk, j \in Waiting, LeaseFold(led[j], led'[j]),
              execs'[j] \in {execs[j], execs[j] + 1}
       PROVE  Life!Next
  <2>1. mem[j].st # "none" /\ ~Ended(mem[j].st)
    BY <1>13 DEF Waiting, Ended, TerminalStates
  <2>2. led[j].reg /\ ~Ended(led[j].job) /\ led[j].disp = 0 /\ execs[j] = 0
    BY <1>0, <1>1, <1>13, <2>1 DEF Recorded, EndsAgree, Once
  <2>3. ~Ended(led'[j].job) /\ led'[j].reg /\ led'[j].disp = 1
    BY <1>13, <2>2 DEF LeaseFold, Ended, TerminalStates
  <2>4. LifeOf(led[j]) = "accepted" /\ LifeOf(led'[j]) = "leased"
    BY <2>2, <2>3 DEF LifeOf
  <2>5. execs' \in {execs, [execs EXCEPT ![j] = 1]}
    BY <1>3, <1>4, <1>13, <2>2
  <2>6. Life!Lease(j)
    BY <1>3, <1>13, <2>4, <2>5 DEF Life!Lease, Life!Become, LifeAt
  <2> QED BY <2>6 DEF Life!Next
<1>14. CASE Leases(j)
  BY <1>5, <1>9, <1>13, <1>14 DEF Leases
<1>15. CASE LosesLease(j)
  BY <1>4, <1>5, <1>7, <1>8, <1>9, <1>13, <1>15 DEF LosesLease, SameWork
<1>16. ASSUME NEW s \in TerminalStates \cup {"unknown"}, execs' = execs, gap' = gap,
              led[j].reg, led'[j].reg, ~Ended(led[j].job), led'[j].job = s,
              led[j].disp > 0 \/ s \in {"failed", "cancelled"}
       PROVE  Life!Next
  <2>1. LifeOf(led'[j]) = s
    BY <1>16 DEF LifeOf, Ended
  <2>2. LifeOf(led[j]) \in
          {"leased"} \cup (IF s \in {"failed", "cancelled"} THEN {"accepted"} ELSE {})
    BY <1>16 DEF LifeOf
  <2>3. Life!Settle(j, s)
    BY <1>3, <1>16, <2>1, <2>2 DEF Life!Settle, Life!Become, LifeAt
  <2> QED BY <1>16, <2>3 DEF Life!Next
<1>17. ASSUME NEW s \in TerminalStates, Ends(j, s) PROVE Life!Next
  <2>1. execs' = execs /\ gap' = gap
    BY <1>4, <1>5, <1>17 DEF Ends, SameWork
  <2>2. CASE ~gap[j]
    <3>1. led[j].reg /\ ~Ended(led[j].job)
      BY <1>1, <1>17, <2>2 DEF Ends, Recorded, EndsAgree
    <3>2. led'[j].reg /\ led'[j].job = s
      BY <1>17, <3>1 DEF Ends, EndFold, Ended
    <3>3. led[j].disp > 0 \/ s \in {"failed", "cancelled"}
      BY <1>1, <1>17 DEF Ends, Recorded, TerminalStates
    <3> QED BY <1>16, <2>1, <3>1, <3>2, <3>3
  <2> QED BY <1>9, <2>1, <2>2
<1>18. ASSUME NEW s \in {"succeeded", "unknown"}, Concludes(j, s) PROVE Life!Next
  <2>1. execs' = execs /\ gap' = gap
    BY <1>4, <1>5, <1>18 DEF Concludes, SameWork
  <2>2. s \in TerminalStates \cup {"unknown"}
    BY DEF TerminalStates
  <2> QED BY <1>16, <1>18, <2>1, <2>2 DEF Concludes
<1>19. CASE Readmits(j)
  <2>1. LifeAt' = LifeAt /\ execs' = execs
    BY <1>4, <1>7, <1>19 DEF Readmits
  <2>2. gap' = [gap EXCEPT ![j] = TRUE]
    <3>1. gap'[j] = TRUE
      BY <1>19 DEF Readmits, TypeOK
    <3> QED BY <1>3, <3>1
  <2>3. Life!Readmit(j)
    BY <2>1, <2>2 DEF Life!Readmit, LifeAt
  <2> QED BY <2>3 DEF Life!Next
<1> QED BY <1>10, <1>11, <1>12, <1>14, <1>15, <1>17, <1>18, <1>19 DEF JobStep

(* Read from its ledger, every job lives as JobLife says: whatever happens  *)
(* to the coordinator, a job is accepted, leased, executed at most once     *)
(* under its lease and settled for good, unless recovery admits it anew.    *)
THEOREM LifeImplemented == Spec => ImplementsLife
<1>1. Init => Life!Init
  BY DEF Init, Life!Init, LifeOf, EmptyView
<1>2. TypeOK /\ TypeOK' /\ IInv /\ Evidence /\ [Next]_vars => [Life!Next]_(Life!vars)
  <2> SUFFICES ASSUME TypeOK, TypeOK', IInv, Evidence, [Next]_vars
               PROVE  [Life!Next]_(Life!vars)
    OBVIOUS
  <2>1. ASSUME NEW j \in Jobs, JobStep(j) PROVE [Life!Next]_(Life!vars)
    <3>1. Sound(j)
      BY DEF Evidence
    <3> QED BY <2>1, <3>1, StepLife
  <2>2. CASE Alike \/ Forgotten
    <3>1. UNCHANGED <<led, execs, gap>>
      BY <2>2 DEF Alike, Forgotten
    <3> QED BY <3>1 DEF Life!vars, LifeOf, Ended
  <2> QED BY <2>1, <2>2, StepKinds
<1> QED BY <1>1, <1>2, TypeCorrect, Inductive, EvidenceCorrect, PTL
        DEF Spec, Life!Spec, ImplementsLife
=============================================================================
