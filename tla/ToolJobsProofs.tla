---------------------------- MODULE ToolJobsProofs ----------------------------
(***************************************************************************)
(* ToolJobs for any number of jobs, keys, limits and restarts: first the   *)
(* type invariant, what every append, handler step, crash and adoption     *)
(* leaves the ledger, the records, the queue and the posts as; then the    *)
(* invariants that TLC checks on the instances of MCToolJobs, from one     *)
(* inductive invariant: keys, slots, retries, final states.                *)
(***************************************************************************)
EXTENDS ToolJobs, FiniteSetTheorems, SequenceTheorems, TLAPS

-----------------------------------------------------------------------------
(* The ledger's lines keep the shape of a view.                             *)

Views == Seq(View) \ {<<>>}

(* A non-empty sequence: its length, its places and what stands at them.    *)
LEMMA NonEmptySeq ==
  ASSUME NEW S, NEW s \in Seq(S) \ {<<>>}
  PROVE  /\ Len(s) \in Nat \ {0} /\ DOMAIN s = 1 .. Len(s)
         /\ \A n \in DOMAIN s : s[n] \in S
OBVIOUS

(* The lines that only set fields of the view.                              *)
LEMMA LineType ==
  ASSUME NEW v \in View
  PROVE  /\ Started(v) \in View /\ Selected(v) \in View
         /\ Admitted(v) \in View /\ Compacted(v) \in View
         /\ CancelRequested(v) \in View
         /\ \A a \in Nat : Pending(v, a) \in View
         /\ \A t \in ActionTerminals : Closed(v, t) \in View
         /\ \A m \in LedgerModes, ask \in BOOLEAN : Registered(v, m, ask) \in View
<1>1. /\ Started(v) \in View /\ Selected(v) \in View
      /\ Admitted(v) \in View /\ Compacted(v) \in View
      /\ CancelRequested(v) \in View
  BY DEF Started, Selected, Admitted, Compacted, CancelRequested, View
<1>2. ASSUME NEW a \in Nat PROVE Pending(v, a) \in View
  BY DEF Pending, View
<1>3. \A t \in ActionTerminals : Closed(v, t) \in View
  BY DEF Closed, View
<1>4. \A m \in LedgerModes, ask \in BOOLEAN : Registered(v, m, ask) \in View
  BY DEF Registered, View, JobStates
<1> QED BY <1>1, <1>2, <1>3, <1>4

(* The lines that count: the next attempt, a lease, an observation.         *)
LEMMA CountType ==
  ASSUME NEW v \in View
  PROVE  /\ NextAttempt(v) \in View
         /\ Dispatched(v) \in View
         /\ \A s \in TerminalStates \cup {"unknown"} : Observed(v, s) \in View
<1>1. /\ v.att + 1 \in Nat /\ v.disp + 1 \in Nat
      /\ v.obs \in Nat /\ v.obs + 1 \in Nat
      /\ v.job \in JobStates \cup {"none"}
  BY DEF View
<1>2. NextAttempt(v) \in View
  BY <1>1, LineType DEF NextAttempt
<1>3. Dispatched(v) \in View
  <2>1. (IF JobStateRank(v.job) < 3 THEN "running" ELSE v.job) \in JobStates \cup {"none"}
    BY <1>1 DEF JobStates
  <2> QED BY <1>1, <2>1 DEF Dispatched, View
<1>4. ASSUME NEW s \in TerminalStates \cup {"unknown"} PROVE Observed(v, s) \in View
  <2>1. s \in JobStates
    BY DEF JobStates
  <2> QED BY <1>1, <2>1 DEF Observed, View
<1> QED BY <1>2, <1>3, <1>4

(* The admission chain has at least the started and the closed line.        *)
LEMMA ChainType ==
  ASSUME NEW v \in View, NEW store \in BOOLEAN, NEW early \in BOOLEAN
  PROVE  \E c, x, m \in View :
           AdmissionChain(v, store, early) \in
             {<<Started(v), c>>, <<Started(v), c, x>>, <<Started(v), c, x, m>>}
<1> DEFINE s == Started(v)
           c == Closed(s, "done")
           x == Selected(c)
           m == Admitted(x)
<1>1. s \in View BY LineType
<1>2. c \in View BY <1>1, LineType DEF ActionTerminals
<1>3. x \in View BY <1>2, LineType
<1>4. m \in View BY <1>3, LineType
<1>5. AdmissionChain(v, store, early) \in {<<s, c>>, <<s, c, x>>, <<s, c, x, m>>}
  BY DEF AdmissionChain
<1> QED BY <1>2, <1>3, <1>4, <1>5

(* A commit of a prefix of views leaves a ledger of views.                  *)
LEMMA CommitType ==
  ASSUME led \in [Jobs -> View], wOk \in BOOLEAN,
         NEW j \in Jobs, NEW stages \in Views, NEW n \in Reach(stages),
         Commit(j, stages, n)
  PROVE  /\ n \in DOMAIN stages /\ stages[n] \in View
         /\ led' \in [Jobs -> View] /\ wOk' \in BOOLEAN
         /\ n # Len(stages) => ~wOk'
         /\ ~wOk => n = 1 /\ ~wOk'
         /\ \A k \in Jobs : k # j => led'[k] = led[k]
         /\ led'[j] = stages[n]
<1>1. /\ Len(stages) \in Nat \ {0} /\ DOMAIN stages = 1 .. Len(stages)
      /\ \A i \in DOMAIN stages : stages[i] \in View
  BY NonEmptySeq DEF Views
<1>2. n \in DOMAIN stages
  <2>1. n = 1 \/ n \in DOMAIN stages \/ n = Len(stages)
    BY DEF Reach
  <2>2. 1 \in 1 .. Len(stages) /\ Len(stages) \in 1 .. Len(stages)
    BY <1>1
  <2> QED BY <1>1, <2>1, <2>2
<1>3. led' = [led EXCEPT ![j] = stages[n]] /\ wOk' = (wOk /\ n = Len(stages))
  BY DEF Commit
<1>4. ~wOk => n = 1
  BY DEF Reach
<1>5. stages[n] \in View
  BY <1>1, <1>2
<1> QED BY <1>2, <1>3, <1>4, <1>5

(* Sequences of one to four views are stages.                                *)
LEMMA StageSeqs ==
  ASSUME NEW a \in View, NEW b \in View, NEW c \in View, NEW d \in View
  PROVE  /\ <<a>> \in Views /\ <<a, b>> \in Views
         /\ <<a, b, c>> \in Views /\ <<a, b, c, d>> \in Views
BY DEF Views

(* The admission chain, and what is left of it when its first lines are on  *)
(* the ledger already, are sequences of views.                              *)
LEMMA ChainSeq ==
  ASSUME NEW v \in View, NEW store \in BOOLEAN, NEW early \in BOOLEAN
  PROVE  /\ AdmissionChain(v, store, early) \in Seq(View)
         /\ Tail(AdmissionChain(v, store, early)) \in Seq(View)
         /\ Tail(Tail(AdmissionChain(v, store, early))) \in Seq(View)
<1>1. PICK c \in View, x \in View, m \in View :
        AdmissionChain(v, store, early) \in
             {<<Started(v), c>>, <<Started(v), c, x>>, <<Started(v), c, x, m>>}
  BY ChainType
<1>2. Started(v) \in View
  BY LineType
<1> HIDE DEF View
<1>3. CASE AdmissionChain(v, store, early) = <<Started(v), c>>
  BY <1>2, <1>3
<1>4. CASE AdmissionChain(v, store, early) = <<Started(v), c, x>>
  BY <1>2, <1>4
<1>5. CASE AdmissionChain(v, store, early) = <<Started(v), c, x, m>>
  BY <1>2, <1>5
<1> QED BY <1>1, <1>3, <1>4, <1>5

(* How many lines the admission chain has.                                  *)
LEMMA ChainLength ==
  ASSUME NEW v \in View, NEW store \in BOOLEAN, NEW early \in BOOLEAN
  PROVE  /\ AdmissionChain(v, store, early) # <<>>
         /\ Tail(AdmissionChain(v, store, early)) # <<>>
<1>1. PICK c \in View, x \in View, m \in View :
        AdmissionChain(v, store, early) \in
             {<<Started(v), c>>, <<Started(v), c, x>>, <<Started(v), c, x, m>>}
  BY ChainType
<1> DEFINE s == Started(v)
<1> HIDE DEF View, s
<1>2. CASE AdmissionChain(v, store, early) = <<s, c>>
  BY <1>2
<1>3. CASE AdmissionChain(v, store, early) = <<s, c, x>>
  BY <1>3
<1>4. CASE AdmissionChain(v, store, early) = <<s, c, x, m>>
  BY <1>4
<1> QED BY <1>1, <1>2, <1>3, <1>4 DEF s

(* StartJob's appends.                                                      *)
LEMMA StartStagesType ==
  ASSUME led \in [Jobs -> View], NEW j \in Jobs, NEW kind, NEW ask \in BOOLEAN,
         NEW store \in BOOLEAN
  PROVE  /\ StartStages(j, kind, ask, store) \in Views
         /\ Len(StartStages(j, kind, ask, store)) >= 3
<1> DEFINE p == Pending(led[j], 1)
           r == Registered(p, IF kind = "native" THEN "native_deferred"
                                                 ELSE "job_handle", ask)
           early == kind = "early"
           chain == AdmissionChain(r, store, early)
<1>1. led[j] \in View
  OBVIOUS
<1>2. p \in View
  BY <1>1, LineType
<1>3. r \in View
  BY <1>2, LineType DEF LedgerModes
<1>4. <<led[j], p, r>> \in Seq(View) /\ Len(<<led[j], p, r>>) = 3
  BY <1>1, <1>2, <1>3
<1>5. chain \in Seq(View)
  <2> HIDE DEF p, r
  <2>1. AdmissionChain(r, store, TRUE) \in Seq(View)
    BY <1>3, ChainSeq
  <2>2. AdmissionChain(r, store, FALSE) \in Seq(View)
    BY <1>3, ChainSeq
  <2>3. early = TRUE \/ early = FALSE
    OBVIOUS
  <2> QED BY <2>1, <2>2, <2>3
<1>6. <<led[j], p, r>> \o chain \in Seq(View) /\ Len(<<led[j], p, r>> \o chain) >= 3
  <2> HIDE DEF p, r, chain
  <2>1. Len(chain) \in Nat
    BY <1>5
  <2> QED BY <1>4, <1>5, <2>1, ConcatProperties
<1>7. StartStages(j, kind, ask, store) =
        IF kind = "native" THEN <<led[j], p, r>> ELSE <<led[j], p, r>> \o chain
  BY DEF StartStages
<1> QED
  <2> HIDE DEF p, r, chain
  <2> QED BY <1>4, <1>6, <1>7 DEF Views

(* The retained record of a job, its fields one by one.                     *)
LEMMA RecordType ==
  ASSUME NEW r \in Record
  PROVE  /\ \A s \in JobStates : [r EXCEPT !.st = s] \in Record
         /\ \A b \in BOOLEAN : [r EXCEPT !.admC = b] \in Record
         /\ \A b, c \in BOOLEAN, s \in JobStates :
              [r EXCEPT !.cancelReq = b, !.flag = c, !.st = s] \in Record
BY DEF Record

(* A number no job has yet carries a well-formed record.                    *)
LEMMA UnbornType == Unborn \in Record
BY DEF Unborn, Record

(* Adoption's appends: what is missing of the chain.                        *)
LEMMA AdoptChainType ==
  ASSUME led \in [Jobs -> View], NEW j \in Jobs, NEW store \in BOOLEAN
  PROVE  AdoptChain(j, store) \in Views
<1> DEFINE v == led[j]
           chain == AdmissionChain(v, store, FALSE)
<1>1. v \in View
  OBVIOUS
<1>2. /\ chain \in Seq(View) /\ Tail(chain) \in Seq(View)
      /\ Tail(Tail(chain)) \in Seq(View)
  BY <1>1, ChainSeq
<1>3. AdoptChain(j, store) \in
        {<<v>>, <<v>> \o chain, <<v>> \o Tail(chain), <<v>> \o Tail(Tail(chain))}
  <2> HIDE DEF chain
  <2> QED BY Zenon DEF AdoptChain, chain
<1>4. ASSUME NEW s \in Seq(View) PROVE <<v>> \o s \in Views
  <2>1. <<v>> \in Seq(View) /\ Len(<<v>>) = 1
    BY <1>1
  <2>2. <<v>> \o s \in Seq(View) /\ Len(<<v>> \o s) = 1 + Len(s) /\ Len(s) \in Nat
    BY <2>1, ConcatProperties
  <2> QED BY <2>2 DEF Views
<1>5. <<v>> \in Views
  BY <1>1, StageSeqs
<1> HIDE DEF v, chain
<1> QED BY <1>2, <1>3, <1>4, <1>5

(* Handlers that only touch the ledger and one job's record.                *)
LEMMA RemoveType ==
  ASSUME NEW S, NEW s \in Seq(S), NEW i \in 1 .. Len(s)
  PROVE  RemoveAt(s, i) \in Seq(S)
<1>1. SubSeq(s, 1, i - 1) \in Seq(S) /\ SubSeq(s, i + 1, Len(s)) \in Seq(S)
  OBVIOUS
<1> QED BY <1>1, ConcatProperties DEF RemoveAt

(* A coordinator over an empty ledger starts well-typed.                    *)
LEMMA TypeInit == Init => TypeOK
<1> SUFFICES ASSUME Init PROVE TypeOK
  OBVIOUS
<1>1. EmptyView \in View
  BY DEF EmptyView, View
<1>2. Idle \in Control
  BY DEF Idle, Control
<1> QED BY <1>1, <1>2, UnbornType DEF Init, TypeOK

(* A denied start writes well-formed lines only.                            *)
LEMMA StartDeniedType == TypeOK /\ StartDenied => TypeOK'
<1> SUFFICES ASSUME TypeOK, StartDenied PROVE TypeOK'
  OBVIOUS
<1> DEFINE p == Pending(led[next], 1)
           stages == <<led[next], p, Closed(p, "rejected")>>
<1>1. led \in [Jobs -> View] /\ wOk \in BOOLEAN /\ next \in Jobs
  BY DEF TypeOK, StartDenied, CanStart
<1>2. stages \in Views
  <2>1. led[next] \in View
    BY <1>1
  <2>2. p \in View
    BY <2>1, LineType
  <2>3. Closed(p, "rejected") \in View
    BY <2>2, LineType DEF ActionTerminals
  <2> QED BY <2>1, <2>2, <2>3, StageSeqs
<1>3. PICK n \in Reach(stages) : Commit(next, stages, n)
  BY DEF StartDenied
<1> HIDE DEF stages
<1>4. led' \in [Jobs -> View] /\ wOk' \in BOOLEAN
  BY <1>1, <1>2, <1>3, CommitType
<1> QED BY <1>4 DEF TypeOK, StartDenied, memory, quota, posts, bounds, ghosts

(* A start leaves a well-formed record, queue entry and admission lines,    *)
(* whatever prefix of its appends succeeded.                                *)
LEMMA StartJobType ==
  ASSUME TypeOK, NEW kind, NEW ask \in BOOLEAN, NEW store \in BOOLEAN,
         StartJob(kind, ask, store)
  PROVE  TypeOK'
<1> DEFINE j == next
           stages == StartStages(j, kind, ask, store)
<1>1. led \in [Jobs -> View] /\ wOk \in BOOLEAN /\ j \in Jobs
  BY DEF TypeOK, StartJob, CanStart
<1>2. stages \in Views
  BY <1>1, StartStagesType
<1> DEFINE ok(n) == All(stages, n) /\ (kind = "native" \/ store)
           st(n) == IF ~ok(n) THEN "registered"
                    ELSE IF ask THEN "awaiting_approval" ELSE "queued"
<1>3. PICK n \in Reach(stages) :
        /\ Commit(j, stages, n)
        /\ mem' = IF n < 3 THEN mem
                  ELSE [mem EXCEPT ![j] =
                          [Unborn EXCEPT !.st = st(n), !.admC = ok(n) /\ kind = "batch",
                                         !.admF = ok(n) /\ kind # "native"]]
        /\ queue' = IF ok(n) /\ ~ask THEN Append(queue, j) ELSE queue
        /\ ctl' = IF ~ok(n) THEN ctl ELSE IF ask THEN Pump ELSE Scan("pump")
        /\ inl' = IF n >= 3 /\ ~ok(n) THEN [inl EXCEPT ![j] = "pending"] ELSE inl
  BY DEF StartJob
<1> HIDE DEF stages
<1>4. led' \in [Jobs -> View] /\ wOk' \in BOOLEAN
  BY <1>1, <1>2, <1>3, CommitType
<1>5. [Unborn EXCEPT !.st = st(n), !.admC = ok(n) /\ kind = "batch",
                     !.admF = ok(n) /\ kind # "native"] \in Record
  <2>1. st(n) \in JobStates
    BY DEF JobStates
  <2>2. (ok(n) /\ kind = "batch") \in BOOLEAN /\ (ok(n) /\ kind # "native") \in BOOLEAN
    OBVIOUS
  <2> HIDE DEF st, ok
  <2> QED BY <2>1, <2>2, UnbornType DEF Record
<1>6. mem' \in [Jobs -> Record]
  BY <1>1, <1>3, <1>5 DEF TypeOK
<1>7. Pump \in Control /\ Scan("pump") \in Control
  BY DEF Pump, Scan, Control
<1>8. queue' \in Seq(Jobs) /\ ctl' \in Control /\ inl' \in [Jobs -> {"no", "pending", "done"}]
  BY <1>1, <1>3, <1>7 DEF TypeOK
<1>9. next' \in Nat
  BY DEF TypeOK, StartJob
<1> QED BY <1>4, <1>6, <1>8, <1>9 DEF TypeOK, StartJob, quota, posts, bounds, ghosts

(* A cancellation keeps record and ledger well-formed after any prefix of   *)
(* its appends.                                                             *)
LEMMA CancelEffectsType ==
  ASSUME TypeOK, NEW j \in Jobs, CancelEffects(j)
  PROVE  led' \in [Jobs -> View] /\ wOk' \in BOOLEAN /\ mem' \in [Jobs -> Record]
<1> DEFINE v == led[j]
           c == IF mem[j].cancelReq THEN v ELSE CancelRequested(v)
           ask == IF mem[j].cancelReq THEN <<v>> ELSE <<v, c>>
           stages == IF mem[j].dispatched THEN ask
                     ELSE Append(ask, Observed(c, "cancelled"))
<1>1. led \in [Jobs -> View] /\ wOk \in BOOLEAN /\ mem \in [Jobs -> Record]
  BY DEF TypeOK
<1>2. v \in View /\ c \in View
  BY <1>1, LineType
<1>3. Observed(c, "cancelled") \in View
  <2> HIDE DEF c
  <2> QED BY <1>2, CountType DEF TerminalStates
<1>4. stages \in Views
  <2>1. ask \in Views
    <3>1. ask \in {<<v>>, <<v, c>>}
      OBVIOUS
    <3> HIDE DEF v, c, ask
    <3> QED BY <1>2, <3>1, StageSeqs
  <2> HIDE DEF v, c, ask
  <2>2. Append(ask, Observed(c, "cancelled")) \in Views
    BY <1>3, <2>1, AppendProperties DEF Views
  <2> QED BY <2>1, <2>2
<1>5. PICK n \in Reach(stages) :
        /\ Commit(j, stages, n)
        /\ mem' = [mem EXCEPT
             ![j].cancelReq = n >= Len(ask),
             ![j].flag = @ \/ n >= Len(ask),
             ![j].st = IF ~mem[j].dispatched /\ All(stages, n) THEN "cancelled" ELSE @]
  BY DEF CancelEffects
<1>6. mem' \in [Jobs -> Record]
  <2> HIDE DEF stages, ask
  <2>1. mem[j] \in Record
    BY <1>1
  <2>2. /\ mem[j].st \in JobStates \cup {"none"} /\ mem[j].flag \in BOOLEAN
        /\ (n >= Len(ask)) \in BOOLEAN
    BY <2>1 DEF Record
  <2> DEFINE r == [mem[j] EXCEPT !.cancelReq = n >= Len(ask), !.flag = @ \/ n >= Len(ask),
                     !.st = IF ~mem[j].dispatched /\ All(stages, n) THEN "cancelled" ELSE @]
  <2>3. mem' = [mem EXCEPT ![j] = r]
    BY <1>1, <1>5
  <2>4. r \in Record
    <3>1. (mem[j].flag \/ n >= Len(ask)) \in BOOLEAN
      OBVIOUS
    <3>2. "cancelled" \in JobStates
      BY DEF JobStates, TerminalStates
    <3> DEFINE s == IF ~mem[j].dispatched /\ All(stages, n) THEN "cancelled" ELSE mem[j].st
    <3>3. s \in JobStates \cup {"none"}
      BY <2>2, <3>2
    <3> DEFINE b == mem[j].flag \/ n >= Len(ask)
               q == n >= Len(ask)
    <3>4. r = [mem[j] EXCEPT !.cancelReq = q, !.flag = b, !.st = s]
      BY <2>1 DEF Record
    <3> HIDE DEF s, b, q, r
    <3>5. q \in BOOLEAN /\ b \in BOOLEAN
      BY <2>2, <3>1 DEF q, b
    <3> QED BY <2>1, <3>3, <3>4, <3>5 DEF Record
  <2> HIDE DEF r
  <2> QED BY <1>1, <2>3, <2>4
<1> HIDE DEF stages, ask
<1> QED BY <1>1, <1>4, <1>5, <1>6, CommitType

(* So do the other calls on one job, and a deadline.                        *)
LEMMA CallType ==
  ASSUME TypeOK, NEW j \in Jobs,
         \/ CompleteAdmission(j) \/ GrantApproval(j) \/ CancelJob(j)
         \/ FallBackInline(j) \/ Compact(j)
  PROVE  TypeOK'
<1> USE DEF memory, quota, posts, bounds, ghosts
<1>0. led \in [Jobs -> View] /\ wOk \in BOOLEAN /\ mem \in [Jobs -> Record]
  BY DEF TypeOK
<1>1. CASE CompleteAdmission(j)
  <2> DEFINE stages == <<led[j], Admitted(led[j])>>
  <2>1. stages \in Views
    BY <1>0, LineType, StageSeqs
  <2>2. PICK n \in Reach(stages) :
          Commit(j, stages, n) /\ mem' = [mem EXCEPT ![j].admC = All(stages, n)]
    BY <1>1 DEF CompleteAdmission
  <2>3. All(stages, n) \in BOOLEAN
    BY DEF All
  <2> HIDE DEF stages
  <2>4. mem' \in [Jobs -> Record]
    BY <1>0, <2>2, <2>3 DEF Record
  <2>5. led' \in [Jobs -> View] /\ wOk' \in BOOLEAN
    BY <1>0, <2>1, <2>2, CommitType
  <2> QED BY <1>1, <2>4, <2>5 DEF TypeOK, CompleteAdmission
<1>2. CASE GrantApproval(j)
  <2>1. mem' \in [Jobs -> Record]
    BY <1>0, <1>2 DEF GrantApproval, Record, JobStates
  <2>2. queue' \in Seq(Jobs) /\ ctl' \in Control
    BY <1>2 DEF GrantApproval, TypeOK, Scan, Control
  <2> QED BY <1>2, <2>1, <2>2 DEF TypeOK, GrantApproval, ledger
<1>3. CASE CancelJob(j)
  <2>1. CancelEffects(j)
    BY <1>3 DEF CancelJob
  <2> QED BY <1>3, <2>1, CancelEffectsType DEF TypeOK, CancelJob
<1>4. CASE FallBackInline(j)
  <2>1. led' \in [Jobs -> View] /\ wOk' \in BOOLEAN /\ mem' \in [Jobs -> Record]
    BY <1>0, <1>4, CancelEffectsType DEF FallBackInline, ledger
  <2>2. inl' \in [Jobs -> {"no", "pending", "done"}]
    BY <1>4 DEF FallBackInline, TypeOK
  <2> QED BY <1>4, <2>1, <2>2 DEF TypeOK, FallBackInline
<1>5. CASE Compact(j)
  <2>1. led' \in [Jobs -> View]
    BY <1>0, <1>5, LineType DEF Compact
  <2> QED BY <1>5, <2>1 DEF TypeOK, Compact
<1> QED BY <1>1, <1>2, <1>3, <1>4, <1>5

(* The queue scan.                                                          *)
LEMMA HereType ==
  ASSUME TypeOK, ctl.i \in DOMAIN queue
  PROVE  /\ Here \in Jobs /\ RemoveAt(queue, ctl.i) \in Seq(Jobs)
         /\ led \in [Jobs -> View] /\ wOk \in BOOLEAN /\ mem \in [Jobs -> Record]
         /\ led[Here] \in View /\ mem[Here] \in Record
<1>1. queue \in Seq(Jobs) /\ ctl.i \in 1 .. Len(queue)
  BY DEF TypeOK
<1>2. Here \in Jobs
  BY <1>1 DEF Here
<1> QED BY <1>1, <1>2, RemoveType DEF TypeOK

(* Leaving or keeping the entry keeps the queue and the place in it typed.  *)
LEMMA PlaceType ==
  ASSUME TypeOK, ctl.i \in DOMAIN queue, Leave \/ Keep
  PROVE  queue' \in Seq(Jobs) /\ ctl' \in Control
<1>1. CASE Leave
  BY <1>1, HereType DEF Leave, TypeOK
<1>2. CASE Keep
  <2>1. ctl \in Control /\ queue \in Seq(Jobs)
    BY DEF TypeOK
  <2>2. ctl.i + 1 \in Nat
    BY <2>1 DEF Control
  <2>3. ctl' = [ctl EXCEPT !.i = ctl.i + 1] /\ queue' = queue
    BY <1>2, <2>1 DEF Keep, Control
  <2> QED BY <2>1, <2>2, <2>3 DEF Control
<1> QED BY <1>1, <1>2

(* Dispatching: the stages and the lease.                                   *)
LEMMA DispatchStagesType ==
  ASSUME led \in [Jobs -> View], NEW j \in Jobs
  PROVE  DispatchStages(j) \in Views
<1> DEFINE v == led[j]
           p == IF Native(j) THEN v ELSE NextAttempt(v)
           d == Dispatched(p)
<1>1. v \in View
  OBVIOUS
<1>2. p \in View
  BY <1>1, CountType
<1>3. d \in View
  <2> HIDE DEF p
  <2> QED BY <1>2, CountType
<1>4. Started(d) \in View
  <2> HIDE DEF d
  <2> QED BY <1>3, LineType
<1>5. DispatchStages(j) \in {<<v, d, Started(d)>>, <<v, p, d, Started(d)>>}
  BY DEF DispatchStages
<1> HIDE DEF v, p, d
<1> QED BY <1>1, <1>2, <1>3, <1>4, <1>5, StageSeqs

(* A lease counts one up and keeps the record well-formed.                  *)
LEMMA LeaseType ==
  ASSUME mem \in [Jobs -> Record], NEW j \in Jobs
  PROVE  /\ Lease(j) \in Record /\ Lease(j).epoch \in Nat
         /\ Lease(j).epoch = mem[j].epoch + 1 /\ Lease(j).owner = mem[j].epoch + 1
         /\ Lease(j).pend = mem[j].pend /\ Lease(j).st = mem[j].st
<1>1. mem[j] \in Record
  OBVIOUS
<1>2. mem[j].epoch + 1 \in Nat
  BY <1>1 DEF Record
<1> QED BY <1>1, <1>2 DEF Lease, Record

(* Every step of the queue scan (TryDispatchLocked) keeps the types.        *)
LEMMA ScanType == TypeOK /\ ScanStep => TypeOK'
<1> SUFFICES ASSUME TypeOK, ScanStep PROVE TypeOK'
  OBVIOUS
<1> USE DEF ledger, memory, quota, posts, bounds, ghosts
<1>1. CASE ScanEnd
  <2>1. ctl' \in Control
    BY <1>1 DEF ScanEnd, Pump, Idle, Control
  <2> QED BY <1>1, <2>1 DEF TypeOK, ScanEnd
<1>2. CASE ScanDrop
  <2>1. queue' \in Seq(Jobs) /\ ctl' \in Control
    BY <1>2, PlaceType DEF ScanDrop
  <2> QED BY <1>2, <2>1 DEF TypeOK, ScanDrop
<1>3. CASE ScanCancelled
  <2> DEFINE j == Here
             stages == <<led[j], Observed(led[j], "cancelled")>>
  <2>1. ctl.i \in DOMAIN queue
    BY <1>3 DEF ScanCancelled, AtEntry
  <2>2. stages \in Views
    BY <2>1, HereType, CountType, StageSeqs DEF TerminalStates
  <2>3. PICK n \in Reach(stages) :
          /\ Commit(j, stages, n)
          /\ \/ Leave /\ mem' = [mem EXCEPT ![j].st = "cancelled"]
             \/ Keep /\ mem' = mem
    BY <1>3 DEF ScanCancelled
  <2>4. queue' \in Seq(Jobs) /\ ctl' \in Control
    BY <2>1, <2>3, PlaceType
  <2>5. mem' \in [Jobs -> Record]
    BY <2>1, <2>3, HereType DEF Record, JobStates, TerminalStates
  <2> HIDE DEF stages
  <2>6. led' \in [Jobs -> View] /\ wOk' \in BOOLEAN
    BY <2>1, <2>2, <2>3, HereType, CommitType
  <2> QED BY <1>3, <2>4, <2>5, <2>6 DEF TypeOK, ScanCancelled
<1>4. CASE ScanDenied
  <2> DEFINE j == Here
             p == NextAttempt(led[j])
             r == Closed(p, "rejected")
             stages == <<led[j], p, r, Observed(r, "failed")>>
  <2>1. ctl.i \in DOMAIN queue
    BY <1>4 DEF ScanDenied, AtEntry
  <2>2. stages \in Views
    <3>1. led[j] \in View
      BY <2>1, HereType
    <3>2. p \in View
      BY <3>1, CountType
    <3>3. r \in View
      BY <3>2, LineType DEF ActionTerminals
    <3>4. Observed(r, "failed") \in View
      BY <3>3, CountType DEF TerminalStates
    <3> QED BY <3>1, <3>2, <3>3, <3>4, StageSeqs
  <2>3. CASE AttemptOpen(led[j])
    <3>1. Keep /\ UNCHANGED <<ledger, mem>>
      BY <1>4, <2>3 DEF ScanDenied
    <3>2. queue' \in Seq(Jobs) /\ ctl' \in Control
      BY <2>1, <3>1, PlaceType
    <3> QED BY <1>4, <3>1, <3>2 DEF TypeOK, ScanDenied
  <2>4. CASE ~AttemptOpen(led[j])
    <3>1. PICK n \in Reach(stages) :
            /\ Commit(j, stages, n)
            /\ \/ Leave /\ mem' = [mem EXCEPT ![j].st = "failed"]
               \/ Keep /\ mem' = mem
      BY <1>4, <2>4 DEF ScanDenied
    <3>2. queue' \in Seq(Jobs) /\ ctl' \in Control
      BY <2>1, <3>1, PlaceType
    <3>3. mem' \in [Jobs -> Record]
      BY <2>1, <3>1, HereType DEF Record, JobStates, TerminalStates
    <3> HIDE DEF stages
    <3>4. led' \in [Jobs -> View] /\ wOk' \in BOOLEAN
      BY <2>1, <2>2, <3>1, HereType, CommitType
    <3> QED BY <1>4, <3>2, <3>3, <3>4 DEF TypeOK, ScanDenied
  <2> QED BY <2>3, <2>4
<1>5. CASE ScanNoRoom
  <2>1. queue' \in Seq(Jobs) /\ ctl' \in Control
    BY <1>5, PlaceType DEF ScanNoRoom, AtEntry
  <2> QED BY <1>5, <2>1 DEF TypeOK, ScanNoRoom
<1>6. CASE ScanDispatch \/ ScanDispatchFails
  <2> DEFINE j == Here
             stages == DispatchStages(j)
  <2>1. ctl.i \in DOMAIN queue /\ j \in Jobs
    BY <1>6, HereType DEF ScanDispatch, ScanDispatchFails, CanDispatch, AtEntry
  <2>2. stages \in Views
    BY <2>1, HereType, DispatchStagesType
  <2>3. Lease(j) \in Record /\ Lease(j).epoch \in Nat
    BY <2>1, HereType, LeaseType
  <2>4. CASE ScanDispatch
    <3>1. Len(stages) \in Reach(stages) /\ Commit(j, stages, Len(stages))
      BY <2>4 DEF ScanDispatch
    <3> HIDE DEF stages
    <3>2. led' \in [Jobs -> View] /\ wOk' \in BOOLEAN
      BY <2>1, <2>2, <3>1, HereType, CommitType
    <3>3. queue' \in Seq(Jobs) /\ ctl' \in Control
      BY <2>1, <2>4, PlaceType DEF ScanDispatch
    <3>4. mem' \in [Jobs -> Record]
      <4>1. [Lease(j) EXCEPT !.st = "running", !.dispatched = TRUE, !.flag = FALSE] \in Record
        BY <2>3 DEF Record, JobStates
      <4> HIDE DEF j
      <4> QED BY <2>1, <2>4, <4>1, HereType DEF ScanDispatch, j
    <3>5. /\ holder' \in [Keys -> Jobs \cup {0}] /\ worker' \in [Jobs -> Nat]
          /\ execs' \in [Jobs -> Nat]
      <4>1. /\ holder' = [k \in Keys |-> IF k \in KeysOf[j] THEN j ELSE holder[k]]
            /\ worker' = [worker EXCEPT ![j] = Lease(j).epoch]
            /\ execs' = [execs EXCEPT ![j] = @ + 1]
        BY <2>4 DEF ScanDispatch
      <4>2. /\ holder \in [Keys -> Jobs \cup {0}] /\ worker \in [Jobs -> Nat]
            /\ execs \in [Jobs -> Nat]
        BY DEF TypeOK
      <4> HIDE DEF j
      <4>3. holder' \in [Keys -> Jobs \cup {0}]
        BY <2>1, <4>1, <4>2
      <4>4. worker' \in [Jobs -> Nat] /\ execs' \in [Jobs -> Nat]
        BY <2>1, <2>3, <4>1, <4>2
      <4> QED BY <4>3, <4>4
    <3>6. gquota' \in Nat
      BY <2>4 DEF ScanDispatch, TypeOK, QuotaTaken
    <3> QED BY <2>4, <3>2, <3>3, <3>4, <3>5, <3>6 DEF TypeOK, ScanDispatch
  <2>5. CASE ScanDispatchFails
    <3>1. PICK n \in Reach(stages) \ {Len(stages)} :
            /\ Commit(j, stages, n)
            /\ mem' = IF Native(j) \/ n >= 2 THEN [mem EXCEPT ![j] = Lease(j)] ELSE mem
      BY <2>5 DEF ScanDispatchFails
    <3> HIDE DEF stages
    <3>2. led' \in [Jobs -> View] /\ wOk' \in BOOLEAN
      BY <2>1, <2>2, <3>1, HereType, CommitType
    <3>3. queue' \in Seq(Jobs) /\ ctl' \in Control
      BY <2>1, <2>5, PlaceType DEF ScanDispatchFails
    <3>4. mem' \in [Jobs -> Record]
      BY <2>1, <2>3, <3>1, HereType
    <3> QED BY <2>5, <3>2, <3>3, <3>4 DEF TypeOK, ScanDispatchFails
  <2> QED BY <1>6, <2>4, <2>5
<1> QED BY <1>1, <1>2, <1>3, <1>4, <1>5, <1>6 DEF ScanStep

(* A settlement; the job's record ends in one of two ways.                  *)
LEMMA DrainSettleType == TypeOK /\ DrainSettle => TypeOK'
<1> SUFFICES ASSUME TypeOK, DrainSettle PROVE TypeOK'
  OBVIOUS
<1> USE DEF ledger, memory, quota, posts, bounds, ghosts
<1> DEFINE env == Arrived
           j == env.job
           c == Closed(led[j], ActionTerminal(env.out))
           stages == <<led[j], c, Observed(c, env.out)>>
           settle == [mem EXCEPT ![j] = [@ EXCEPT !.st = env.out, !.pend = NoEnvelope]]
           retain == [mem EXCEPT ![j] = [@ EXCEPT !.pend = env]]
<1>0. /\ led \in [Jobs -> View] /\ wOk \in BOOLEAN /\ mem \in [Jobs -> Record]
      /\ incoming \in Seq(Envelope) /\ ctl \in Control /\ gquota \in Nat
  BY DEF TypeOK
<1>1. env \in Envelope /\ Tail(incoming) \in Seq(Envelope)
  BY <1>0 DEF DrainSettle, Draining, Arrived
<1>2. j \in Jobs /\ env.out \in TerminalStates
  BY <1>1 DEF Envelope, Outcomes
<1>3. c \in View
  <2>1. ActionTerminal(env.out) \in ActionTerminals
    BY <1>2 DEF ActionTerminal, ActionTerminals, TerminalStates
  <2> QED BY <1>0, <1>2, <2>1, LineType
<1>4. stages \in Views
  <2>1. Observed(c, env.out) \in View
    <3> HIDE DEF c
    <3> QED BY <1>2, <1>3, CountType
  <2> HIDE DEF c, env
  <2> QED BY <1>0, <1>2, <1>3, <2>1, StageSeqs
<1>5. settle \in [Jobs -> Record] /\ retain \in [Jobs -> Record]
  <2> HIDE DEF env
  <2> QED BY <1>0, <1>1, <1>2 DEF Record, JobStates
<1>6. incoming' = Tail(incoming)
  BY DEF DrainSettle
<1>7. CASE led[j].term # "none"
  <2>1. mem' = retain /\ UNCHANGED <<ledger, holder, gquota, ctl>>
    BY <1>7 DEF DrainSettle
  <2> HIDE DEF retain
  <2> QED BY <1>1, <1>5, <1>6, <2>1 DEF TypeOK, DrainSettle
<1>8. CASE led[j].term = "none"
  <2>1. PICK n \in Reach(stages) :
          /\ Commit(j, stages, n)
          /\ \/ /\ mem' = settle
                /\ holder' = [k \in Keys |->
                     IF k \in KeysOf[j] /\ holder[k] = j THEN 0 ELSE holder[k]]
                /\ gquota' = QuotaGiven
                /\ ctl' = [ctl EXCEPT !.settled = TRUE]
             \/ mem' = retain /\ UNCHANGED <<holder, gquota, ctl>>
    BY <1>8 DEF DrainSettle
  <2> HIDE DEF stages, settle, retain
  <2>2. led' \in [Jobs -> View] /\ wOk' \in BOOLEAN
    BY <1>0, <1>2, <1>4, <2>1, CommitType
  <2>3. mem' \in [Jobs -> Record]
    BY <1>5, <2>1
  <2>4. holder' \in [Keys -> Jobs \cup {0}]
    BY <2>1 DEF TypeOK
  <2>5. ctl' \in Control
    BY <1>0, <2>1 DEF Control
  <2>6. gquota' \in Nat
    BY <1>0, <2>1 DEF QuotaGiven
  <2> QED BY <1>1, <1>6, <2>2, <2>3, <2>4, <2>5, <2>6 DEF TypeOK, DrainSettle
<1> QED BY <1>7, <1>8

(* A worker's end, the pump and an envelope nobody sent.                    *)
LEMMA PostType ==
  ASSUME TypeOK, Work \/ PumpBegin \/ Deadline \/ PumpStep
                   \/ \E j \in Jobs, e \in 1..2, out \in Outcomes : ForgeEnvelope(j, e, out)
  PROVE  TypeOK'
<1> USE DEF ledger, memory, quota, posts, bounds, ghosts
<1>0. /\ led \in [Jobs -> View] /\ wOk \in BOOLEAN /\ mem \in [Jobs -> Record]
      /\ envelopes \in Seq(Envelope) /\ incoming \in Seq(Envelope) /\ ctl \in Control
  BY DEF TypeOK
<1>1. ASSUME NEW j \in Jobs, NEW ok \in BOOLEAN, WorkerEnds(j, ok) PROVE TypeOK'
  <2> DEFINE out == IF ok THEN "succeeded"
                    ELSE IF mem[j].flag THEN "cancelled" ELSE "failed"
  <2>1. out \in Outcomes /\ worker[j] \in Nat \ {0}
    BY <1>1 DEF Outcomes, TerminalStates, TypeOK, WorkerEnds
  <2>2. envelopes' = Append(envelopes, [job |-> j, epoch |-> worker[j], out |-> out])
    BY <1>1 DEF WorkerEnds
  <2> HIDE DEF out
  <2>3. [job |-> j, epoch |-> worker[j], out |-> out] \in Envelope
    BY <2>1 DEF Envelope
  <2>4. envelopes' \in Seq(Envelope)
    BY <1>0, <2>2, <2>3
  <2> QED BY <1>1, <2>4 DEF TypeOK, WorkerEnds
<1>2. CASE PumpBegin
  BY <1>2 DEF PumpBegin, TypeOK, Pump, Control
<1>3. ASSUME NEW j \in Jobs, DeadlinePassed(j) PROVE TypeOK'
  <2> DEFINE stages == <<led[j], CancelRequested(led[j])>>
  <2>1. stages \in Views
    BY <1>0, LineType, StageSeqs
  <2>2. PICK n \in Reach(stages) :
          /\ Commit(j, stages, n)
          /\ \/ mem' = [mem EXCEPT ![j].cancelReq = TRUE, ![j].flag = TRUE]
             \/ mem' = mem
    BY <1>3 DEF DeadlinePassed
  <2> HIDE DEF stages
  <2>3. mem' \in [Jobs -> Record]
    <3>1. [mem[j] EXCEPT !.cancelReq = TRUE, !.flag = TRUE] \in Record
      BY <1>0 DEF Record
    <3>2. mem' = mem \/ mem' = [mem EXCEPT ![j] = [mem[j] EXCEPT !.cancelReq = TRUE, !.flag = TRUE]]
      BY <1>0, <2>2
    <3> QED BY <1>0, <3>1, <3>2
  <2>4. led' \in [Jobs -> View] /\ wOk' \in BOOLEAN
    BY <1>0, <2>1, <2>2, CommitType
  <2> QED BY <1>3, <2>3, <2>4 DEF TypeOK, DeadlinePassed
<1>4. ASSUME NEW j \in Jobs, RetryKept(j) PROVE TypeOK'
  <2>1. mem[j].pend \in Envelope
    BY <1>0, <1>4 DEF RetryKept, Kept, Record
  <2>2. ctl' \in Control
    <3>1. j \in Nat
      BY JobsAssumption DEF Jobs
    <3>2. ctl' = [ctl EXCEPT !.i = j]
      BY <1>4 DEF RetryKept
    <3> QED BY <1>0, <3>1, <3>2 DEF Control
  <2>3. incoming' \in Seq(Envelope)
    BY <1>4, <2>1 DEF RetryKept
  <2> QED BY <1>4, <2>2, <2>3 DEF TypeOK, RetryKept
<1>5. CASE TakeEnvelopes
  <2>1. ctl' \in Control
    BY <1>0, <1>5 DEF TakeEnvelopes, Control
  <2> QED BY <1>5, <2>1 DEF TypeOK, TakeEnvelopes
<1>6. CASE DrainDiscard
  BY <1>6 DEF TypeOK, DrainDiscard, Draining
<1>7. CASE DrainSettle
  BY <1>7, DrainSettleType
<1>8. CASE DrainEnd
  <2>1. ctl' \in Control
    BY <1>8 DEF DrainEnd, Scan, Idle, Control
  <2> QED BY <1>8, <2>1 DEF TypeOK, DrainEnd
<1>9. ASSUME NEW j \in Jobs, NEW e \in 1..2, NEW out \in Outcomes, ForgeEnvelope(j, e, out)
      PROVE TypeOK'
  <2>1. [job |-> j, epoch |-> e, out |-> out] \in Envelope
    BY DEF Envelope
  <2>2. envelopes' \in Seq(Envelope)
    BY <1>0, <1>9, <2>1 DEF ForgeEnvelope
  <2>3. ctl' \in Control /\ forged' \in Nat
    BY <1>9 DEF ForgeEnvelope, TypeOK, Pump, Control
  <2> QED BY <1>9, <2>2, <2>3 DEF TypeOK, ForgeEnvelope
<1> QED BY <1>1, <1>2, <1>3, <1>4, <1>5, <1>6, <1>7, <1>8, <1>9 DEF Work, Deadline, PumpStep

(* There are finitely many running jobs, so their number is a natural       *)
(* number.                                                                  *)
LEMMA RunningFinite == IsFiniteSet(Running) /\ Running \subseteq Jobs
<1>1. IsFiniteSet(Jobs)
  BY JobsAssumption, FS_Interval DEF Jobs
<1> QED BY <1>1, FS_Subset DEF Running

(* Only a job_handle job is ever taken up.                                  *)
LEMMA DispositionMode ==
  ASSUME NEW v, v.mode # "job_handle"
  PROVE  Disposition(v) = "unsupported_mode"
BY DEF Disposition

(* The state adoption gives a job it writes nothing for.                    *)
LEMMA AdoptKnownState ==
  ASSUME led \in [Jobs -> View], NEW j \in Jobs, AdoptKnown(j)
  PROVE  \E s \in JobStates \ {"running"}, b \in BOOLEAN :
           /\ mem' = [mem EXCEPT ![j] = [Adopted(j) EXCEPT !.st = s, !.cancelReq = b]]
           /\ led[j].mode = "native_deferred" => s = "unknown"
<1> DEFINE d == Disposition(led[j])
           s == CASE d = "unsupported_mode"  -> "unknown"
                 [] d = "already_terminal"  -> led[j].job
                 [] d = "awaiting_approval" -> "awaiting_approval"
                 [] d = "requeue"           -> "queued"
           b == d = "already_terminal" /\ led[j].cancel
<1>1. d \in {"unsupported_mode", "already_terminal", "awaiting_approval", "requeue"}
  BY DEF AdoptKnown
<1>2. mem' = [mem EXCEPT ![j] = [Adopted(j) EXCEPT !.st = s, !.cancelReq = b]]
  BY DEF AdoptKnown
<1>3. /\ d = "already_terminal" => led[j].job \in TerminalStates \cup {"unknown"}
      /\ led[j].mode = "native_deferred" => d = "unsupported_mode"
  BY DispositionMode DEF Disposition
<1> HIDE DEF d
<1>4. s \in JobStates \ {"running"}
  BY <1>1, <1>3 DEF JobStates, TerminalStates
<1>5. b \in BOOLEAN
  OBVIOUS
<1>6. led[j].mode = "native_deferred" => s = "unknown"
  BY <1>3
<1> HIDE DEF s, b
<1> QED BY <1>2, <1>4, <1>5, <1>6

(* The end of a coordinator and the adoption by the next one.               *)
LEMMA LifecycleType == TypeOK /\ (Lifecycle \/ Close \/ Others) => TypeOK'
<1> SUFFICES ASSUME TypeOK, Lifecycle \/ Close \/ Others PROVE TypeOK'
  OBVIOUS
<1> USE DEF ledger, memory, quota, posts, bounds, ghosts
<1>1. ASSUME Forget
      PROVE  /\ mem' \in [Jobs -> Record] /\ queue' \in Seq(Jobs)
             /\ holder' \in [Keys -> Jobs \cup {0}] /\ worker' \in [Jobs -> Nat]
             /\ envelopes' \in Seq(Envelope) /\ incoming' \in Seq(Envelope)
             /\ ctl' \in Control /\ up' \in {"open", "closing", "down"}
             /\ inl' \in [Jobs -> {"no", "pending", "done"}]
  <2>1. mem' \in [Jobs -> Record]
    BY <1>1, UnbornType DEF Forget
  <2>2. inl' \in [Jobs -> {"no", "pending", "done"}]
    BY <1>1 DEF Forget, TypeOK
  <2> QED BY <1>1, <2>1, <2>2 DEF Forget, Idle, Control
<1>2. CASE Crash
  BY <1>1, <1>2 DEF TypeOK, Crash
<1>3. CASE Destroy
  <2>1. Cardinality(Running) \in Nat
    BY RunningFinite, FS_CardinalityType
  <2>2. leaked' \in Nat
    BY <1>3, <2>1 DEF TypeOK, Destroy
  <2> QED BY <1>1, <1>3, <2>2 DEF TypeOK, Destroy
<1>4. CASE Restart
  <2>1. ctl' \in Control
    BY <1>4 DEF Restart, Idle, Control
  <2>2. restarts' \in Nat /\ next' \in Nat /\ wOk' \in BOOLEAN
        /\ up' \in {"open", "closing", "down"}
    BY <1>4 DEF Restart, TypeOK
  <2> QED BY <1>4, <2>1, <2>2 DEF TypeOK, Restart
<1>5. CASE Close
  <2>1. mem' \in [Jobs -> Record]
    <3>1. \A j \in Jobs : mem[j] \in Record /\ [mem[j] EXCEPT !.flag = TRUE] \in Record
      BY DEF TypeOK, Record
    <3> QED BY <1>5, <3>1 DEF Close
  <2> QED BY <1>5, <2>1 DEF TypeOK, Close
<1>6. CASE Others
  BY <1>6 DEF TypeOK, Others, OtherTakes, OtherGives, QuotaGiven
<1> QED BY <1>2, <1>3, <1>4, <1>5, <1>6 DEF Lifecycle

(* The record a restart rebuilds from the ledger is well-formed.            *)
LEMMA AdoptedType ==
  ASSUME led \in [Jobs -> View], NEW j \in Jobs
  PROVE  /\ Adopted(j) \in Record
         /\ Adopted(j).owner = 0 /\ Adopted(j).pend = NoEnvelope /\ Adopted(j).st # "running"
<1>1. led[j].disp \in Nat
  BY DEF View
<1>2. led[j].msg \in BOOLEAN
  BY DEF View
<1> DEFINE adm == led[j].msg \/ led[j].att > 1
<1>3. adm \in BOOLEAN
  BY <1>2
<1>4. Adopted(j) = [Unborn EXCEPT !.st = "queued", !.epoch = led[j].disp,
                                  !.admC = adm, !.admF = adm]
  BY DEF Adopted
<1> HIDE DEF adm
<1> QED BY <1>1, <1>3, <1>4, UnbornType DEF Record, JobStates, Unborn

(* Every step of AdoptRecovery keeps the types.                             *)
LEMMA AdoptType == TypeOK /\ AdoptStep => TypeOK'
<1> SUFFICES ASSUME TypeOK, AdoptStep PROVE TypeOK'
  OBVIOUS
<1> USE DEF ledger, memory, quota, posts, bounds, ghosts
<1>0. /\ led \in [Jobs -> View] /\ wOk \in BOOLEAN /\ mem \in [Jobs -> Record]
      /\ ctl \in Control
  BY DEF TypeOK
<1>1. ASSUME NEW j \in Jobs, Adopting(j)
      PROVE  ctl' \in Control /\ next' \in Nat /\ gap' \in [Jobs -> BOOLEAN]
  <2>1. j \in Nat /\ j + 1 \in Nat /\ ctl.i = j
    BY <1>1, JobsAssumption DEF Jobs, Adopting
  <2>2. ctl' \in Control
    BY <1>0, <1>1, <2>1 DEF Adopting, Control
  <2>3. next' \in Nat
    BY <1>1, <2>1 DEF Adopting, TypeOK
  <2>4. gap' \in [Jobs -> BOOLEAN]
    BY <1>1 DEF Adopting, TypeOK
  <2> QED BY <2>2, <2>3, <2>4
<1>2. CASE AdoptSkip
  <2>1. ctl.i + 1 \in Nat
    BY <1>0 DEF Control
  <2>2. ctl' \in Control
    BY <1>0, <1>2, <2>1 DEF AdoptSkip, Control
  <2> QED BY <1>2, <2>2 DEF TypeOK, AdoptSkip
<1>3. CASE AdoptEnd
  BY <1>3 DEF TypeOK, AdoptEnd, Scan, Control
<1>4. ASSUME NEW j \in Jobs, AdoptKnown(j) PROVE TypeOK'
  <2>1. Adopting(j) /\ Adopted(j) \in Record
    BY <1>0, <1>4, AdoptedType DEF AdoptKnown
  <2>2. PICK s \in JobStates, b \in BOOLEAN :
          mem' = [mem EXCEPT ![j] = [Adopted(j) EXCEPT !.st = s, !.cancelReq = b]]
    BY <1>0, <1>4, AdoptKnownState
  <2>3. [Adopted(j) EXCEPT !.st = s, !.cancelReq = b] \in Record
    BY <2>1 DEF Record
  <2>4. mem' \in [Jobs -> Record]
    BY <1>0, <2>2, <2>3
  <2>5. queue' \in Seq(Jobs)
    BY <1>4 DEF AdoptKnown, TypeOK
  <2> QED BY <1>1, <1>4, <2>1, <2>4, <2>5 DEF TypeOK, AdoptKnown, Adopting
<1>5. ASSUME NEW j \in Jobs, AdoptObserved(j) PROVE TypeOK'
  <2> DEFINE s == IF Disposition(led[j]) = "unknown_hold" THEN "unknown" ELSE "succeeded"
             stages == <<led[j], Observed(led[j], s)>>
  <2>1. Adopting(j) /\ Adopted(j) \in Record
    BY <1>0, <1>5, AdoptedType DEF AdoptObserved
  <2>2. s \in TerminalStates \cup {"unknown"}
    BY DEF TerminalStates
  <2>3. stages \in Views
    <3> HIDE DEF s
    <3> QED BY <1>0, <2>2, CountType, StageSeqs
  <2>4. PICK n \in Reach(stages) :
          /\ Commit(j, stages, n)
          /\ mem' = [mem EXCEPT ![j] =
                     [Adopted(j) EXCEPT !.st = IF All(stages, n) THEN s ELSE "queued"]]
    BY <1>5 DEF AdoptObserved
  <2> HIDE DEF stages, s
  <2>5. led' \in [Jobs -> View] /\ wOk' \in BOOLEAN
    BY <1>0, <2>3, <2>4, CommitType
  <2>6. mem' \in [Jobs -> Record]
    <3>1. (IF All(stages, n) THEN s ELSE "queued") \in JobStates
      BY <2>2 DEF JobStates
    <3>2. [Adopted(j) EXCEPT !.st = IF All(stages, n) THEN s ELSE "queued"] \in Record
      BY <2>1, <3>1, RecordType
    <3> QED BY <1>0, <2>4, <3>2
  <2> QED BY <1>1, <1>5, <2>1, <2>5, <2>6 DEF TypeOK, AdoptObserved, Adopting
<1>6. ASSUME NEW j \in Jobs, NEW store \in StoreOutcomes, AdoptUnadmitted(j, store)
      PROVE  TypeOK'
  <2> DEFINE stages == AdoptChain(j, store)
             base == Adopted(j)
  <2>0. store \in BOOLEAN
    BY DEF StoreOutcomes
  <2>1. Adopting(j) /\ base \in Record
    BY <1>0, <1>6, AdoptedType DEF AdoptUnadmitted
  <2>2. stages \in Views
    BY <1>0, <2>0, AdoptChainType
  <2>3. PICK n \in Reach(stages) :
          /\ Commit(j, stages, n)
          /\ mem' = [mem EXCEPT ![j] = [base EXCEPT
                       !.admF = base.admC \/ (store /\ stages[n].sel),
                       !.admC = base.admC \/ (store /\ All(stages, n))]]
          /\ queue' = IF All(stages, n) /\ (store \/ base.admC)
                      THEN Append(queue, j) ELSE queue
    BY <1>6 DEF AdoptUnadmitted
  <2> HIDE DEF stages, base
  <2>4. /\ led' \in [Jobs -> View] /\ wOk' \in BOOLEAN
        /\ n \in DOMAIN stages /\ stages[n] \in View
    BY <1>0, <2>2, <2>3, CommitType
  <2>5. mem' \in [Jobs -> Record]
    <3> DEFINE f == base.admC \/ (store /\ stages[n].sel)
               c == base.admC \/ (store /\ All(stages, n))
    <3>1. f \in BOOLEAN /\ c \in BOOLEAN
      OBVIOUS
    <3>2. mem' = [mem EXCEPT ![j] = [base EXCEPT !.admF = f, !.admC = c]]
      BY <2>3
    <3> HIDE DEF f, c
    <3>3. [base EXCEPT !.admF = f, !.admC = c] \in Record
      BY <2>1, <3>1 DEF Record
    <3> QED BY <1>0, <3>2, <3>3
  <2>6. queue' \in Seq(Jobs)
    BY <2>3 DEF TypeOK
  <2> QED BY <1>1, <1>6, <2>1, <2>4, <2>5, <2>6 DEF TypeOK, AdoptUnadmitted, Adopting
<1> QED BY <1>2, <1>3, <1>4, <1>5, <1>6 DEF AdoptStep

(* The type invariant: every variable of the coordinator and of the ledger  *)
(* keeps its shape, for any number of jobs, keys, limits and restarts.      *)
THEOREM TypeCorrect == Spec => []TypeOK
<1>1. Init => TypeOK
  BY TypeInit
<1>2. TypeOK /\ [Next]_vars => TypeOK'
  <2> SUFFICES ASSUME TypeOK, [Next]_vars PROVE TypeOK'
    OBVIOUS
  <2>1. CASE UNCHANGED vars
    BY <2>1 DEF TypeOK, vars, ledger, memory, quota, posts, bounds, ghosts
  <2>2. CASE StartDenied
    BY <2>2, StartDeniedType
  <2>3. CASE Start
    <3>1. PICK kind \in Kinds, ask \in BOOLEAN, store \in StoreOutcomes :
            StartJob(kind, ask, store)
      BY <2>3 DEF Start
    <3>2. store \in BOOLEAN
      BY DEF StoreOutcomes
    <3> QED BY <3>1, <3>2, StartJobType
  <2>4. ASSUME NEW j \in Jobs,
               \/ CompleteAdmission(j) \/ GrantApproval(j) \/ CancelJob(j)
               \/ FallBackInline(j) \/ Compact(j)
        PROVE TypeOK'
    BY <2>4, CallType
  <2>5. CASE \/ Work \/ PumpBegin \/ Deadline \/ PumpStep
             \/ \E j \in Jobs, e \in 1..2, out \in Outcomes : ForgeEnvelope(j, e, out)
    BY <2>5, PostType
  <2>6. CASE ScanStep
    BY <2>6, ScanType
  <2>7. CASE Lifecycle \/ Close \/ Others
    BY <2>7, LifecycleType
  <2>8. CASE AdoptStep
    BY <2>8, AdoptType
  <2> QED BY <2>1, <2>2, <2>3, <2>4, <2>5, <2>6, <2>7, <2>8 DEF Next, Interface
<1> QED BY <1>1, <1>2, PTL DEF Spec

-----------------------------------------------------------------------------
(* The inductive invariant.  A key of a running job is held by it; numbers  *)
(* not issued yet, and all of them while no coordinator lives, have no      *)
(* record; adoption meets jobs that have none; with a healthy ledger a job  *)
(* that has a lease and has not ended runs an open attempt, and nothing is  *)
(* kept for a retry; a waiting native job still has its first attempt open. *)
KeysHeld == \A j \in Running : \A k \in KeysOf[j] : holder[k] = j

Numbered == \A j \in Jobs : j >= next => mem[j] = Unborn

DownIsEmpty == up = "down" => \A j \in Jobs : mem[j] = Unborn

AdoptFresh ==
  ctl.pc = "adopt" => up = "open" /\ \A j \in Jobs : j >= ctl.i => mem[j] = Unborn

LeasedRuns ==
  wOk => \A j \in Jobs : mem[j].owner # 0 /\ ~Ended(mem[j].st) =>
           mem[j].st = "running" /\ led[j].term = "none"

(* Cancellation tells a running job by its dispatched field.                *)
RunningDispatched == \A j \in Running : mem[j].dispatched

Waiting == {j \in Jobs : mem[j].st \in {"registered", "queued", "awaiting_approval"}}

NativeOpen == \A j \in Waiting : Native(j) => led[j].term = "none"

IInv ==
  /\ TypeOK /\ KeysHeld /\ Numbered /\ DownIsEmpty /\ AdoptFresh
  /\ LeasedRuns /\ NativeOpen /\ RunningDispatched
  /\ QuotaBalance /\ RetryNeedsRestart

-----------------------------------------------------------------------------
(* Steps that leave the records, the ledger and the slots alone.            *)
LEMMA StillStep ==
  ASSUME IInv, TypeOK', UNCHANGED <<mem, ledger, holder, quota, next, up>>,
         ctl'.pc = "adopt" => ctl.pc = "adopt" /\ ctl'.i >= ctl.i
  PROVE  IInv'
<1> USE DEF ledger, quota
<1>1. KeysHeld' /\ Numbered' /\ DownIsEmpty' /\ RetryNeedsRestart'
  BY DEF IInv, KeysHeld, Running, Numbered, DownIsEmpty, RetryNeedsRestart
<1>2. LeasedRuns' /\ NativeOpen' /\ RunningDispatched' /\ QuotaBalance'
  BY DEF IInv, LeasedRuns, NativeOpen, RunningDispatched, Waiting, Native, QuotaBalance, Running
<1>3. AdoptFresh'
  <2> SUFFICES ASSUME ctl'.pc = "adopt", NEW j \in Jobs, j >= ctl'.i PROVE mem[j] = Unborn
    BY DEF IInv, AdoptFresh
  <2>1. ctl.i \in Nat /\ ctl'.i \in Nat /\ j \in Nat
    BY JobsAssumption DEF IInv, TypeOK, Control, Jobs
  <2>2. j >= ctl.i
    BY <2>1
  <2> QED BY <2>2 DEF IInv, AdoptFresh
<1> QED BY <1>1, <1>2, <1>3 DEF IInv

(* A step on one job that leaves the set of running jobs and the slots as   *)
(* they are; OnlyOn says that it is the only job touched.                   *)
OnlyOn(j) ==
  /\ \A k \in Jobs : k # j => mem'[k] = mem[k] /\ led'[k] = led[k]
  /\ mem[j].st # "none" \/ mem'[j] = mem[j]
  /\ wOk' => wOk

SlotOn(j) ==
  /\ OnlyOn(j)
  /\ mem'[j].st = "running" <=> mem[j].st = "running"
  /\ mem[j].dispatched => mem'[j].dispatched
  /\ mem'[j].pend # NoEnvelope => ~wOk'
  /\ wOk' /\ mem'[j].owner # 0 /\ ~Ended(mem'[j].st) =>
       mem'[j].st = "running" /\ led'[j].term = "none"
  /\ j \in Waiting' /\ led'[j].mode = "native_deferred" => led'[j].term = "none"

(* Such a step preserves the inductive invariant.                           *)
LEMMA SlotStep ==
  ASSUME IInv, TypeOK', NEW j \in Jobs, SlotOn(j),
         UNCHANGED <<holder, quota, next>>,
         up' # "down", ctl'.pc # "adopt"
  PROVE  IInv'
<1> USE DEF quota
<1>1. Running' = Running
  BY DEF Running, SlotOn, OnlyOn
<1>2. KeysHeld' /\ RunningDispatched' /\ QuotaBalance'
  BY <1>1 DEF IInv, KeysHeld, RunningDispatched, QuotaBalance, Running, SlotOn, OnlyOn
<1>3. Numbered'
  <2> SUFFICES ASSUME NEW k \in Jobs, k >= next PROVE mem'[k] = Unborn
    BY DEF Numbered
  <2>1. mem[k] = Unborn
    BY DEF IInv, Numbered
  <2> QED BY <2>1 DEF SlotOn, OnlyOn, Unborn
<1>4. DownIsEmpty' /\ AdoptFresh'
  BY DEF DownIsEmpty, AdoptFresh
<1>5. RetryNeedsRestart'
  BY DEF IInv, RetryNeedsRestart, SlotOn, OnlyOn
<1>6. LeasedRuns'
  BY DEF IInv, LeasedRuns, SlotOn, OnlyOn
<1>7. NativeOpen'
  BY DEF IInv, NativeOpen, Native, Waiting, SlotOn, OnlyOn
<1> QED BY <1>2, <1>3, <1>4, <1>5, <1>6, <1>7 DEF IInv

(* One that moreover leaves leases and attempts alone, and brings no ended  *)
(* job back.                                                                *)
QuietOn(j) ==
  /\ OnlyOn(j)
  /\ mem'[j].owner = mem[j].owner /\ mem'[j].pend = mem[j].pend
  /\ mem'[j].st = "running" <=> mem[j].st = "running"
  /\ mem[j].dispatched => mem'[j].dispatched
  /\ Ended(mem[j].st) => Ended(mem'[j].st)
  /\ led'[j].term = led[j].term /\ led'[j].mode = led[j].mode
  /\ j \in Waiting' => j \in Waiting

(* So does a quiet one, without looking at leases and attempts.             *)
LEMMA QuietStep ==
  ASSUME IInv, TypeOK', NEW j \in Jobs, QuietOn(j),
         UNCHANGED <<holder, quota, next>>,
         up' # "down", ctl'.pc # "adopt"
  PROVE  IInv'
<1>1. SlotOn(j)
  BY DEF IInv, LeasedRuns, NativeOpen, Native, RetryNeedsRestart, QuietOn, SlotOn, OnlyOn
<1> QED BY <1>1, SlotStep

(* The lines that touch neither the attempt's terminal nor the mode.        *)
Frame(v, w) == w.term = v.term /\ w.mode = v.mode

(* The admission message, its compaction, a cancellation request and an     *)
(* observation are such lines.                                              *)
LEMMA LineFrame ==
  ASSUME NEW v \in View
  PROVE  /\ Frame(v, Admitted(v)) /\ Frame(v, Compacted(v)) /\ Frame(v, CancelRequested(v))
         /\ \A s \in TerminalStates \cup {"unknown"} : Frame(v, Observed(v, s))
BY DEF Frame, Admitted, Compacted, CancelRequested, Observed, View

Framed(v, s) == s \in Views /\ \A n \in DOMAIN s : Frame(v, s[n])

(* Stages built from them stay framed.                                      *)
LEMMA FramedSeqs ==
  ASSUME NEW v \in View, NEW a \in View, Frame(v, a)
  PROVE  /\ Framed(v, <<v>>) /\ Framed(v, <<v, a>>)
         /\ \A s \in Views : Framed(v, s) => Framed(v, Append(s, a))
<1> HIDE DEF View
<1>1. Frame(v, v)
  BY DEF Frame
<1>2. Framed(v, <<v>>)
  <2>1. DOMAIN <<v>> = {1} /\ <<v>>[1] = v
    OBVIOUS
  <2> QED BY <1>1, <2>1, StageSeqs DEF Framed
<1>3. Framed(v, <<v, a>>)
  <2>1. DOMAIN <<v, a>> = {1, 2} /\ <<v, a>>[1] = v /\ <<v, a>>[2] = a
    OBVIOUS
  <2> QED BY <1>1, <2>1, StageSeqs DEF Framed
<1>4. ASSUME NEW s \in Views, Framed(v, s) PROVE Framed(v, Append(s, a))
  BY <1>4, AppendProperties DEF Views, Framed
<1> QED BY <1>2, <1>3, <1>4

(* A commit of framed stages.                                               *)
LEMMA FramedCommit ==
  ASSUME led \in [Jobs -> View], wOk \in BOOLEAN, NEW j \in Jobs,
         NEW stages, Framed(led[j], stages), NEW n \in Reach(stages), Commit(j, stages, n)
  PROVE  /\ \A k \in Jobs : k # j => led'[k] = led[k]
         /\ led'[j].term = led[j].term /\ led'[j].mode = led[j].mode
         /\ wOk' => wOk
<1>1. /\ \A k \in Jobs : k # j => led'[k] = led[k]
      /\ led'[j] = stages[n] /\ n \in DOMAIN stages /\ (wOk' => wOk)
  BY CommitType DEF Framed
<1>2. Frame(led[j], stages[n])
  BY <1>1 DEF Framed
<1> QED BY <1>1, <1>2 DEF Frame

(* CancelJob past its gate never takes a job out of the running ones: a     *)
(* running job has been dispatched, so it only gets the request and the     *)
(* flag.                                                                    *)
LEMMA CancelQuiet ==
  ASSUME IInv, NEW j \in Jobs, CancelEffects(j), Cancellable(j)
  PROVE  QuietOn(j)
<1> DEFINE v == led[j]
           c == IF mem[j].cancelReq THEN v ELSE CancelRequested(v)
           o == Observed(c, "cancelled")
           ask == IF mem[j].cancelReq THEN <<v>> ELSE <<v, c>>
           stages == IF mem[j].dispatched THEN ask ELSE Append(ask, o)
<1>1. led \in [Jobs -> View] /\ wOk \in BOOLEAN /\ mem \in [Jobs -> Record]
  BY DEF IInv, TypeOK
<1>2. v \in View /\ c \in View /\ Frame(v, c)
  BY <1>1, LineType, LineFrame DEF Frame
<1>3. o \in View /\ Frame(v, o)
  <2> HIDE DEF c, v
  <2> QED BY <1>2, CountType, LineFrame DEF TerminalStates, Frame
<1>4. Framed(v, stages)
  <2> HIDE DEF v, c, o
  <2>1. Framed(v, ask)
    <3>1. ask = <<v>> \/ ask = <<v, c>>
      OBVIOUS
    <3> HIDE DEF ask
    <3> QED BY <1>2, <3>1, FramedSeqs
  <2> HIDE DEF ask
  <2>2. Framed(v, Append(ask, o))
    BY <1>2, <1>3, <2>1, FramedSeqs DEF Framed
  <2> QED BY <2>1, <2>2
<1>5. PICK n \in Reach(stages) :
        /\ Commit(j, stages, n)
        /\ mem' = [mem EXCEPT
             ![j].cancelReq = n >= Len(ask),
             ![j].flag = @ \/ n >= Len(ask),
             ![j].st = IF ~mem[j].dispatched /\ All(stages, n) THEN "cancelled" ELSE @]
  BY DEF CancelEffects
<1>6. /\ \A k \in Jobs : k # j => mem'[k] = mem[k]
      /\ mem'[j].owner = mem[j].owner /\ mem'[j].pend = mem[j].pend
      /\ mem'[j].dispatched = mem[j].dispatched
      /\ \/ mem'[j].st = mem[j].st
         \/ mem'[j].st = "cancelled" /\ ~mem[j].dispatched
  <2> HIDE DEF stages, ask
  <2> QED BY <1>1, <1>5 DEF Record
<1>7. ~mem[j].dispatched => mem[j].st # "running"
  BY DEF IInv, RunningDispatched, Running
<1> HIDE DEF stages, ask
<1>8. /\ \A k \in Jobs : k # j => led'[k] = led[k]
      /\ led'[j].term = led[j].term /\ led'[j].mode = led[j].mode
      /\ wOk' => wOk
  BY <1>1, <1>4, <1>5, FramedCommit
<1>9. /\ mem'[j].st = "running" <=> mem[j].st = "running"
      /\ j \in Waiting' => j \in Waiting
  BY <1>6, <1>7 DEF Waiting
<1> QED BY <1>6, <1>8, <1>9 DEF QuietOn, OnlyOn, Cancellable

(* The interface calls on one job, and a deadline.                          *)
LEMMA QuietCalls ==
  ASSUME IInv, TypeOK', NEW j \in Jobs,
         \/ CompleteAdmission(j) \/ GrantApproval(j) \/ CancelJob(j)
         \/ FallBackInline(j) \/ Compact(j) \/ DeadlinePassed(j)
  PROVE  IInv'
<1> USE DEF ledger, memory, quota, posts, bounds, ghosts
<1>0. /\ led \in [Jobs -> View] /\ wOk \in BOOLEAN /\ mem \in [Jobs -> Record]
      /\ led[j] \in View /\ mem[j] \in Record
  BY DEF IInv, TypeOK
<1>1. CASE CompleteAdmission(j)
  <2> DEFINE stages == <<led[j], Admitted(led[j])>>
  <2>1. Framed(led[j], stages)
    BY <1>0, LineType, LineFrame, FramedSeqs
  <2>2. PICK n \in Reach(stages) :
          Commit(j, stages, n) /\ mem' = [mem EXCEPT ![j].admC = All(stages, n)]
    BY <1>1 DEF CompleteAdmission
  <2> HIDE DEF stages
  <2>3. /\ \A k \in Jobs : k # j => mem'[k] = mem[k]
        /\ mem'[j].owner = mem[j].owner /\ mem'[j].pend = mem[j].pend
        /\ mem'[j].st = mem[j].st /\ mem'[j].dispatched = mem[j].dispatched
    BY <1>0, <2>2 DEF Record
  <2>4. mem[j].st # "none"
    BY <1>1 DEF CompleteAdmission
  <2>5. QuietOn(j)
    BY <1>0, <2>1, <2>2, <2>3, <2>4, FramedCommit DEF QuietOn, OnlyOn, Waiting
  <2> QED BY <1>1, <2>5, QuietStep DEF CompleteAdmission, Calls, Idle
<1>2. CASE GrantApproval(j)
  <2>1. /\ \A k \in Jobs : k # j => mem'[k] = mem[k]
        /\ mem'[j].owner = mem[j].owner /\ mem'[j].pend = mem[j].pend
        /\ mem'[j].st = "queued" /\ mem'[j].dispatched = mem[j].dispatched
    BY <1>0, <1>2 DEF GrantApproval, Record
  <2>2. mem[j].st = "awaiting_approval" /\ led' = led /\ wOk' = wOk
    BY <1>2 DEF GrantApproval
  <2>3. QuietOn(j)
    BY <2>1, <2>2 DEF QuietOn, OnlyOn, Waiting, Ended, TerminalStates
  <2> QED BY <1>2, <2>3, QuietStep DEF GrantApproval, Calls, Scan
<1>3. CASE CancelJob(j)
  <2>1. QuietOn(j)
    BY <1>3, CancelQuiet DEF CancelJob
  <2> QED BY <1>3, <2>1, QuietStep DEF CancelJob, Calls, Idle
<1>4. CASE FallBackInline(j)
  <2>1. CASE Cancellable(j) /\ CancelEffects(j)
    <3>1. QuietOn(j)
      BY <2>1, CancelQuiet
    <3> QED BY <1>4, <3>1, QuietStep DEF FallBackInline, Calls, Idle
  <2>2. CASE UNCHANGED <<ledger, mem>>
    <3>1. ctl'.pc # "adopt"
      BY <1>4 DEF FallBackInline, Calls, Idle
    <3> QED BY <1>4, <2>2, <3>1, StillStep DEF FallBackInline
  <2> QED BY <1>4, <2>1, <2>2 DEF FallBackInline
<1>5. CASE Compact(j)
  <2>1. led' = [led EXCEPT ![j] = Compacted(@)] /\ UNCHANGED <<wOk, mem>>
    BY <1>5 DEF Compact
  <2>2. QuietOn(j)
    BY <1>0, <2>1, LineFrame DEF QuietOn, OnlyOn, Waiting, Frame
  <2> QED BY <1>5, <2>2, QuietStep DEF Compact, Calls, Idle
<1>6. CASE DeadlinePassed(j)
  <2> DEFINE stages == <<led[j], CancelRequested(led[j])>>
  <2>1. Framed(led[j], stages)
    BY <1>0, LineType, LineFrame, FramedSeqs
  <2>2. PICK n \in Reach(stages) :
          /\ Commit(j, stages, n)
          /\ mem' \in {[mem EXCEPT ![j].cancelReq = TRUE, ![j].flag = TRUE], mem}
    BY <1>6 DEF DeadlinePassed
  <2> HIDE DEF stages
  <2>3. /\ \A k \in Jobs : k # j => mem'[k] = mem[k]
        /\ mem'[j].owner = mem[j].owner /\ mem'[j].pend = mem[j].pend
        /\ mem'[j].st = mem[j].st /\ mem'[j].dispatched = mem[j].dispatched
    BY <1>0, <2>2 DEF Record
  <2>4. QuietOn(j)
    <3>1. mem[j].st = "running"
      BY <1>6 DEF DeadlinePassed
    <3> QED BY <1>0, <2>1, <2>2, <2>3, <3>1, FramedCommit DEF QuietOn, OnlyOn, Waiting
  <2>5. up' # "down" /\ ctl'.pc # "adopt"
    BY <1>6 DEF DeadlinePassed, Pump, IInv, DownIsEmpty, Unborn
  <2> QED BY <1>6, <2>4, <2>5, QuietStep DEF DeadlinePassed
<1> QED BY <1>1, <1>2, <1>3, <1>4, <1>5, <1>6

(* The steps of the handlers and of the workers that change no record.      *)
LEMMA StillSteps ==
  ASSUME IInv, TypeOK',
         \/ ScanEnd \/ ScanDrop \/ ScanNoRoom \/ Work \/ PumpBegin
         \/ (\E j \in Jobs : RetryKept(j)) \/ TakeEnvelopes \/ DrainDiscard \/ DrainEnd
         \/ AdoptSkip \/ AdoptEnd
         \/ \E j \in Jobs, e \in 1..2, out \in Outcomes : ForgeEnvelope(j, e, out)
  PROVE  IInv'
<1> USE DEF ledger, memory, quota, posts, bounds, ghosts
<1>0. ctl \in Control /\ ctl.i \in Nat
  BY DEF IInv, TypeOK, Control
<1>1. CASE ScanEnd
  BY <1>1, StillStep DEF ScanEnd, Pump, Idle
<1>2. CASE ScanDrop
  <2>1. ctl'.pc # "adopt"
    BY <1>2 DEF ScanDrop, Scanning, Leave
  <2> QED BY <1>2, <2>1, StillStep DEF ScanDrop
<1>3. CASE ScanNoRoom
  <2>1. ctl'.pc # "adopt"
    BY <1>0, <1>3 DEF ScanNoRoom, AtEntry, Scanning, Keep, Control
  <2> QED BY <1>3, <2>1, StillStep DEF ScanNoRoom
<1>4. CASE Work
  <2>1. ctl'.i >= ctl.i
    BY <1>0, <1>4 DEF Work, WorkerEnds
  <2> QED BY <1>4, <2>1, StillStep DEF Work, WorkerEnds
<1>5. CASE PumpBegin
  BY <1>5, StillStep DEF PumpBegin, Pump
<1>6. ASSUME NEW j \in Jobs, RetryKept(j) PROVE IInv'
  <2>1. ctl'.pc # "adopt"
    BY <1>0, <1>6 DEF RetryKept, Control
  <2> QED BY <1>6, <2>1, StillStep DEF RetryKept
<1>7. CASE TakeEnvelopes
  <2>1. ctl'.pc # "adopt"
    BY <1>0, <1>7 DEF TakeEnvelopes, Control
  <2> QED BY <1>7, <2>1, StillStep DEF TakeEnvelopes
<1>8. CASE DrainDiscard
  <2>1. ctl'.pc # "adopt"
    BY <1>8 DEF DrainDiscard, Draining
  <2> QED BY <1>8, <2>1, StillStep DEF DrainDiscard
<1>9. CASE DrainEnd
  BY <1>9, StillStep DEF DrainEnd, Scan, Idle
<1>10. CASE AdoptSkip
  <2>1. ctl'.i >= ctl.i /\ ctl.pc = "adopt"
    BY <1>0, <1>10 DEF AdoptSkip, Control
  <2> QED BY <1>10, <2>1, StillStep DEF AdoptSkip
<1>11. CASE AdoptEnd
  BY <1>11, StillStep DEF AdoptEnd, Scan
<1>12. ASSUME NEW j \in Jobs, NEW e \in 1..2, NEW out \in Outcomes, ForgeEnvelope(j, e, out)
       PROVE  IInv'
  BY <1>12, StillStep DEF ForgeEnvelope, Pump
<1> QED BY <1>1, <1>2, <1>3, <1>4, <1>5, <1>6, <1>7, <1>8, <1>9, <1>10, <1>11, <1>12

(* A registered start is a job_handle job, or a native one whose attempt is *)
(* open.                                                                    *)
LEMMA ChainMode ==
  ASSUME NEW v \in View, NEW store \in BOOLEAN, NEW early \in BOOLEAN,
         NEW i \in DOMAIN AdmissionChain(v, store, early)
  PROVE  AdmissionChain(v, store, early)[i].mode = v.mode
<1> DEFINE s == Started(v)
           c == Closed(s, "done")
           x == Selected(c)
           m == Admitted(x)
<1>1. s \in View /\ s.mode = v.mode
  BY LineType DEF Started, View
<1>2. c \in View /\ c.mode = v.mode
  BY <1>1, LineType DEF Closed, View, ActionTerminals
<1>3. x \in View /\ x.mode = v.mode
  <2> HIDE DEF c
  <2> QED BY <1>2, LineType DEF Selected, View
<1>4. m.mode = v.mode
  <2> HIDE DEF x
  <2> QED BY <1>3 DEF Admitted, View
<1>5. AdmissionChain(v, store, early) \in {<<s, c>>, <<s, c, x>>, <<s, c, x, m>>}
  BY DEF AdmissionChain
<1> HIDE DEF s, c, x, m
<1>6. CASE AdmissionChain(v, store, early) = <<s, c>>
  BY <1>1, <1>2, <1>6
<1>7. CASE AdmissionChain(v, store, early) = <<s, c, x>>
  BY <1>1, <1>2, <1>3, <1>7
<1>8. CASE AdmissionChain(v, store, early) = <<s, c, x, m>>
  BY <1>1, <1>2, <1>3, <1>4, <1>8
<1> QED BY <1>5, <1>6, <1>7, <1>8

(* Wherever the appends of a start stop, a native_deferred job's attempt is *)
(* open.                                                                    *)
LEMMA StartMode ==
  ASSUME led \in [Jobs -> View], NEW j \in Jobs, NEW kind, NEW ask \in BOOLEAN,
         NEW store \in BOOLEAN, NEW n \in DOMAIN StartStages(j, kind, ask, store), n >= 3
  PROVE  LET w == StartStages(j, kind, ask, store)[n]
         IN  w.mode = "native_deferred" => w.term = "none"
<1> DEFINE p == Pending(led[j], 1)
           r == Registered(p, IF kind = "native" THEN "native_deferred"
                                                 ELSE "job_handle", ask)
           early == kind = "early"
           chain == AdmissionChain(r, store, early)
           w == StartStages(j, kind, ask, store)[n]
<1>1. led[j] \in View /\ p \in View /\ p.term = "none"
  <2>1. led[j] \in View
    OBVIOUS
  <2>2. p.term = "none"
    BY <2>1 DEF Pending, View
  <2> QED BY <2>1, <2>2, LineType
<1>2. r \in View /\ r.term = "none" /\ (kind # "native" => r.mode = "job_handle")
  <2> HIDE DEF p
  <2>1. r \in View
    BY <1>1, LineType DEF LedgerModes
  <2>2. r.term = p.term /\ (kind # "native" => r.mode = "job_handle")
    BY <1>1 DEF Registered, View
  <2> QED BY <1>1, <2>1, <2>2
<1>3. early \in {TRUE, FALSE}
  OBVIOUS
<1>4. CASE kind = "native"
  <2>1. StartStages(j, kind, ask, store) = <<led[j], p, r>>
    BY <1>4 DEF StartStages
  <2> HIDE DEF p, r
  <2>2. n = 3 /\ w = r
    BY <1>1, <1>2, <2>1
  <2> QED BY <1>2, <2>2
<1>5. CASE kind # "native"
  <2>1. StartStages(j, kind, ask, store) = <<led[j], p, r>> \o chain
    BY <1>5 DEF StartStages
  <2> HIDE DEF p, r
  <2>2. chain \in Seq(View) /\ \A i \in DOMAIN chain : chain[i].mode = r.mode
    <3>1. CASE early = TRUE
      BY <1>2, <3>1, ChainSeq, ChainMode
    <3>2. CASE early = FALSE
      BY <1>2, <3>2, ChainSeq, ChainMode
    <3> QED BY <1>3, <3>1, <3>2
  <2> HIDE DEF chain
  <2>3. <<led[j], p, r>> \in Seq(View) /\ Len(<<led[j], p, r>>) = 3
    BY <1>1, <1>2
  <2>4. w = r \/ \E i \in DOMAIN chain : w = chain[i]
    <3>1. n \in 1 .. (3 + Len(chain)) /\ Len(chain) \in Nat
      BY <2>1, <2>2, <2>3, ConcatProperties
    <3>2. w = IF n <= 3 THEN <<led[j], p, r>>[n] ELSE chain[n - 3]
      BY <2>1, <2>2, <2>3, <3>1, ConcatProperties
    <3> QED BY <2>2, <3>1, <3>2
  <2> QED BY <1>2, <1>5, <2>2, <2>4
<1> QED BY <1>4, <1>5

(* A start: the record of a number nobody has used yet.                     *)
LEMMA StartInv ==
  ASSUME IInv, TypeOK', NEW kind, NEW ask \in BOOLEAN, NEW store \in BOOLEAN,
         StartJob(kind, ask, store)
  PROVE  IInv'
<1> USE DEF quota, posts, bounds, ghosts
<1> DEFINE j == next
           stages == StartStages(j, kind, ask, store)
<1>0. /\ led \in [Jobs -> View] /\ wOk \in BOOLEAN /\ mem \in [Jobs -> Record]
      /\ j \in Jobs /\ mem[j] = Unborn /\ j \in Nat
  <2>1. j \in Jobs
    BY DEF StartJob, CanStart
  <2>2. j \in Nat
    BY <2>1, JobsAssumption DEF Jobs
  <2> QED BY <2>1, <2>2 DEF IInv, TypeOK, Numbered
<1>1. PICK n \in Reach(stages) : \E r :
        /\ Commit(j, stages, n)
        /\ mem' = IF n < 3 THEN mem ELSE [mem EXCEPT ![j] = r]
        /\ r.owner = 0 /\ r.pend = NoEnvelope
        /\ r.st \in {"registered", "awaiting_approval", "queued"}
  <2> DEFINE ok(n) == All(stages, n) /\ (kind = "native" \/ store)
             st(n) == IF ~ok(n) THEN "registered"
                      ELSE IF ask THEN "awaiting_approval" ELSE "queued"
             r(n) == [Unborn EXCEPT !.st = st(n), !.admC = ok(n) /\ kind = "batch",
                                    !.admF = ok(n) /\ kind # "native"]
  <2>1. PICK n \in Reach(stages) :
          Commit(j, stages, n) /\ mem' = IF n < 3 THEN mem ELSE [mem EXCEPT ![j] = r(n)]
    BY DEF StartJob
  <2>2. r(n).owner = 0 /\ r(n).pend = NoEnvelope /\ r(n).st = st(n)
    <3> HIDE DEF st, ok
    <3> QED BY DEF Unborn
  <2>3. st(n) \in {"registered", "awaiting_approval", "queued"}
    OBVIOUS
  <2> HIDE DEF r, st, stages
  <2> QED BY <2>1, <2>2, <2>3
<1>2. stages \in Views
  BY <1>0, StartStagesType
<1>3. /\ n \in DOMAIN stages /\ led'[j] = stages[n] /\ (wOk' => wOk) /\ n \in Nat
      /\ \A k \in Jobs : k # j => led'[k] = led[k]
  <2> HIDE DEF stages
  <2> QED BY <1>0, <1>1, <1>2, CommitType, NonEmptySeq DEF Views
<1>4. /\ \A k \in Jobs : k # j => mem'[k] = mem[k]
      /\ mem'[j].owner = 0 /\ mem'[j].pend = NoEnvelope /\ mem'[j].st # "running"
      /\ j \in Waiting' => n >= 3
  BY <1>0, <1>1, <1>3 DEF Unborn, Waiting
<1>5. Running' = Running
  <2>1. mem[j].st # "running"
    BY <1>0 DEF Unborn
  <2> QED BY <1>0, <1>4, <2>1 DEF Running
<1>6. /\ next' = j + 1 /\ up' = "open" /\ ctl'.pc # "adopt"
      /\ UNCHANGED <<holder, gquota, foreign, leaked>>
  BY DEF StartJob, CanStart, Calls, Idle, Pump, Scan
<1>7. KeysHeld' /\ RunningDispatched' /\ QuotaBalance'
  <2>1. \A k \in Running : mem'[k] = mem[k]
    BY <1>0, <1>4 DEF Running, Unborn
  <2> QED BY <1>5, <1>6, <2>1 DEF IInv, KeysHeld, RunningDispatched, QuotaBalance
<1>8. Numbered'
  <2> SUFFICES ASSUME NEW k \in Jobs, k >= next' PROVE mem'[k] = Unborn
    BY DEF Numbered
  <2>1. k > j /\ k # j
    BY <1>0, <1>6, JobsAssumption DEF Jobs
  <2> QED BY <1>0, <1>4, <2>1, JobsAssumption DEF IInv, Numbered, Jobs
<1>9. DownIsEmpty' /\ AdoptFresh'
  BY <1>6 DEF DownIsEmpty, AdoptFresh
<1>10. LeasedRuns' /\ RetryNeedsRestart'
  BY <1>3, <1>4 DEF IInv, LeasedRuns, RetryNeedsRestart
<1>11. NativeOpen'
  <2> SUFFICES ASSUME NEW k \in Jobs, k \in Waiting', led'[k].mode = "native_deferred"
               PROVE  led'[k].term = "none"
    BY DEF NativeOpen, Native, Waiting
  <2>1. CASE k = j
    BY <1>0, <1>3, <1>4, <2>1, StartMode
  <2>2. CASE k # j
    BY <1>3, <1>4, <2>2 DEF IInv, NativeOpen, Native, Waiting
  <2> QED BY <2>1, <2>2
<1> QED BY <1>7, <1>8, <1>9, <1>10, <1>11 DEF IInv

(* A denied start writes on the ledger of a job that has no record.         *)
LEMMA StartDeniedInv ==
  ASSUME IInv, TypeOK', StartDenied
  PROVE  IInv'
<1> USE DEF memory, quota, posts, bounds, ghosts
<1> DEFINE p == Pending(led[next], 1)
           stages == <<led[next], p, Closed(p, "rejected")>>
<1>1. /\ led \in [Jobs -> View] /\ wOk \in BOOLEAN /\ next \in Jobs /\ next \in Nat
      /\ mem[next] = Unborn
  <2>1. next \in Jobs /\ next \in Nat
    BY DEF StartDenied, CanStart, IInv, TypeOK
  <2> QED BY <2>1 DEF IInv, TypeOK, Numbered
<1>2. stages \in Views
  <2>1. led[next] \in View
    BY <1>1
  <2>2. p \in View
    BY <2>1, LineType
  <2>3. Closed(p, "rejected") \in View
    BY <2>2, LineType DEF ActionTerminals
  <2> QED BY <2>1, <2>2, <2>3, StageSeqs
<1>3. PICK n \in Reach(stages) : Commit(next, stages, n)
  BY DEF StartDenied
<1> HIDE DEF stages
<1>4. (wOk' => wOk) /\ \A k \in Jobs : k # next => led'[k] = led[k]
  BY <1>1, <1>2, <1>3, CommitType
<1>5. /\ UNCHANGED <<mem, holder, gquota, foreign, leaked>>
      /\ next' = next + 1 /\ up' = "open" /\ ctl'.pc # "adopt"
  BY DEF StartDenied, CanStart, Calls, Idle
<1>6. KeysHeld' /\ RunningDispatched' /\ QuotaBalance' /\ RetryNeedsRestart'
  BY <1>4, <1>5 DEF IInv, KeysHeld, RunningDispatched, QuotaBalance, RetryNeedsRestart, Running
<1>7. Numbered' /\ DownIsEmpty' /\ AdoptFresh'
  <2>1. \A k \in Jobs : k >= next + 1 => k >= next
    BY <1>1, JobsAssumption DEF Jobs
  <2> QED BY <1>5, <2>1 DEF IInv, Numbered, DownIsEmpty, AdoptFresh
<1>8. LeasedRuns' /\ NativeOpen'
  BY <1>1, <1>4, <1>5 DEF IInv, LeasedRuns, NativeOpen, Waiting, Native, Unborn
<1> QED BY <1>6, <1>7, <1>8 DEF IInv

(* An entry of the queue that is looked at waits, and is neither running    *)
(* nor, while the ledger is healthy, leased.                                *)
LEMMA EntryFacts ==
  ASSUME IInv, AtEntry
  PROVE  /\ Here \in Jobs /\ Here \in Waiting /\ Here \notin Running
         /\ led \in [Jobs -> View] /\ wOk \in BOOLEAN /\ mem \in [Jobs -> Record]
         /\ led[Here] \in View /\ mem[Here] \in Record
         /\ up # "down" /\ Here < next /\ ctl.pc = "scan" /\ ctl \in Control
<1>1. /\ Here \in Jobs /\ mem[Here].st \in {"queued", "registered"}
      /\ led \in [Jobs -> View] /\ wOk \in BOOLEAN /\ mem \in [Jobs -> Record]
      /\ led[Here] \in View /\ mem[Here] \in Record
  BY HereType DEF AtEntry, IInv
<1>2. mem[Here] # Unborn
  BY <1>1 DEF Unborn
<1>3. Here < next
  BY <1>1, <1>2, JobsAssumption DEF IInv, Numbered, Jobs, TypeOK
<1> QED BY <1>1, <1>2, <1>3 DEF Waiting, Running, IInv, TypeOK, DownIsEmpty, AtEntry, Scanning

(* Leaving or keeping an entry never leads into adoption.                   *)
LEMMA PlaceFacts ==
  ASSUME IInv, AtEntry, Leave \/ Keep
  PROVE  ctl'.pc # "adopt"
BY EntryFacts DEF Leave, Keep, Control

(* Settling a job that was cancelled in the queue touches neither slots nor *)
(* keys.                                                                    *)
LEMMA ScanCancelledInv ==
  ASSUME IInv, TypeOK', ScanCancelled
  PROVE  IInv'
<1> DEFINE j == Here
           stages == <<led[j], Observed(led[j], "cancelled")>>
<1>1. AtEntry
  BY DEF ScanCancelled
<1>2. Framed(led[j], stages)
  BY <1>1, EntryFacts, CountType, LineFrame, FramedSeqs DEF TerminalStates
<1>3. PICK n \in Reach(stages) :
        /\ Commit(j, stages, n)
        /\ \/ Leave /\ mem' = [mem EXCEPT ![j].st = "cancelled"]
           \/ Keep /\ mem' = mem
  BY DEF ScanCancelled
<1> HIDE DEF stages
<1>4. /\ \A k \in Jobs : k # j => mem'[k] = mem[k]
      /\ mem'[j].owner = mem[j].owner /\ mem'[j].pend = mem[j].pend
      /\ mem'[j].dispatched = mem[j].dispatched
      /\ mem'[j].st \in {mem[j].st, "cancelled"}
  BY <1>1, <1>3, EntryFacts DEF Record
<1>5. QuietOn(j)
  BY <1>1, <1>2, <1>3, <1>4, EntryFacts, FramedCommit
     DEF QuietOn, OnlyOn, Waiting, Running, Ended, TerminalStates
<1>6. ctl'.pc # "adopt"
  BY <1>1, <1>3, PlaceFacts
<1> QED BY <1>1, <1>5, <1>6, EntryFacts, QuietStep DEF ScanCancelled

(* A denial at dispatch opens attempt 2 only to reject it: no slot, no key, *)
(* no lease.                                                                *)
LEMMA ScanDeniedInv ==
  ASSUME IInv, TypeOK', ScanDenied
  PROVE  IInv'
<1> USE DEF ledger, memory, quota
<1> DEFINE j == Here
           p == NextAttempt(led[j])
           r == Closed(p, "rejected")
           o == Observed(r, "failed")
           stages == <<led[j], p, r, o>>
<1>1. AtEntry
  BY DEF ScanDenied
<1>2. /\ led[j] \in View /\ p \in View /\ r \in View /\ o \in View
      /\ p.mode = led[j].mode /\ r.mode = led[j].mode /\ o.mode = led[j].mode
  <2>1. led[j] \in View
    BY <1>1, EntryFacts
  <2>2. p \in View /\ p.mode = led[j].mode
    BY <2>1, CountType DEF NextAttempt, Pending, View
  <2>3. r \in View /\ r.mode = p.mode
    <3> HIDE DEF p
    <3>1. r \in View
      BY <2>2, LineType DEF ActionTerminals
    <3> QED BY <2>2, <3>1 DEF Closed, View
  <2>4. o \in View /\ o.mode = r.mode
    <3> HIDE DEF r
    <3> QED BY <2>3, CountType, LineFrame DEF TerminalStates, Frame
  <2> QED BY <2>1, <2>2, <2>3, <2>4
<1>3. CASE AttemptOpen(led[j])
  <2>1. Keep /\ UNCHANGED <<led, wOk, mem>>
    BY <1>3 DEF ScanDenied
  <2>2. ctl'.pc # "adopt"
    BY <1>1, <2>1, PlaceFacts
  <2> QED BY <2>1, <2>2, StillStep DEF ScanDenied
<1>4. CASE ~AttemptOpen(led[j])
  <2> HIDE DEF p, r, o
  <2>1. stages \in Views /\ \A n \in DOMAIN stages : stages[n].mode = led[j].mode
    <3>1. stages \in Views
      BY <1>2, StageSeqs
    <3>2. DOMAIN stages = 1 .. 4 /\ stages[1] = led[j] /\ stages[2] = p
          /\ stages[3] = r /\ stages[4] = o
      OBVIOUS
    <3> HIDE DEF stages
    <3>3. ASSUME NEW n \in DOMAIN stages PROVE stages[n].mode = led[j].mode
      <4>1. n = 1 \/ n = 2 \/ n = 3 \/ n = 4
        BY <3>2
      <4> QED BY <1>2, <3>2, <4>1
    <3> QED BY <3>1, <3>3
  <2>2. PICK n \in Reach(stages) :
          /\ Commit(j, stages, n)
          /\ IF All(stages, n)
             THEN Leave /\ mem' = [mem EXCEPT ![j].st = "failed"]
             ELSE Keep /\ mem' = mem
    BY <1>4 DEF ScanDenied, p, r, o
  <2> HIDE DEF stages
  <2>3. /\ \A k \in Jobs : k # j => led'[k] = led[k]
        /\ led'[j].mode = led[j].mode /\ (wOk' => wOk) /\ (wOk' => n = Len(stages))
    <3>1. /\ n \in DOMAIN stages /\ led'[j] = stages[n] /\ (~wOk => ~wOk')
          /\ (n # Len(stages) => ~wOk') /\ wOk' \in BOOLEAN
          /\ \A k \in Jobs : k # j => led'[k] = led[k]
      BY <1>1, <2>1, <2>2, EntryFacts, CommitType
    <3> QED BY <2>1, <3>1
  <2>4. /\ \A k \in Jobs : k # j => mem'[k] = mem[k]
        /\ mem'[j].owner = mem[j].owner /\ mem'[j].pend = mem[j].pend
        /\ mem'[j].dispatched = mem[j].dispatched
        /\ mem'[j].st = IF n = Len(stages) THEN "failed" ELSE mem[j].st
    BY <1>1, <2>2, EntryFacts DEF Record, All
  <2>5. led[j].mode # "native_deferred"
    BY <1>1, <1>4, EntryFacts DEF IInv, NativeOpen, Native, AttemptOpen
  <2>6. SlotOn(j)
    BY <1>1, <2>3, <2>4, <2>5, EntryFacts
       DEF SlotOn, OnlyOn, Waiting, Running, Ended, TerminalStates, IInv, RetryNeedsRestart
  <2>7. ctl'.pc # "adopt"
    BY <1>1, <2>2, PlaceFacts
  <2> QED BY <1>1, <2>6, <2>7, EntryFacts, SlotStep DEF ScanDenied
<1> QED BY <1>3, <1>4

(* The views a dispatch goes through keep the mode; a native attempt stays  *)
(* open, and the last view has an open attempt in any case.                 *)
LEMMA DispatchFrame ==
  ASSUME led \in [Jobs -> View], NEW j \in Jobs, Native(j) => led[j].term = "none"
  PROVE  /\ \A n \in DOMAIN DispatchStages(j) :
              /\ DispatchStages(j)[n].mode = led[j].mode
              /\ Native(j) => DispatchStages(j)[n].term = "none"
         /\ DispatchStages(j)[Len(DispatchStages(j))].term = "none"
<1> DEFINE v == led[j]
           p == IF Native(j) THEN v ELSE NextAttempt(v)
           d == Dispatched(p)
           s == Started(d)
<1>1. v \in View
  OBVIOUS
<1>2. p \in View /\ p.mode = v.mode /\ p.term = "none"
  <2>1. NextAttempt(v) \in View /\ NextAttempt(v).mode = v.mode /\ NextAttempt(v).term = "none"
    BY <1>1, CountType DEF NextAttempt, Pending, View
  <2> QED BY <1>1, <2>1
<1>3. d \in View /\ d.mode = v.mode /\ d.term = "none"
  <2> HIDE DEF p, v
  <2>1. d \in View
    BY <1>2, CountType
  <2> QED BY <1>2, <2>1 DEF Dispatched, View
<1>4. s \in View /\ s.mode = v.mode /\ s.term = "none"
  <2> HIDE DEF d, v
  <2>1. s \in View
    BY <1>3, LineType
  <2> QED BY <1>3, <2>1 DEF Started, View
<1>5. DispatchStages(j) = IF Native(j) THEN <<v, d, s>> ELSE <<v, p, d, s>>
  BY DEF DispatchStages
<1>6. Native(j) => v.term = "none"
  OBVIOUS
<1> HIDE DEF v, p, d, s
<1>7. CASE Native(j)
  <2>1. DispatchStages(j) = <<v, d, s>>
    BY <1>5, <1>7
  <2> QED BY <1>1, <1>3, <1>4, <1>6, <1>7, <2>1 DEF v
<1>8. CASE ~Native(j)
  <2>1. DispatchStages(j) = <<v, p, d, s>>
    BY <1>5, <1>8
  <2> QED BY <1>1, <1>2, <1>3, <1>4, <1>8, <2>1 DEF v
<1> QED BY <1>7, <1>8

(* A dispatch adds the job to the running ones, with a slot and its keys.   *)
LEMMA ScanDispatchInv ==
  ASSUME IInv, TypeOK', ScanDispatch
  PROVE  IInv'
<1> USE DEF ledger, memory, quota, posts, bounds, ghosts
<1> DEFINE j == Here
           stages == DispatchStages(j)
           n == Len(stages)
<1>1. AtEntry /\ Room(j)
  BY DEF ScanDispatch, CanDispatch
<1>2. /\ j \in Jobs /\ j \notin Running /\ up # "down" /\ j < next
      /\ led \in [Jobs -> View] /\ wOk \in BOOLEAN /\ mem \in [Jobs -> Record]
  BY <1>1, EntryFacts
<1>3. stages \in Views /\ n \in Reach(stages) /\ Commit(j, stages, n)
  BY <1>2, DispatchStagesType DEF ScanDispatch
<1>4. stages[n].term = "none" /\ stages[n].mode = led[j].mode /\ n \in DOMAIN stages
  <2>1. Native(j) => led[j].term = "none"
    BY <1>1, EntryFacts DEF IInv, NativeOpen
  <2>2. n \in DOMAIN stages
    BY <1>3, NonEmptySeq DEF Views
  <2> QED BY <1>2, <2>1, <2>2, DispatchFrame
<1> HIDE DEF stages, n
<1>5. /\ led'[j].term = "none" /\ led'[j].mode = led[j].mode /\ (wOk' => wOk)
      /\ \A k \in Jobs : k # j => led'[k] = led[k]
  BY <1>2, <1>3, <1>4, CommitType
<1>6. /\ \A k \in Jobs : k # j => mem'[k] = mem[k]
      /\ mem'[j].st = "running" /\ mem'[j].dispatched /\ mem'[j].pend = mem[j].pend
  <2>1. mem' = [mem EXCEPT ![j] = [Lease(j) EXCEPT
                     !.st = "running", !.dispatched = TRUE, !.flag = FALSE]]
    BY DEF ScanDispatch
  <2>2. Lease(j) \in Record /\ Lease(j).pend = mem[j].pend
    BY <1>2, LeaseType
  <2> HIDE DEF j
  <2> QED BY <1>2, <2>1, <2>2 DEF Record
<1>7. Running' = Running \cup {j}
  BY <1>2, <1>6 DEF Running
<1>8. Cardinality(Running') = Cardinality(Running) + 1 /\ Cardinality(Running) \in Nat
  BY <1>2, <1>7, RunningFinite, FS_AddElement, FS_CardinalityType
<1>9. /\ holder' = [k \in Keys |-> IF k \in KeysOf[j] THEN j ELSE holder[k]]
      /\ gquota' = QuotaTaken /\ UNCHANGED <<foreign, leaked, up, next>>
  BY DEF ScanDispatch
<1>10. QuotaBalance'
  BY <1>8, <1>9 DEF IInv, TypeOK, QuotaBalance, QuotaTaken
<1>11. KeysHeld'
  <2> SUFFICES ASSUME NEW i \in Running', NEW k \in KeysOf[i] PROVE holder'[k] = i
    BY DEF KeysHeld
  <2>1. i \in Jobs /\ k \in Keys /\ KeysOf[j] \subseteq Keys
    BY <1>2, <1>7, RunningFinite, JobsAssumption
  <2>2. CASE i = j
    BY <1>9, <2>1, <2>2
  <2>3. CASE i # j
    <3>1. i \in Running /\ holder[k] = i
      BY <1>7, <2>3 DEF IInv, KeysHeld
    <3>2. i # 0
      BY <2>1, JobsAssumption DEF Jobs
    <3>3. k \notin KeysOf[j]
      BY <1>1, <2>3, <3>1, <3>2 DEF Room
    <3> QED BY <1>9, <2>1, <3>1, <3>3
  <2> QED BY <2>2, <2>3
<1>12. RunningDispatched' /\ RetryNeedsRestart'
  <2>1. \A i \in Running : i # j /\ mem'[i] = mem[i]
    BY <1>2, <1>6, RunningFinite
  <2>2. RunningDispatched'
    BY <1>6, <1>7, <2>1 DEF IInv, RunningDispatched
  <2>3. RetryNeedsRestart'
    BY <1>5, <1>6 DEF IInv, RetryNeedsRestart
  <2> QED BY <2>2, <2>3
<1>13. LeasedRuns' /\ NativeOpen'
  BY <1>5, <1>6 DEF IInv, LeasedRuns, NativeOpen, Waiting, Native
<1>14. ctl'.pc # "adopt"
  BY <1>1, PlaceFacts DEF ScanDispatch
<1>15. Numbered'
  <2> SUFFICES ASSUME NEW k \in Jobs, k >= next PROVE mem'[k] = Unborn
    BY <1>9 DEF Numbered
  <2>1. k # j
    BY <1>2, JobsAssumption DEF Jobs, IInv, TypeOK
  <2> QED BY <1>6, <2>1 DEF IInv, Numbered
<1>16. DownIsEmpty' /\ AdoptFresh'
  BY <1>2, <1>9, <1>14 DEF DownIsEmpty, AdoptFresh
<1> QED BY <1>10, <1>11, <1>12, <1>13, <1>15, <1>16 DEF IInv

(* One that fails leaves at most a lease number, on a broken ledger.        *)
LEMMA ScanDispatchFailsInv ==
  ASSUME IInv, TypeOK', ScanDispatchFails
  PROVE  IInv'
<1> DEFINE j == Here
           stages == DispatchStages(j)
<1>1. AtEntry
  BY DEF ScanDispatchFails, CanDispatch
<1>2. /\ j \in Jobs /\ j \in Waiting /\ j \notin Running /\ up # "down"
      /\ led \in [Jobs -> View] /\ wOk \in BOOLEAN /\ mem \in [Jobs -> Record]
  BY <1>1, EntryFacts
<1>3. PICK n \in Reach(stages) \ {Len(stages)} :
        /\ Commit(j, stages, n)
        /\ mem' = IF Native(j) \/ n >= 2 THEN [mem EXCEPT ![j] = Lease(j)] ELSE mem
  BY DEF ScanDispatchFails
<1>4. stages \in Views /\ (Native(j) => led[j].term = "none")
  BY <1>2, DispatchStagesType DEF IInv, NativeOpen
<1>5. \A i \in DOMAIN stages :
        stages[i].mode = led[j].mode /\ (Native(j) => stages[i].term = "none")
  BY <1>2, <1>4, DispatchFrame
<1>6. Lease(j).pend = mem[j].pend /\ Lease(j).st = mem[j].st
      /\ Lease(j).dispatched = mem[j].dispatched
  BY <1>2, LeaseType DEF Lease, Record
<1> HIDE DEF stages
<1>7. /\ n \in DOMAIN stages /\ led'[j] = stages[n] /\ ~wOk'
      /\ \A k \in Jobs : k # j => led'[k] = led[k]
  BY <1>2, <1>3, <1>4, CommitType
<1>8. /\ \A k \in Jobs : k # j => mem'[k] = mem[k]
      /\ mem'[j].pend = mem[j].pend /\ mem'[j].st = mem[j].st
      /\ mem'[j].dispatched = mem[j].dispatched
  BY <1>2, <1>3, <1>6
<1>9. led'[j].mode = led[j].mode /\ (Native(j) => led'[j].term = "none")
  BY <1>5, <1>7
<1>10. SlotOn(j)
  BY <1>2, <1>7, <1>8, <1>9 DEF SlotOn, OnlyOn, Waiting, Native
<1>11. ctl'.pc # "adopt"
  BY <1>1, PlaceFacts DEF ScanDispatchFails
<1> QED BY <1>2, <1>10, <1>11, SlotStep DEF ScanDispatchFails

(* A settlement takes the job out of the running ones, with its slot; one   *)
(* that fails keeps the completion on a broken ledger.                      *)
LEMMA DrainSettleInv ==
  ASSUME IInv, TypeOK', DrainSettle
  PROVE  IInv'
<1> USE DEF ledger, memory, quota, posts, bounds, ghosts
<1> DEFINE env == Arrived
           j == env.job
           c == Closed(led[j], ActionTerminal(env.out))
           stages == <<led[j], c, Observed(c, env.out)>>
           settle == [mem EXCEPT ![j] = [@ EXCEPT !.st = env.out, !.pend = NoEnvelope]]
           retain == [mem EXCEPT ![j] = [@ EXCEPT !.pend = env]]
<1>0. /\ led \in [Jobs -> View] /\ wOk \in BOOLEAN /\ mem \in [Jobs -> Record]
      /\ incoming \in Seq(Envelope) /\ ctl \in Control /\ gquota \in Nat
  BY DEF IInv, TypeOK
<1>1. env \in Envelope
  BY <1>0 DEF DrainSettle, Draining, Arrived
<1>2. j \in Jobs /\ env.out \in TerminalStates /\ env.epoch # 0
  BY <1>1 DEF Envelope, Outcomes
<1>3. /\ mem[j].st # "none" /\ ~Ended(mem[j].st) /\ mem[j].owner # 0
      /\ mem[j] \in Record /\ led[j] \in View
  BY <1>0, <1>2 DEF DrainSettle, Acceptable
<1>4. wOk => mem[j].st = "running" /\ led[j].term = "none"
  BY <1>2, <1>3 DEF IInv, LeasedRuns
<1>5. /\ ctl'.pc # "adopt" /\ up' = up /\ next' = next /\ up # "down"
  <2>1. ctl'.pc = ctl.pc /\ ctl.pc # "adopt"
    BY <1>0 DEF DrainSettle, Draining, Control
  <2>2. up # "down"
    BY <1>2, <1>3 DEF IInv, DownIsEmpty, Unborn
  <2> QED BY <2>1, <2>2 DEF DrainSettle
<1>6. ASSUME mem' = retain, ~wOk',
             \A k \in Jobs : k # j => led'[k] = led[k],
             led'[j].mode = led[j].mode,
             j \in Waiting /\ Native(j) => led'[j].term = "none",
             UNCHANGED <<holder, gquota>>
      PROVE  IInv'
  <2> HIDE DEF env
  <2>1. /\ \A k \in Jobs : k # j => mem'[k] = mem[k]
        /\ mem'[j].st = mem[j].st /\ mem'[j].dispatched = mem[j].dispatched
    BY <1>0, <1>2, <1>3, <1>6 DEF Record
  <2>2. SlotOn(j)
    BY <1>2, <1>3, <1>6, <2>1 DEF SlotOn, OnlyOn, Waiting, Native
  <2> QED BY <1>2, <1>5, <1>6, <2>2, SlotStep DEF DrainSettle
<1>7. CASE led[j].term # "none"
  <2>1. mem' = retain /\ UNCHANGED <<led, wOk, holder, gquota>>
    BY <1>7 DEF DrainSettle
  <2>2. ~wOk
    BY <1>4, <1>7
  <2>3. j \in Waiting /\ Native(j) => led[j].term = "none"
    BY DEF IInv, NativeOpen
  <2> HIDE DEF retain, env
  <2> QED BY <1>6, <2>1, <2>2, <2>3
<1>8. CASE led[j].term = "none"
  <2>1. PICK n \in Reach(stages) :
          /\ Commit(j, stages, n)
          /\ IF All(stages, n)
             THEN /\ mem' = settle
                  /\ holder' = [k \in Keys |->
                       IF k \in KeysOf[j] /\ holder[k] = j THEN 0 ELSE holder[k]]
                  /\ gquota' = QuotaGiven
             ELSE mem' = retain /\ UNCHANGED <<holder, gquota>>
    BY <1>8 DEF DrainSettle
  <2>2. c \in View /\ Observed(c, env.out) \in View
        /\ c.mode = led[j].mode /\ Observed(c, env.out).mode = led[j].mode
    <3>1. ActionTerminal(env.out) \in ActionTerminals
      BY <1>2 DEF ActionTerminal, ActionTerminals, TerminalStates
    <3>2. c \in View
      BY <1>3, <3>1, LineType
    <3>3. c.mode = led[j].mode
      BY <1>3 DEF Closed, View
    <3> HIDE DEF c
    <3> QED BY <1>2, <3>2, <3>3, CountType, LineFrame DEF Frame
  <2>3. stages \in Views /\ Len(stages) = 3 /\ stages[1] = led[j]
        /\ stages[2] = c /\ stages[3] = Observed(c, env.out) /\ DOMAIN stages = 1 .. 3
    <3> DEFINE o == Observed(c, env.out)
               v == led[j]
    <3>1. <<v, c, o>> \in Views
      <4> HIDE DEF c, o, v
      <4> QED BY <1>3, <2>2, StageSeqs DEF v, o
    <3>2. /\ Len(<<v, c, o>>) = 3 /\ <<v, c, o>>[1] = v /\ <<v, c, o>>[2] = c
          /\ <<v, c, o>>[3] = o /\ DOMAIN <<v, c, o>> = 1 .. 3
      <4> HIDE DEF c, o, v
      <4> QED OBVIOUS
    <3> QED BY <3>1, <3>2
  <2> HIDE DEF stages
  <2>4. /\ n \in DOMAIN stages /\ led'[j] = stages[n]
        /\ \A k \in Jobs : k # j => led'[k] = led[k]
        /\ (~wOk => n = 1 /\ ~wOk') /\ (n # Len(stages) => ~wOk')
    <3>1. stages \in Views /\ n \in Reach(stages) /\ Commit(j, stages, n)
      BY <2>1, <2>3
    <3> HIDE DEF j
    <3> QED BY <1>0, <1>2, <3>1, CommitType
  <2>5. led'[j].mode = led[j].mode
    <3>1. n = 1 \/ n = 2 \/ n = 3
      BY <2>3, <2>4
    <3> QED BY <2>2, <2>3, <2>4, <3>1
  <2>6. CASE n # Len(stages)
    <3>1. mem' = retain /\ UNCHANGED <<holder, gquota>>
      BY <2>1, <2>6 DEF All
    <3>2. j \in Waiting /\ Native(j) => led'[j].term = "none"
      <4>1. j \in Waiting => ~wOk
        BY <1>4 DEF Waiting
      <4>2. ~wOk => led'[j] = led[j]
        BY <2>3, <2>4
      <4> QED BY <1>8, <4>1, <4>2
    <3> HIDE DEF retain, env
    <3> QED BY <1>6, <2>4, <2>5, <2>6, <3>1, <3>2
  <2>7. CASE n = Len(stages)
    <3>1. /\ wOk /\ j \in Running /\ mem' = settle
          /\ holder' = [k \in Keys |->
                       IF k \in KeysOf[j] /\ holder[k] = j THEN 0 ELSE holder[k]]
          /\ gquota' = QuotaGiven
      BY <1>2, <1>4, <2>1, <2>3, <2>4, <2>7 DEF All, Running
    <3>2. /\ \A k \in Jobs : k # j => mem'[k] = mem[k]
          /\ mem'[j].st \in TerminalStates /\ mem'[j].pend = NoEnvelope
      <4> HIDE DEF env
      <4> QED BY <1>0, <1>2, <1>3, <3>1 DEF Record
    <3>3. mem'[j].st # "running" /\ Ended(mem'[j].st) /\ j \notin Waiting'
      BY <3>2 DEF TerminalStates, Ended, Waiting
    <3>4. Running' = Running \ {j}
      BY <1>2, <3>2, <3>3 DEF Running
    <3>5. /\ Cardinality(Running') = Cardinality(Running) - 1
          /\ Cardinality(Running) \in Nat /\ Cardinality(Running') \in Nat
      BY <3>1, <3>4, RunningFinite, FS_RemoveElement, FS_CardinalityType
    <3>6. QuotaBalance'
      <4>1. foreign' = foreign /\ leaked' = leaked /\ foreign \in Nat /\ leaked \in Nat
        BY DEF DrainSettle, IInv, TypeOK
      <4> QED BY <1>0, <3>1, <3>5, <4>1 DEF IInv, QuotaBalance, QuotaGiven
    <3>7. KeysHeld'
      <4> SUFFICES ASSUME NEW i \in Running', NEW k \in KeysOf[i] PROVE holder'[k] = i
        BY DEF KeysHeld
      <4>1. i \in Running /\ i # j /\ i \in Jobs /\ k \in Keys
        BY <3>4, RunningFinite, JobsAssumption
      <4>2. holder[k] = i
        BY <4>1 DEF IInv, KeysHeld
      <4> HIDE DEF env
      <4> QED BY <3>1, <4>1, <4>2
    <3>8. RunningDispatched' /\ RetryNeedsRestart'
      <4>1. RunningDispatched'
        BY <3>2, <3>4, RunningFinite DEF IInv, RunningDispatched
      <4>2. \A k \in Jobs : mem'[k].pend = NoEnvelope
        BY <3>1, <3>2 DEF IInv, RetryNeedsRestart
      <4> QED BY <4>1, <4>2 DEF RetryNeedsRestart
    <3>9. LeasedRuns' /\ NativeOpen'
      BY <2>4, <3>1, <3>2, <3>3 DEF IInv, LeasedRuns, NativeOpen, Waiting, Native
    <3>10. Numbered'
      <4> SUFFICES ASSUME NEW k \in Jobs, k >= next PROVE mem'[k] = Unborn
        BY <1>5 DEF Numbered
      <4>1. mem[k] = Unborn
        BY DEF IInv, Numbered
      <4>2. k # j
        BY <1>3, <4>1 DEF Unborn
      <4> QED BY <3>2, <4>1, <4>2
    <3>11. DownIsEmpty' /\ AdoptFresh'
      BY <1>5 DEF DownIsEmpty, AdoptFresh
    <3> QED BY <3>6, <3>7, <3>8, <3>9, <3>10, <3>11 DEF IInv
  <2> QED BY <2>6, <2>7
<1> QED BY <1>7, <1>8

(* Adoption: the record of a job that had none.                             *)
LEMMA AdoptingInv ==
  ASSUME IInv, TypeOK', NEW j \in Jobs, Adopting(j),
         NEW r, mem' = [mem EXCEPT ![j] = r],
         r.owner = 0, r.pend = NoEnvelope, r.st # "running",
         \A k \in Jobs : k # j => led'[k] = led[k],
         wOk' => wOk,
         r.st \in {"registered", "queued", "awaiting_approval"} =>
           led'[j].mode # "native_deferred"
  PROVE  IInv'
<1> USE DEF quota
<1>1. /\ mem \in [Jobs -> Record] /\ j \in Nat /\ next \in Nat
      /\ ctl \in Control /\ ctl.i = j /\ ctl'.i = j + 1 /\ ctl'.pc = "adopt"
      /\ up = "open" /\ mem[j] = Unborn /\ \A k \in Jobs : k >= j => mem[k] = Unborn
  <2>1. ctl \in Control /\ ctl.pc = "adopt" /\ ctl.i = j /\ j \in Nat
    BY JobsAssumption DEF IInv, TypeOK, Adopting, Jobs
  <2>2. ctl'.i = j + 1 /\ ctl'.pc = "adopt"
    BY <2>1 DEF Adopting, Control
  <2>3. j >= j
    BY <2>1
  <2> QED BY <2>1, <2>2, <2>3 DEF IInv, TypeOK, AdoptFresh
<1>2. /\ \A k \in Jobs : k # j => mem'[k] = mem[k]
      /\ mem'[j] = r
  BY <1>1
<1>3. Running' = Running /\ \A k \in Running : k # j
  <2>1. mem[j].st # "running"
    BY <1>1 DEF Unborn
  <2> QED BY <1>2, <2>1 DEF Running
<1>4. UNCHANGED <<holder, gquota, foreign, leaked, up>>
  BY DEF Adopting
<1>5. KeysHeld' /\ QuotaBalance' /\ RunningDispatched'
  <2>1. RunningDispatched'
    BY <1>2, <1>3, RunningFinite DEF IInv, RunningDispatched
  <2> QED BY <1>3, <1>4, <2>1 DEF IInv, KeysHeld, QuotaBalance
<1>6. RetryNeedsRestart' /\ LeasedRuns'
  BY <1>2 DEF IInv, RetryNeedsRestart, LeasedRuns
<1>7. NativeOpen'
  BY <1>2 DEF IInv, NativeOpen, Waiting, Native
<1>8. Numbered' /\ AdoptFresh'
  <2>1. next' >= next /\ next' >= j + 1
    BY <1>1 DEF Adopting
  <2>2. \A k \in Jobs : k >= j + 1 => mem'[k] = Unborn
    <3>1. \A k \in Jobs : k >= j + 1 => k # j /\ k >= j
      BY <1>1, JobsAssumption DEF Jobs
    <3> QED BY <1>1, <1>2, <3>1
  <2>3. next' \in Nat
    BY DEF TypeOK
  <2>4. \A k \in Jobs : k >= next' => k >= j + 1
    BY <1>1, <2>1, <2>3, JobsAssumption DEF Jobs
  <2> QED BY <1>1, <1>4, <2>2, <2>4 DEF Numbered, AdoptFresh
<1>9. DownIsEmpty'
  BY <1>1, <1>4 DEF DownIsEmpty
<1> QED BY <1>5, <1>6, <1>7, <1>8, <1>9 DEF IInv

(* The views of an adopted chain keep the mode.                             *)
LEMMA AdoptChainMode ==
  ASSUME led \in [Jobs -> View], NEW j \in Jobs, NEW store \in BOOLEAN,
         NEW n \in DOMAIN AdoptChain(j, store)
  PROVE  AdoptChain(j, store)[n].mode = led[j].mode
<1> DEFINE v == led[j]
           chain == AdmissionChain(v, store, FALSE)
           SameMode(s) == s \in Seq(View) /\ \A i \in DOMAIN s : s[i].mode = v.mode
<1>1. v \in View
  OBVIOUS
<1>2. SameMode(chain) /\ SameMode(Tail(chain)) /\ SameMode(Tail(Tail(chain)))
  <2>1. /\ chain \in Seq(View) /\ Tail(chain) \in Seq(View)
        /\ Tail(Tail(chain)) \in Seq(View)
    BY <1>1, ChainSeq
  <2>2. chain # <<>> /\ Tail(chain) # <<>>
    BY <1>1, ChainLength
  <2>3. SameMode(chain)
    BY <1>1, <2>1, ChainMode
  <2> HIDE DEF chain
  <2>4. ASSUME NEW s \in Seq(View), s # <<>>, SameMode(s) PROVE SameMode(Tail(s))
    BY <2>4, HeadTailProperties
  <2> QED BY <2>1, <2>2, <2>3, <2>4
<1>3. AdoptChain(j, store) \in
        {<<v>>, <<v>> \o chain, <<v>> \o Tail(chain), <<v>> \o Tail(Tail(chain))}
  <2> HIDE DEF chain
  <2> QED BY Zenon DEF AdoptChain, chain
<1>4. ASSUME NEW s, SameMode(s) PROVE \A i \in DOMAIN (<<v>> \o s) : (<<v>> \o s)[i].mode = v.mode
  <2>1. <<v>> \in Seq(View) /\ Len(<<v>>) = 1 /\ <<v>>[1] = v
    BY <1>1
  <2>2. /\ Len(<<v>> \o s) = 1 + Len(s) /\ Len(s) \in Nat
        /\ DOMAIN (<<v>> \o s) = 1 .. (1 + Len(s)) /\ DOMAIN s = 1 .. Len(s)
        /\ \A i \in 1 .. (1 + Len(s)) :
             (<<v>> \o s)[i] = IF i <= 1 THEN <<v>>[i] ELSE s[i - 1]
    BY <1>4, <2>1, ConcatProperties
  <2>3. ASSUME NEW i \in DOMAIN (<<v>> \o s) PROVE (<<v>> \o s)[i].mode = v.mode
    <3>1. i = 1 \/ (i > 1 /\ i - 1 \in DOMAIN s)
      BY <2>2
    <3> HIDE DEF v
    <3> QED BY <1>4, <2>1, <2>2, <3>1
  <2> QED BY <2>3
<1>5. \A i \in DOMAIN <<v>> : <<v>>[i].mode = v.mode
  OBVIOUS
<1> HIDE DEF v, chain, SameMode
<1> QED BY <1>2, <1>3, <1>4, <1>5 DEF v

(* Every step of AdoptRecovery preserves the inductive invariant.           *)
LEMMA AdoptInv == IInv /\ TypeOK' /\ AdoptStep => IInv'
<1> SUFFICES ASSUME IInv, TypeOK', AdoptStep PROVE IInv'
  OBVIOUS
<1> USE DEF ledger
<1>0. led \in [Jobs -> View] /\ wOk \in BOOLEAN /\ mem \in [Jobs -> Record]
  BY DEF IInv, TypeOK
<1>1. CASE AdoptSkip \/ AdoptEnd
  BY <1>1, StillSteps
<1>2. ASSUME NEW j \in Jobs, AdoptKnown(j) PROVE IInv'
  <2>1. Adopting(j) /\ led' = led /\ wOk' = wOk /\ led[j] \in View
    BY <1>0, <1>2 DEF AdoptKnown
  <2>2. PICK s \in JobStates \ {"running"}, b \in BOOLEAN :
          /\ mem' = [mem EXCEPT ![j] = [Adopted(j) EXCEPT !.st = s, !.cancelReq = b]]
          /\ led[j].mode = "native_deferred" => s = "unknown"
    BY <1>0, <1>2, AdoptKnownState
  <2> DEFINE r == [Adopted(j) EXCEPT !.st = s, !.cancelReq = b]
  <2>3. r.owner = 0 /\ r.pend = NoEnvelope /\ r.st = s
    BY <1>0, AdoptedType DEF Record
  <2> HIDE DEF r
  <2>4. mem' = [mem EXCEPT ![j] = r]
    BY <2>2 DEF r
  <2> QED BY <2>1, <2>2, <2>3, <2>4, AdoptingInv
<1>3. ASSUME NEW j \in Jobs, AdoptObserved(j) PROVE IInv'
  <2> DEFINE s == IF Disposition(led[j]) = "unknown_hold" THEN "unknown" ELSE "succeeded"
             o == Observed(led[j], s)
             stages == <<led[j], o>>
  <2>1. Adopting(j) /\ led[j] \in View /\ led[j].mode = "job_handle"
    BY <1>0, <1>3, DispositionMode DEF AdoptObserved
  <2>2. PICK n \in Reach(stages) :
          /\ Commit(j, stages, n)
          /\ mem' = [mem EXCEPT ![j] =
                     [Adopted(j) EXCEPT !.st = IF All(stages, n) THEN s ELSE "queued"]]
    BY <1>3 DEF AdoptObserved
  <2>3. Framed(led[j], stages)
    <3>1. s \in TerminalStates \cup {"unknown"}
      BY DEF TerminalStates
    <3> HIDE DEF s
    <3>2. o \in View /\ Frame(led[j], o)
      BY <2>1, <3>1, CountType, LineFrame
    <3> HIDE DEF o
    <3> QED BY <2>1, <3>2, FramedSeqs
  <2>4. s # "running"
    OBVIOUS
  <2> HIDE DEF stages, s
  <2>5. /\ \A k \in Jobs : k # j => led'[k] = led[k]
        /\ led'[j].mode = "job_handle" /\ (wOk' => wOk)
    BY <1>0, <2>1, <2>2, <2>3, FramedCommit
  <2> DEFINE t == IF All(stages, n) THEN s ELSE "queued"
             r == [Adopted(j) EXCEPT !.st = t]
  <2>6. r.owner = 0 /\ r.pend = NoEnvelope /\ r.st = t /\ t # "running"
    <3>1. t # "running"
      BY <2>4
    <3> HIDE DEF t
    <3> QED BY <1>0, <3>1, AdoptedType DEF Record
  <2>7. mem' = [mem EXCEPT ![j] = r]
    BY <2>2
  <2> HIDE DEF r, t
  <2> QED BY <2>1, <2>5, <2>6, <2>7, AdoptingInv
<1>4. ASSUME NEW j \in Jobs, NEW store \in StoreOutcomes, AdoptUnadmitted(j, store)
      PROVE  IInv'
  <2> DEFINE stages == AdoptChain(j, store)
             base == Adopted(j)
  <2>0. store \in BOOLEAN
    BY DEF StoreOutcomes
  <2>1. Adopting(j) /\ led[j] \in View /\ led[j].mode = "job_handle"
    BY <1>0, <1>4, DispositionMode DEF AdoptUnadmitted
  <2>2. PICK n \in Reach(stages) :
          /\ Commit(j, stages, n)
          /\ mem' = [mem EXCEPT ![j] = [base EXCEPT
                       !.admF = base.admC \/ (store /\ stages[n].sel),
                       !.admC = base.admC \/ (store /\ All(stages, n))]]
    BY <1>4 DEF AdoptUnadmitted
  <2>3. stages \in Views /\ \A i \in DOMAIN stages : stages[i].mode = led[j].mode
    BY <1>0, <2>0, AdoptChainType, AdoptChainMode
  <2> HIDE DEF stages
  <2>4. /\ \A k \in Jobs : k # j => led'[k] = led[k]
        /\ led'[j].mode = "job_handle" /\ (wOk' => wOk)
    <3>1. /\ n \in DOMAIN stages /\ led'[j] = stages[n] /\ (wOk' => wOk)
          /\ \A k \in Jobs : k # j => led'[k] = led[k]
      BY <1>0, <2>2, <2>3, CommitType
    <3> QED BY <2>1, <2>3, <3>1
  <2> DEFINE r == [base EXCEPT
                       !.admF = base.admC \/ (store /\ stages[n].sel),
                       !.admC = base.admC \/ (store /\ All(stages, n))]
  <2>5. base \in Record /\ base.owner = 0 /\ base.pend = NoEnvelope /\ base.st # "running"
    BY <1>0, AdoptedType
  <2>6. r.owner = 0 /\ r.pend = NoEnvelope /\ r.st # "running"
    <3> HIDE DEF base
    <3> QED BY <2>5 DEF Record
  <2>7. mem' = [mem EXCEPT ![j] = r]
    BY <2>2
  <2> HIDE DEF r
  <2> QED BY <2>1, <2>4, <2>6, <2>7, AdoptingInv
<1> QED BY <1>1, <1>2, <1>3, <1>4 DEF AdoptStep

(* Ends of the coordinator leave no record and no running job; other        *)
(* sessions move the quota and their share of it together.                  *)
LEMMA LifecycleInv ==
  ASSUME IInv, TypeOK', Lifecycle \/ Close \/ Others
  PROVE  IInv'
<1> USE DEF ledger, memory, quota, posts, bounds, ghosts
<1>0. /\ mem \in [Jobs -> Record] /\ gquota \in Nat /\ foreign \in Nat /\ leaked \in Nat
      /\ Cardinality(Running) \in Nat
  BY RunningFinite, FS_CardinalityType DEF IInv, TypeOK
<1>1. ASSUME Forget, (gquota' = 0 /\ foreign' = 0 /\ leaked' = 0)
                       \/ (GlobalLimit > 0 => gquota' = foreign' + leaked')
      PROVE  IInv'
  <2>1. \A j \in Jobs : mem'[j] = Unborn
    BY <1>1 DEF Forget
  <2>2. Running' = {} /\ Waiting' = {}
    BY <2>1 DEF Running, Waiting, Unborn
  <2>3. Cardinality(Running') = 0
    BY <2>2, FS_EmptySet
  <2>4. QuotaBalance'
    <3>1. gquota' \in Nat /\ foreign' \in Nat /\ leaked' \in Nat
      BY DEF TypeOK
    <3>2. GlobalLimit > 0 => gquota' = foreign' + leaked'
      BY <1>1
    <3>3. foreign' + leaked' + Cardinality(Running') = foreign' + leaked'
      BY <2>3, <3>1
    <3> QED BY <3>2, <3>3 DEF QuotaBalance
  <2>5. KeysHeld' /\ RunningDispatched' /\ NativeOpen'
    BY <2>2 DEF KeysHeld, RunningDispatched, NativeOpen
  <2>6. Numbered' /\ DownIsEmpty'
    BY <2>1 DEF Numbered, DownIsEmpty
  <2>7. AdoptFresh'
    BY <1>1 DEF AdoptFresh, Forget, Idle
  <2>8. LeasedRuns' /\ RetryNeedsRestart'
    BY <2>1 DEF LeasedRuns, RetryNeedsRestart, Unborn
  <2> QED BY <2>4, <2>5, <2>6, <2>7, <2>8 DEF IInv
<1>2. CASE Crash
  BY <1>1, <1>2 DEF Crash
<1>3. CASE Destroy
  <2>1. /\ gquota' = gquota /\ foreign' = foreign
        /\ leaked' = IF GlobalLimit = 0 THEN 0 ELSE leaked + Cardinality(Running)
    BY <1>3 DEF Destroy
  <2>2. GlobalLimit > 0 => gquota' = foreign' + leaked'
    BY <1>0, <2>1, JobsAssumption DEF IInv, QuotaBalance
  <2> QED BY <1>1, <1>3, <2>2 DEF Destroy
<1>4. CASE Restart
  <2>1. /\ \A j \in Jobs : mem[j] = Unborn /\ mem'[j] = Unborn
        /\ UNCHANGED <<mem, led, holder, gquota, foreign, leaked>>
        /\ up' = "open"
    BY <1>4 DEF Restart, IInv, DownIsEmpty
  <2>2. KeysHeld' /\ RunningDispatched' /\ NativeOpen' /\ QuotaBalance'
    BY <2>1 DEF IInv, KeysHeld, RunningDispatched, NativeOpen, Waiting, Native, QuotaBalance, Running
  <2>3. Numbered' /\ DownIsEmpty' /\ AdoptFresh'
    BY <2>1 DEF Numbered, DownIsEmpty, AdoptFresh
  <2>4. LeasedRuns' /\ RetryNeedsRestart'
    BY <2>1 DEF LeasedRuns, RetryNeedsRestart, Unborn
  <2> QED BY <2>2, <2>3, <2>4 DEF IInv
<1>5. CASE Close
  <2>1. /\ UNCHANGED <<led, wOk, holder, gquota, foreign, leaked, ctl, next>>
        /\ up' = "closing" /\ ctl.pc = "idle"
        /\ mem' = [j \in Jobs |-> IF mem[j].st \in {"running", "queued"}
                                  THEN [mem[j] EXCEPT !.flag = TRUE] ELSE mem[j]]
    BY <1>5 DEF Close, Calls, Idle
  <2>2. ASSUME NEW j \in Jobs
        PROVE  /\ mem'[j].st = mem[j].st /\ mem'[j].owner = mem[j].owner
               /\ mem'[j].pend = mem[j].pend /\ mem'[j].dispatched = mem[j].dispatched
               /\ mem[j].st = "none" => mem'[j] = mem[j]
    <3>1. mem[j] \in Record
      BY <1>0
    <3>2. CASE mem[j].st \in {"running", "queued"}
      <4>1. mem'[j] = [mem[j] EXCEPT !.flag = TRUE]
        BY <2>1, <3>2
      <4> QED BY <3>1, <3>2, <4>1 DEF Record
    <3>3. CASE mem[j].st \notin {"running", "queued"}
      BY <2>1, <3>3
    <3> QED BY <3>2, <3>3
  <2>3. Running' = Running /\ Waiting' = Waiting
    BY <2>1, <2>2 DEF Running, Waiting, Native
  <2>4. KeysHeld' /\ QuotaBalance'
    <3>1. KeysHeld'
      BY <2>1, <2>3 DEF IInv, KeysHeld
    <3>2. Cardinality(Running') = Cardinality(Running)
      BY <2>3
    <3> QED BY <2>1, <3>1, <3>2 DEF IInv, QuotaBalance
  <2>5. RunningDispatched'
    <3> SUFFICES ASSUME NEW j \in Running' PROVE mem'[j].dispatched
      BY DEF RunningDispatched
    <3>1. j \in Running /\ j \in Jobs
      BY <2>3 DEF Running
    <3> QED BY <2>2, <3>1 DEF IInv, RunningDispatched
  <2>6. NativeOpen'
    BY <2>1, <2>2, <2>3 DEF IInv, NativeOpen, Waiting, Native
  <2>7. LeasedRuns' /\ RetryNeedsRestart'
    <3>1. LeasedRuns'
      <4> SUFFICES ASSUME wOk, NEW j \in Jobs, mem'[j].owner # 0, ~Ended(mem'[j].st)
                   PROVE  mem'[j].st = "running" /\ led[j].term = "none"
        BY <2>1 DEF LeasedRuns
      <4> QED BY <2>2 DEF IInv, LeasedRuns
    <3>2. RetryNeedsRestart'
      BY <2>1, <2>2 DEF IInv, RetryNeedsRestart
    <3> QED BY <3>1, <3>2
  <2>8. Numbered'
    <3> SUFFICES ASSUME NEW j \in Jobs, j >= next PROVE mem'[j] = Unborn
      BY <2>1 DEF Numbered
    <3>1. mem[j] = Unborn
      BY DEF IInv, Numbered
    <3> QED BY <2>2, <3>1 DEF Unborn
  <2>9. DownIsEmpty' /\ AdoptFresh'
    BY <2>1 DEF DownIsEmpty, AdoptFresh
  <2> QED BY <2>4, <2>5, <2>6, <2>7, <2>8, <2>9 DEF IInv
<1>6. CASE Others
  <2>1. /\ UNCHANGED <<mem, led, wOk, holder, leaked, ctl, up, next>>
        /\ \/ gquota' = gquota + 1 /\ foreign' = foreign + 1
           \/ foreign > 0 /\ gquota' = QuotaGiven /\ foreign' = foreign - 1
    BY <1>6 DEF Others, OtherTakes, OtherGives
  <2>2. Running' = Running
    BY <2>1 DEF Running
  <2>3. QuotaBalance'
    BY <1>0, <2>1, <2>2 DEF IInv, QuotaBalance, QuotaGiven
  <2>4. KeysHeld' /\ Numbered' /\ DownIsEmpty' /\ AdoptFresh' /\ RetryNeedsRestart'
    BY <2>1, <2>2 DEF IInv, KeysHeld, Numbered, DownIsEmpty, AdoptFresh, RetryNeedsRestart
  <2>5. LeasedRuns' /\ NativeOpen' /\ RunningDispatched'
    BY <2>1, <2>2 DEF IInv, LeasedRuns, NativeOpen, RunningDispatched, Waiting, Native
  <2> QED BY <2>3, <2>4, <2>5 DEF IInv
<1> QED BY <1>2, <1>3, <1>4, <1>5, <1>6 DEF Lifecycle

(* It holds when the first coordinator starts.                              *)
LEMMA InitInv == Init => IInv
<1> SUFFICES ASSUME Init PROVE IInv
  OBVIOUS
<1>1. TypeOK
  BY TypeInit
<1>2. \A j \in Jobs : mem[j] = Unborn
  BY DEF Init
<1>3. Running = {} /\ Waiting = {}
  BY <1>2 DEF Running, Waiting, Unborn
<1>4. QuotaBalance
  BY <1>3, FS_EmptySet DEF Init, QuotaBalance
<1>5. KeysHeld /\ Numbered /\ DownIsEmpty /\ AdoptFresh /\ NativeOpen /\ RunningDispatched
  BY <1>2, <1>3 DEF Init, Idle, KeysHeld, Numbered, DownIsEmpty, AdoptFresh, NativeOpen,
                    RunningDispatched
<1>6. LeasedRuns /\ RetryNeedsRestart
  BY <1>2 DEF LeasedRuns, RetryNeedsRestart, Unborn
<1> QED BY <1>1, <1>4, <1>5, <1>6 DEF IInv

(* Every step of the coordinator, its workers, a crash, a restart and the   *)
(* other sessions preserves it.                                             *)
LEMMA NextInv == IInv /\ TypeOK' /\ [Next]_vars => IInv'
<1> SUFFICES ASSUME IInv, TypeOK', [Next]_vars PROVE IInv'
  OBVIOUS
<1>1. CASE UNCHANGED vars
  <2>1. ctl'.i >= ctl.i
    BY <1>1 DEF vars, IInv, TypeOK, Control
  <2> QED BY <1>1, <2>1, StillStep DEF vars, ledger, memory, quota
<1>2. CASE StartDenied
  BY <1>2, StartDeniedInv
<1>3. CASE Start
  <2>1. PICK kind \in Kinds, ask \in BOOLEAN, store \in StoreOutcomes :
          StartJob(kind, ask, store)
    BY <1>3 DEF Start
  <2>2. store \in BOOLEAN
    BY DEF StoreOutcomes
  <2> QED BY <2>1, <2>2, StartInv
<1>4. ASSUME NEW j \in Jobs,
             \/ CompleteAdmission(j) \/ GrantApproval(j) \/ CancelJob(j)
             \/ FallBackInline(j) \/ Compact(j) \/ DeadlinePassed(j)
      PROVE IInv'
  BY <1>4, QuietCalls
<1>5. CASE \/ Work \/ PumpBegin
           \/ \E j \in Jobs, e \in 1..2, out \in Outcomes : ForgeEnvelope(j, e, out)
  BY <1>5, StillSteps
<1>6. CASE PumpStep
  BY <1>6, StillSteps, DrainSettleInv DEF PumpStep
<1>7. CASE ScanStep
  BY <1>7, StillSteps, ScanCancelledInv, ScanDeniedInv, ScanDispatchInv, ScanDispatchFailsInv
     DEF ScanStep
<1>8. CASE Lifecycle \/ Close \/ Others
  BY <1>8, LifecycleInv
<1>9. CASE AdoptStep
  BY <1>9, AdoptInv
<1> QED BY <1>1, <1>2, <1>3, <1>4, <1>5, <1>6, <1>7, <1>8, <1>9 DEF Next, Interface, Deadline

(* The inductive invariant holds in every reachable state.                  *)
THEOREM Inductive == Spec => []IInv
<1>1. Spec => []TypeOK
  BY TypeCorrect
<1>2. Init => IInv
  BY InitInv
<1>3. IInv /\ TypeOK' /\ [Next]_vars => IInv'
  BY NextInv
<1> QED BY <1>1, <1>2, <1>3, PTL DEF Spec

(* No two running jobs share a resource key: DispatchJobLocked takes a key  *)
(* only from nobody or from the job itself, and every way out of running    *)
(* gives back only keys the job holds.                                      *)
THEOREM KeysCorrect == Spec => []KeysExclusive
<1>1. IInv => KeysExclusive
  <2> SUFFICES ASSUME IInv, NEW i \in Running, NEW j \in Running,
                      NEW k \in KeysOf[i], k \in KeysOf[j]
               PROVE  i = j
    BY DEF KeysExclusive
  <2> QED BY DEF IInv, KeysHeld
<1> QED BY <1>1, Inductive, PTL

(* GlobalRunningQuota counts what runs: across every early return of        *)
(* DispatchJobLocked, every settlement, a failing ledger, crashes, restarts *)
(* and a destructor that gives up, no slot is lost or given back twice.     *)
THEOREM QuotaCorrect == Spec => []QuotaBalance
<1>1. IInv => QuotaBalance
  BY DEF IInv
<1> QED BY <1>1, Inductive, PTL

(* A completion is only kept for a retry when the ledger's writer is        *)
(* broken: PumpLocked's retry in the same process never finds a healthy     *)
(* ledger.                                                                  *)
THEOREM RetryCorrect == Spec => []RetryNeedsRestart
<1>1. IInv => RetryNeedsRestart
  BY DEF IInv
<1> QED BY <1>1, Inductive, PTL

(* A terminal state is final while the coordinator lives.                   *)
LEMMA FinalStep ==
  ASSUME IInv, Next, NEW j \in Jobs, Ended(mem[j].st), up' # "down"
  PROVE  mem'[j].st = mem[j].st
<1> USE DEF ledger, memory, quota, posts, bounds, ghosts
<1>1. mem \in [Jobs -> Record] /\ mem[j] # Unborn
  BY DEF IInv, TypeOK, Ended, TerminalStates, Unborn
<1>2. CASE Start
  <2>1. PICK kind \in Kinds, ask \in BOOLEAN, store \in StoreOutcomes :
          StartJob(kind, ask, store)
    BY <1>2 DEF Start
  <2>2. next \in Jobs /\ mem[next] = Unborn
    BY <2>1, JobsAssumption DEF StartJob, CanStart, IInv, Numbered, Jobs
  <2>3. mem' = mem \/ \E r : mem' = [mem EXCEPT ![next] = r]
    BY <2>1 DEF StartJob
  <2> QED BY <1>1, <2>2, <2>3
<1>3. ASSUME NEW k \in Jobs, CompleteAdmission(k) \/ DeadlinePassed(k)
      PROVE  mem'[j].st = mem[j].st
  <2>1. mem[k] \in Record
    BY <1>1
  <2>2. CASE CompleteAdmission(k)
    <3>1. PICK b \in BOOLEAN : mem' = [mem EXCEPT ![k].admC = b]
      BY <2>2 DEF CompleteAdmission, All
    <3> QED BY <1>1, <2>1, <3>1 DEF Record
  <2>3. CASE DeadlinePassed(k)
    <3>1. mem' \in {mem, [mem EXCEPT ![k].cancelReq = TRUE, ![k].flag = TRUE]}
      BY <2>3 DEF DeadlinePassed
    <3> QED BY <1>1, <2>1, <3>1 DEF Record
  <2> QED BY <1>3, <2>2, <2>3
<1>4. ASSUME NEW k \in Jobs, GrantApproval(k) PROVE mem'[j].st = mem[j].st
  BY <1>1, <1>4 DEF GrantApproval, Ended, TerminalStates
<1>5. ASSUME NEW k \in Jobs, CancelEffects(k), Cancellable(k) PROVE mem'[j].st = mem[j].st
  <2>1. k # j
    BY <1>5 DEF Cancellable
  <2> QED BY <1>1, <1>5, <2>1 DEF CancelEffects
<1>6. ASSUME NEW k \in Jobs, CancelJob(k) \/ FallBackInline(k) PROVE mem'[j].st = mem[j].st
  BY <1>5, <1>6 DEF CancelJob, FallBackInline
<1>7. CASE Close
  BY <1>1, <1>7 DEF Close, Record
<1>8. CASE DrainSettle
  <2>1. Arrived.job # j /\ \E r : mem' = [mem EXCEPT ![Arrived.job] = r]
    BY <1>8 DEF DrainSettle, Acceptable
  <2> QED BY <1>1, <2>1
<1>9. CASE ScanCancelled \/ ScanDenied \/ ScanDispatch \/ ScanDispatchFails
  <2>1. Here # j
    BY <1>9 DEF ScanCancelled, ScanDenied, ScanDispatch, ScanDispatchFails, CanDispatch, AtEntry,
                Ended, TerminalStates
  <2>2. mem' = mem \/ \E r : mem' = [mem EXCEPT ![Here] = r]
    BY <1>9 DEF ScanCancelled, ScanDenied, ScanDispatch, ScanDispatchFails
  <2> QED BY <1>1, <2>1, <2>2
<1>10. ASSUME NEW k \in Jobs, Adopting(k), NEW r, mem' = [mem EXCEPT ![k] = r]
       PROVE  mem'[j].st = mem[j].st
  <2>1. mem[k] = Unborn
    BY <1>10, JobsAssumption DEF Adopting, IInv, AdoptFresh, Jobs
  <2> QED BY <1>1, <1>10, <2>1
<1>11. CASE AdoptStep
  <2>1. ASSUME NEW k \in Jobs, AdoptKnown(k) PROVE mem'[j].st = mem[j].st
    BY <1>10, <2>1 DEF AdoptKnown
  <2>2. ASSUME NEW k \in Jobs, AdoptObserved(k) PROVE mem'[j].st = mem[j].st
    BY <1>10, <2>2 DEF AdoptObserved
  <2>3. ASSUME NEW k \in Jobs, NEW store \in StoreOutcomes, AdoptUnadmitted(k, store)
        PROVE  mem'[j].st = mem[j].st
    BY <1>10, <2>3 DEF AdoptUnadmitted
  <2> QED BY <1>11, <2>1, <2>2, <2>3 DEF AdoptStep, AdoptSkip, AdoptEnd
<1>12. CASE Lifecycle
  BY <1>12 DEF Lifecycle, Crash, Destroy, Restart, Forget
<1>13. ASSUME UNCHANGED mem PROVE mem'[j].st = mem[j].st
  BY <1>13
<1>14. CASE PumpStep
  BY <1>8, <1>13, <1>14 DEF PumpStep, RetryKept, TakeEnvelopes, DrainDiscard, DrainEnd
<1>15. CASE ScanStep
  BY <1>9, <1>13, <1>15 DEF ScanStep, ScanEnd, ScanDrop, ScanNoRoom
<1>16. CASE Interface
  BY <1>2, <1>3, <1>4, <1>6, <1>7, <1>13, <1>16 DEF Interface, StartDenied, Compact, ForgeEnvelope
<1>17. CASE Work \/ Others \/ PumpBegin \/ Deadline
  BY <1>3, <1>13, <1>17 DEF Work, WorkerEnds, Others, OtherTakes, OtherGives, PumpBegin, Deadline
<1> QED BY <1>11, <1>12, <1>14, <1>15, <1>16, <1>17 DEF Next

(* A terminal state is final while the coordinator lives: late, stale,      *)
(* repeated and forged envelopes, cancellations, scans and adoptions never  *)
(* move a job that has ended.                                               *)
THEOREM TerminalCorrect == Spec => TerminalIsFinal
<1>1. IInv /\ [Next]_vars =>
        [\A j \in Jobs : Ended(mem[j].st) /\ up' # "down" => mem'[j].st = mem[j].st]_vars
  BY FinalStep
<1> QED BY <1>1, Inductive, PTL DEF Spec, TerminalIsFinal
=============================================================================
