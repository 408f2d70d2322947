---------------------------- MODULE UpdaterProofs ----------------------------
(* Theorems about Updater, for any number of versions, transactions, deaths   *)
(* and faults.                                                                *)
EXTENDS Updater, SequenceTheorems, WellFoundedInduction, TLAPS

-----------------------------------------------------------------------------
(* The inductive invariant.                                                   *)

\* From the moment a transaction is taken up to its end; before the swap; on
\* the way back; between the swap and the root EXE.
Early == {"look", "fetch", "verified", "unpack", "precheck", "prepare"}
Poised == {"ready", "place", "swap"}
Back == {"back", "restore", "restored", "drop", "backed"}
Working == Early \cup Poised \cup Back \cup {"yield", "install", "probe", "book", "commit", "turn", "turned"}

\* The engine works on a transaction of the version it is about; a collection
\* after an update finds it committed.
Aimed ==
  /\ eng.at \in Working => eng.t # 0 /\ Txn.target = eng.v
  /\ At("find") => /\ eng.v \in Versions
                   /\ Len(txns) < MaxTxns \/ (Open # {} /\ txns[First].target = eng.v)
  /\ eng.at \in {"list", "gc"} /\ eng.t # 0 =>
       Txn.target = eng.v /\ pointer.current = eng.v /\ Txn.state = "committed"

\* What is collected is neither of the pointer's versions; what is about to be
\* pointed to is whole.
Collected ==
  /\ At("gc") => pointer.current \notin eng.todo /\ pointer.previous \notin eng.todo
  /\ At("swap") => dir[eng.v] = "whole"

\* The pointer at each place, and what the engine remembers of it.
Pointed ==
  /\ eng.at \in Poised => /\ eng.old = pointer.current /\ Txn.back = pointer.current
                          /\ eng.flat = IsFlat
  /\ eng.at \in {"yield", "install", "probe", "book", "commit", "back", "turned"} =>
       pointer.current = eng.v
  /\ At("turn") => eng.v = pointer.previous /\ eng.old = pointer.current
  /\ eng.at \in {"place", "swap", "yield", "install"} => Txn.state = "activating"

\* The pointer and the root part only on their way, unless a call left them so.
Joined ==
  ~halved /\ eng.at \notin Back \cup {"yield", "install"} => ~Split

Brought == Ended(0) => pointer.current = txns[exit.t].target

UpdaterInv ==
  /\ TypeOK /\ PointerIsWhole /\ Aimed /\ Collected /\ Pointed /\ Joined /\ Brought

\* What the way back needs, of a transaction that was not taken up after its
\* own swap: until the swap what started before still starts; then it is the
\* version on the books, or the EXE put aside.
Intact == eng.t \notin cut /\ ~halved

Old == before[eng.t]

Remembered ==
  /\ eng.at \in Early \cup Poised /\ Intact => Starts = Old
  /\ eng.at \in Early /\ eng.t \notin cut /\ pointer.current = eng.v =>
       Txn.state \notin {"activating", "healthy"}
  /\ eng.at \in {"yield", "install", "probe"} \cup Back /\ Intact /\ Txn.back # NoVersion => Old = Txn.back
  /\ eng.at \in {"yield", "install", "probe"} \cup Back /\ Intact /\ Txn.back = NoVersion =>
       Old \in {"flat", "launcher"}
  /\ At("yield") /\ Intact /\ Txn.back = NoVersion => root = Old
  /\ eng.at \in {"install", "probe", "back", "restore", "restored"} /\ Intact /\ Txn.back = NoVersion =>
       Txn.legacy = Old
  /\ At("drop") /\ Intact /\ Txn.back = NoVersion /\ ~eng.bad => root = Old
  /\ eng.at \in {"restore", "restored", "drop"} /\ Txn.back # NoVersion => eng.t \in shaken
  /\ At("backed") /\ Intact /\ eng.t \notin shaken /\ ~eng.bad =>
       IF Txn.back = NoVersion THEN pointer = NoPointer /\ root = Old
                               ELSE pointer.current = Txn.back

KeepInv == UpdaterInv /\ Remembered /\ FailedKeepsOld

-----------------------------------------------------------------------------
(* Types.                                                                     *)

\* What a change of one entry of the books leaves.
Edit(t, u) ==
  /\ txns' \in Seq(Transaction) /\ Len(txns') = Len(txns) /\ DOMAIN txns' = DOMAIN txns
  /\ txns'[t] = u
  /\ \A k \in DOMAIN txns : k # t => txns'[k] = txns[k]

LEMMA Edited ==
  ASSUME TypeOK, NEW t \in 1..Len(txns), NEW u \in Transaction, txns' = [txns EXCEPT ![t] = u]
  PROVE  Edit(t, u)
BY ExceptSeq DEF TypeOK, Edit

\* The transaction at hand is on the books.
LEMMA AtHand ==
  ASSUME TypeOK, eng.t # 0
  PROVE  eng.t \in 1..Len(txns) /\ eng.t \in DOMAIN txns /\ Txn \in Transaction
<1>1. eng.t \in 1..Len(txns) /\ DOMAIN txns = 1..Len(txns)
  BY DEF TypeOK
<1> QED BY <1>1 DEF TypeOK, Txn

\* A transition is one, and so is the end of a transaction with its staging.
LEMMA InStateEdits ==
  ASSUME TypeOK, eng.t # 0, NEW s \in States, InState(s)
  PROVE  Edit(eng.t, [Txn EXCEPT !.state = s]) /\ [Txn EXCEPT !.state = s] \in Transaction
<1>1. [Txn EXCEPT !.state = s] \in Transaction
  BY AtHand DEF Transaction
<1> QED BY <1>1, AtHand, Edited DEF InState, Txn

LEMMA EndsEdits ==
  ASSUME TypeOK, NEW t \in 1..Len(txns), NEW s \in States, Ends(t, s)
  PROVE  Edit(t, [txns[t] EXCEPT !.state = s, !.archive = "none"])
<1> DEFINE u == [txns[t] EXCEPT !.state = s, !.archive = "none"]
<1>1. txns[t] \in Transaction
  BY DEF TypeOK
<1>2. u \in Transaction
  BY <1>1 DEF Transaction
<1>3. txns' = [txns EXCEPT ![t] = u]
  BY <1>1 DEF Ends, Transaction, TypeOK
<1> QED BY <1>2, <1>3, Edited

\* So are the other fields the engine writes.
LEMMA ArchiveEdits ==
  ASSUME TypeOK, eng.t # 0, NEW a \in {"none", "torn", "whole"}, txns' = [txns EXCEPT ![eng.t].archive = a]
  PROVE  Edit(eng.t, [Txn EXCEPT !.archive = a])
<1>1. [Txn EXCEPT !.archive = a] \in Transaction
  BY AtHand DEF Transaction
<1> QED BY <1>1, AtHand, Edited DEF Txn

LEMMA LegacyEdits ==
  ASSUME TypeOK, eng.t # 0, NEW r \in {"none", "flat", "launcher", "torn"},
         txns' = [txns EXCEPT ![eng.t].legacy = r]
  PROVE  Edit(eng.t, [Txn EXCEPT !.legacy = r])
<1>1. [Txn EXCEPT !.legacy = r] \in Transaction
  BY AtHand DEF Transaction
<1> QED BY <1>1, AtHand, Edited DEF Txn

LEMMA PrepareEdits ==
  ASSUME TypeOK, eng.t # 0, NEW b \in Versions \cup {NoVersion},
         txns' = [txns EXCEPT ![eng.t].state = "waiting", ![eng.t].back = b]
  PROVE  Edit(eng.t, [Txn EXCEPT !.state = "waiting", !.back = b])
<1> DEFINE u == [Txn EXCEPT !.state = "waiting", !.back = b]
<1>1. u \in Transaction
  BY AtHand DEF Transaction, States
<1>2. txns' = [txns EXCEPT ![eng.t] = u]
  BY AtHand DEF Txn, Transaction, TypeOK
<1> QED BY <1>1, <1>2, AtHand, Edited

\* The two ways a call fails.
LEMMA FailFacts ==
  ASSUME TypeOK, eng.t # 0, Fail
  PROVE  /\ \/ txns' = txns \/ Edit(eng.t, [Txn EXCEPT !.state = "failed", !.archive = "none"])
         /\ \/ /\ Return(1)
               /\ pointer.current # eng.v \/ Txn.state \notin {"activating", "healthy"}
            \/ /\ Goto("back") /\ txns' = txns /\ exit' = exit
               /\ pointer.current = eng.v /\ Txn.state \in {"activating", "healthy"}
<1>1. eng.t \in 1..Len(txns)
  BY AtHand
<1>2. CASE Txn.state \in Settled
  BY <1>2 DEF Fail, Settled, Over
<1>3. CASE Txn.state \notin Settled /\ pointer.current = eng.v /\ Txn.state \in {"activating", "healthy"}
  BY <1>3 DEF Fail
<1>4. CASE /\ Txn.state \notin Settled
           /\ ~(pointer.current = eng.v /\ Txn.state \in {"activating", "healthy"})
  <2>1. Ends(eng.t, "failed") /\ Return(1)
    BY <1>4 DEF Fail
  <2> QED BY <1>1, <1>4, <2>1, EndsEdits DEF States, Txn
<1> QED BY <1>2, <1>3, <1>4

\* A set of numbers has a least one, so FindResumable's first is one of the open.
LEMMA Least ==
  ASSUME NEW S \in SUBSET Nat, S # {}
  PROVE  \E m \in S : \A k \in S : m <= k
<1> DEFINE R == OpToRel(<, Nat)
<1>1. IsWellFoundedOn(R, Nat)
  BY NatLessThanWellFounded
<1>2. ASSUME NEW x \in Nat, NEW y \in Nat, x < y PROVE <<x, y>> \in R
  BY <1>2 DEF OpToRel
<1> HIDE DEF R
<1>3. PICK m \in S : \A y \in S : ~ (<<y, m>> \in R)
  BY <1>1, WFMin
<1>4. ASSUME NEW k \in S PROVE m <= k
  <2>1. m \in Nat /\ k \in Nat
    OBVIOUS
  <2>2. ~(k < m)
    BY <1>2, <1>3, <2>1
  <2> QED BY <2>1, <2>2
<1> QED BY <1>3, <1>4

LEMMA FirstIsOpen ==
  ASSUME TypeOK, Open # {}
  PROVE  First \in Open /\ First \in 1..Len(txns)
<1>1. Len(txns) \in Nat /\ DOMAIN txns = 1..Len(txns)
  BY LenProperties DEF TypeOK
<1>2. Open \subseteq 1..Len(txns) /\ Open \in SUBSET Nat
  BY <1>1 DEF Open
<1>3. \E m \in Open : \A k \in Open : m <= k
  BY <1>2, Least
<1> QED BY <1>2, <1>3 DEF First

\* The engine's record, and what a call left, as far as the books keep their length.
EngType == [at : Places, v : Versions \cup {NoVersion}, t : 0..Len(txns), flat : BOOLEAN,
            old : Versions \cup {NoVersion}, todo : SUBSET Versions, bad : BOOLEAN]

BooksType == /\ txns \in Seq(Transaction) /\ Len(txns) <= MaxTxns
             /\ before \in Seq(Versions \cup {"nothing", "flat", "launcher"}) /\ Len(before) = Len(txns)
             /\ cut \subseteq DOMAIN txns /\ shaken \subseteq DOMAIN txns

EndType == eng \in EngType /\ exit \in [code : 0..3, t : 0..Len(txns)]

DiskType ==
  /\ root \in {"flat", "launcher", "torn", "none"}
  /\ pointer \in [current : Versions, previous : Versions \cup {NoVersion}] \cup {NoPointer}
  /\ dir \in [Versions -> {"none", "whole", "partial"}]
  /\ books \in BOOLEAN /\ halved \in BOOLEAN

CountType == deaths \in 0..MaxDeaths /\ faults \in 0..MaxFaults

LEMMA TypeParts == TypeOK <=> DiskType /\ BooksType /\ EndType /\ CountType
BY DEF TypeOK, DiskType, BooksType, EndType, EngType, CountType

\* Moves of the engine.
LEMMA Moves ==
  ASSUME TypeOK
  PROVE  /\ \A s \in Places : Goto(s) => eng' \in EngType
         /\ \A c \in 0..3 : Return(c) => eng' \in EngType /\ exit' \in [code : 0..3, t : 0..Len(txns)]
         /\ Idle \in EngType /\ NoExit \in [code : 0..3, t : 0..Len(txns)]
<1>1. Len(txns) \in Nat /\ 0 \in 0..Len(txns) /\ eng.t \in 0..Len(txns)
  BY LenProperties DEF TypeOK
<1>2. Idle \in EngType /\ NoExit \in [code : 0..3, t : 0..Len(txns)]
  BY <1>1 DEF Idle, NoExit, EngType, Places
<1>3. ASSUME NEW s \in Places, Goto(s) PROVE eng' \in EngType
  BY <1>3 DEF Goto, TypeOK, EngType
<1>4. ASSUME NEW c \in 0..3, Return(c) PROVE eng' \in EngType /\ exit' \in [code : 0..3, t : 0..Len(txns)]
  BY <1>1, <1>2, <1>4 DEF Return
<1> QED BY <1>2, <1>3, <1>4

\* The books keep their length.
LEMMA SameBooks ==
  ASSUME TypeOK, UNCHANGED before, cut' \subseteq cut \cup DOMAIN txns, shaken' \subseteq shaken \cup DOMAIN txns,
         txns' = txns \/ \E t, u : Edit(t, u)
  PROVE  BooksType' /\ Len(txns') = Len(txns) /\ DOMAIN txns' = DOMAIN txns
BY DEF TypeOK, BooksType, Edit

LEMMA SameEnds ==
  ASSUME Len(txns') = Len(txns), eng' \in EngType, exit' \in [code : 0..3, t : 0..Len(txns)]
  PROVE  EndType'
BY DEF EndType, EngType

\* A fault is counted or none happens.
LEMMA Faults ==
  ASSUME TypeOK
  PROVE  /\ Fault => faults' \in 0..MaxFaults
         /\ NoFault => faults' \in 0..MaxFaults
BY UpdaterAssumption DEF TypeOK, Fault, NoFault

\* What starts is a version, one of the two EXEs or nothing.
LEMMA StartsType ==
  ASSUME TypeOK
  PROVE  Starts \in Versions \cup {"nothing", "flat", "launcher"}
<1>1. pointer # NoPointer => pointer.current \in Versions
  BY DEF TypeOK
<1> QED BY <1>1 DEF Starts, TypeOK

\* What such a step has to keep.
LEMMA StepTypes ==
  ASSUME TypeOK, UNCHANGED before, cut' = cut, shaken' \subseteq shaken \cup DOMAIN txns,
         txns' = txns \/ \E t, u : Edit(t, u),
         eng' \in EngType, exit' \in [code : 0..3, t : 0..Len(txns)],
         DiskType', CountType'
  PROVE  TypeOK'
<1>1. BooksType' /\ Len(txns') = Len(txns)
  BY SameBooks
<1>2. EndType'
  BY <1>1, SameEnds
<1>3. TypeOK' <=> DiskType' /\ BooksType' /\ EndType' /\ CountType'
  BY DEF TypeOK, DiskType, BooksType, EndType, EngType, CountType
<1> QED BY <1>1, <1>2, <1>3

\* Types: a call begins.
LEMMA CallTypes ==
  TypeOK /\ Aimed /\ (UNCHANGED vars \/ (\E v \in Versions : Start(v)) \/ StartGc \/ StartRollback
                     \/ Supersede \/ Resume \/ Create) => TypeOK'
<1> SUFFICES ASSUME TypeOK, Aimed,
                    \/ UNCHANGED vars \/ (\E v \in Versions : Start(v)) \/ StartGc \/ StartRollback
                    \/ Supersede \/ Resume \/ Create
             PROVE  DiskType' /\ BooksType' /\ EndType' /\ CountType'
  <2>1. TypeOK' <=> DiskType' /\ BooksType' /\ EndType' /\ CountType'
    BY DEF TypeOK, DiskType, BooksType, EndType, EngType, CountType
  <2> QED BY <2>1
<1>0. /\ DiskType /\ BooksType /\ EndType /\ CountType
      /\ eng \in EngType /\ eng.t \in Nat /\ Len(txns) \in Nat /\ DOMAIN txns = 1..Len(txns)
  BY TypeParts, LenProperties DEF BooksType, EndType, EngType
<1> USE DEF disk, history
<1>1. CASE UNCHANGED vars
  BY <1>0, <1>1 DEF vars, DiskType, BooksType, EndType, EngType, CountType
<1>2. ASSUME NEW v \in Versions, Start(v) PROVE DiskType' /\ BooksType' /\ EndType' /\ CountType'
  <2>1. eng' \in EngType
    BY <1>2, Moves DEF Start, EngType, Idle, Places
  <2>2. EndType'
    BY <1>2, <2>1, Moves, SameEnds DEF Start
  <2> QED BY <1>0, <1>2, <2>2 DEF Start, DiskType, BooksType, CountType
<1>3. CASE StartGc
  <2>1. eng' \in EngType
    BY <1>3, Moves DEF StartGc, EngType, Idle, Places
  <2>2. EndType'
    BY <1>3, <2>1, Moves, SameEnds DEF StartGc
  <2> QED BY <1>0, <1>3, <2>2 DEF StartGc, DiskType, BooksType, CountType
<1>4. CASE StartRollback
  <2>1. pointer.previous \in Versions
    BY <1>0, <1>4 DEF StartRollback, DiskType, NoPointer
  <2>2. NewTxn("rollback", pointer.previous, "activating") \in Transaction
    BY <2>1 DEF NewTxn, Transaction, States
  <2>3. /\ txns' \in Seq(Transaction) /\ Len(txns') = Len(txns) + 1
        /\ before' \in Seq(Versions \cup {"nothing", "flat", "launcher"}) /\ Len(before') = Len(before) + 1
    BY <1>0, <1>4, <2>2, StartsType, AppendProperties DEF StartRollback, BooksType
  <2>4. BooksType'
    BY <1>0, <1>4, <2>3, UpdaterAssumption DEF StartRollback, BooksType
  <2>5. EndType'
    <3>1. pointer.current \in Versions \cup {NoVersion}
      BY <1>0 DEF DiskType, NoPointer
    <3>2. Len(txns) + 1 \in 0..Len(txns') /\ 0 \in 0..Len(txns')
      BY <1>0, <2>3
    <3>3. /\ eng' = [at |-> "turn", v |-> pointer.previous, t |-> Len(txns) + 1, flat |-> FALSE,
                     old |-> pointer.current, todo |-> {}, bad |-> FALSE]
          /\ exit' = [code |-> 0, t |-> 0]
      BY <1>4 DEF StartRollback, Idle, NoExit
    <3>4. eng' \in EngType'
      BY <2>1, <3>1, <3>2, <3>3 DEF EngType, Places
    <3>5. exit' \in [code : 0..3, t : 0..Len(txns')]
      BY <3>2, <3>3
    <3> QED BY <3>4, <3>5 DEF EndType
  <2> QED BY <1>0, <1>4, <2>4, <2>5 DEF StartRollback, DiskType, CountType
<1>5. CASE Supersede
  <2>1. Edit(First, [txns[First] EXCEPT !.state = "failed", !.archive = "none"])
    BY <1>5, FirstIsOpen, EndsEdits DEF Supersede, States
  <2>2. BooksType' /\ Len(txns') = Len(txns)
    BY <1>5, <2>1, SameBooks DEF Supersede
  <2>3. EndType'
    BY <1>0, <1>5, <2>2, SameEnds DEF Supersede, EndType
  <2> QED BY <1>0, <1>5, <2>2, <2>3 DEF Supersede, DiskType, CountType
<1>6. CASE Resume
  <2>1. First \in 1..Len(txns)
    BY <1>6, FirstIsOpen DEF Resume
  <2>2. eng' \in EngType
    <3>1. eng' = [eng EXCEPT !.at = "look", !.t = First] /\ First \in 0..Len(txns)
      BY <1>0, <1>6, <2>1 DEF Resume
    <3> HIDE DEF First
    <3> QED BY <1>0, <3>1 DEF EngType, Places
  <2>3. EndType'
    BY <1>0, <1>6, <2>2, SameEnds DEF Resume, EndType
  <2>4. BooksType'
    <3>1. CASE pointer.current = eng.v
      BY <1>0, <1>6, <2>1, <3>1 DEF Resume, BooksType
    <3>2. CASE pointer.current # eng.v
      <4>1. before' = [before EXCEPT ![First] = Starts]
        BY <1>6, <3>2 DEF Resume
      <4>2. /\ before' \in Seq(Versions \cup {"nothing", "flat", "launcher"})
            /\ Len(before') = Len(before)
        BY <1>0, <2>1, <4>1, StartsType, ExceptSeq DEF BooksType
      <4> QED BY <1>0, <1>6, <3>2, <4>2 DEF Resume, BooksType
    <3> QED BY <3>1, <3>2
  <2> QED BY <1>0, <1>6, <2>3, <2>4 DEF Resume, DiskType, CountType
<1>7. CASE Create
  <2>1. eng.v \in Versions
    BY <1>7 DEF Create, Aimed, At
  <2>2. NewTxn("update", eng.v, "checking") \in Transaction
    BY <2>1 DEF NewTxn, Transaction, States
  <2>3. Len(txns) < MaxTxns
    BY <1>7 DEF Create, Aimed, At
  <2>4. /\ txns' \in Seq(Transaction) /\ Len(txns') = Len(txns) + 1
        /\ before' \in Seq(Versions \cup {"nothing", "flat", "launcher"}) /\ Len(before') = Len(before) + 1
    BY <1>0, <1>7, <2>2, StartsType, AppendProperties DEF Create, BooksType
  <2>5. BooksType'
    BY <1>0, <1>7, <2>3, <2>4, UpdaterAssumption DEF Create, BooksType
  <2>6. EndType'
    <3>1. Len(txns) + 1 \in 0..Len(txns')
      BY <1>0, <2>4
    <3>2. eng' = [eng EXCEPT !.at = "look", !.t = Len(txns) + 1] /\ exit' = exit
      BY <1>7 DEF Create
    <3>3. eng' \in EngType'
      BY <1>0, <3>1, <3>2 DEF EngType, Places
    <3>4. exit' \in [code : 0..3, t : 0..Len(txns')]
      BY <1>0, <2>4, <3>2 DEF EndType
    <3> QED BY <3>3, <3>4 DEF EndType
  <2> QED BY <1>0, <1>7, <2>5, <2>6 DEF Create, DiskType, CountType
<1> QED BY <1>1, <1>2, <1>3, <1>4, <1>5, <1>6, <1>7

\* Types: an update up to its swap.
LEMMA UpdateTypes ==
  ASSUME TypeOK, Aimed,
         \/ Reuse \/ Preflight \/ Fetch \/ Verified \/ Unpack \/ Precheck \/ Prepare \/ Activating \/ Place
  PROVE  TypeOK'
<1>0. /\ DiskType /\ BooksType /\ EndType /\ CountType
      /\ eng \in EngType /\ exit \in [code : 0..3, t : 0..Len(txns)]
      /\ eng.t # 0 /\ eng.t \in DOMAIN txns
  BY TypeParts, AtHand DEF EndType, Aimed, Working, Early, Poised, At, Reuse, Preflight, Fetch, Verified,
                           Unpack, Precheck, Prepare, Activating, Place
<1> USE DEF disk, history
<1>1. /\ Fail => txns' = txns \/ \E t, u : Edit(t, u)
      /\ Fail => eng' \in EngType /\ exit' \in [code : 0..3, t : 0..Len(txns)]
  <2>1. Fail => txns' = txns \/ \E t, u : Edit(t, u)
    BY <1>0, FailFacts
  <2>2. ASSUME Fail PROVE Return(1) \/ (Goto("back") /\ exit' = exit)
    BY <1>0, <2>2, FailFacts
  <2>3. 1 \in 0..3 /\ "back" \in Places
    BY DEF Places
  <2> QED BY <1>0, <2>1, <2>2, <2>3, Moves
<1>2. \A s \in States : InState(s) => txns' = txns \/ \E t, u : Edit(t, u)
  BY <1>0, InStateEdits
<1>3. CASE Reuse
  <2>1. CASE Fail
    BY <1>0, <1>1, <1>3, <2>1, StepTypes, Faults DEF Reuse, DiskType, CountType
  <2>2. CASE ~Fail
    <3>1. (txns' = txns \/ InState("staged")) /\ Goto("precheck") /\ NoFault /\ exit' = exit
      BY <1>3, <2>2 DEF Reuse, InState
    <3> QED BY <1>0, <1>2, <1>3, <3>1, StepTypes, Faults, Moves DEF Reuse, DiskType, CountType, Places, States
  <2> QED BY <2>1, <2>2
<1>4. CASE Preflight
  <2>1. CASE Fail
    BY <1>0, <1>1, <1>4, <2>1, StepTypes, Faults DEF Preflight, DiskType, CountType
  <2>2. CASE ~Fail
    <3>1. (txns' = txns \/ InState("downloading")) /\ Goto("fetch") /\ NoFault /\ exit' = exit
      BY <1>4, <2>2 DEF Preflight, InState
    <3> QED BY <1>0, <1>2, <1>4, <3>1, StepTypes, Faults, Moves DEF Preflight, DiskType, CountType, Places, States
  <2> QED BY <2>1, <2>2
<1>5. CASE Fetch
  <2>1. CASE Fail
    BY <1>0, <1>1, <1>5, <2>1, StepTypes, Faults DEF Fetch, DiskType, CountType
  <2>2. CASE ~Fail
    <3>1. /\ txns' = txns \/ txns' = [txns EXCEPT ![eng.t].archive = "whole"]
          /\ Goto("verified") /\ NoFault /\ exit' = exit
      BY <1>5, <2>2 DEF Fetch
    <3>2. txns' = txns \/ \E t, u : Edit(t, u)
      BY <1>0, <3>1, ArchiveEdits
    <3> QED BY <1>0, <1>5, <3>1, <3>2, StepTypes, Faults, Moves DEF Fetch, DiskType, CountType, Places
  <2> QED BY <2>1, <2>2
<1>6. CASE Verified
  BY <1>0, <1>2, <1>6, StepTypes, Moves DEF Verified, DiskType, CountType, Places, States
<1>7. CASE Unpack
  <2>1. CASE Fail
    BY <1>0, <1>1, <1>7, <2>1, StepTypes, Faults DEF Unpack, DiskType, CountType
  <2>2. CASE ~Fail
    <3>1. InState("staged") /\ Goto("precheck") /\ NoFault /\ exit' = exit
      BY <1>7, <2>2 DEF Unpack
    <3> QED BY <1>0, <1>2, <1>7, <3>1, StepTypes, Faults, Moves DEF Unpack, DiskType, CountType, Places, States
  <2> QED BY <2>1, <2>2
<1>8. CASE Precheck
  <2>1. CASE Goto("prepare") /\ NoFault /\ UNCHANGED <<txns, exit>>
    BY <1>0, <1>8, <2>1, StepTypes, Faults, Moves DEF Precheck, DiskType, CountType, Places
  <2>2. CASE Fault /\ InState("needs-review") /\ Return(2)
    BY <1>0, <1>2, <1>8, <2>2, StepTypes, Faults, Moves DEF Precheck, DiskType, CountType, States
  <2> QED BY <1>8, <2>1, <2>2 DEF Precheck
<1>9. CASE Prepare
  <2>1. CASE Fail
    BY <1>0, <1>1, <1>9, <2>1, StepTypes, Faults DEF Prepare, DiskType, CountType
  <2>2. CASE ~Fail
    <3>1. /\ txns' = [txns EXCEPT ![eng.t].state = "waiting", ![eng.t].back = pointer.current]
          /\ eng' = [eng EXCEPT !.at = "ready", !.flat = IsFlat, !.old = pointer.current]
          /\ NoFault /\ exit' = exit
      BY <1>9, <2>2 DEF Prepare
    <3>2. pointer.current \in Versions \cup {NoVersion} /\ IsFlat \in BOOLEAN
      BY <1>0 DEF DiskType, NoPointer, IsFlat
    <3>3. txns' = txns \/ \E t, u : Edit(t, u)
      BY <1>0, <3>1, <3>2, PrepareEdits
    <3>4. eng' \in EngType
      BY <1>0, <3>1, <3>2 DEF EngType, Places
    <3> QED BY <1>0, <1>9, <3>1, <3>3, <3>4, StepTypes, Faults DEF Prepare, DiskType, CountType
  <2> QED BY <2>1, <2>2
<1>10. CASE Activating
  BY <1>0, <1>2, <1>10, StepTypes, Moves DEF Activating, DiskType, CountType, Places, States
<1>11. CASE Place
  <2>1. CASE Fail /\ dir' = dir /\ Fault
    BY <1>0, <1>1, <1>11, <2>1, StepTypes, Faults DEF Place, DiskType, CountType
  <2>2. CASE dir' = [dir EXCEPT ![eng.v] = "whole"] /\ Goto("swap") /\ NoFault /\ UNCHANGED <<txns, exit>>
    <3>1. dir' \in [Versions -> {"none", "whole", "partial"}]
      BY <1>0, <2>2 DEF DiskType
    <3> QED BY <1>0, <1>11, <2>2, <3>1, StepTypes, Faults, Moves DEF Place, DiskType, CountType, Places
  <2> QED BY <1>11, <2>1, <2>2 DEF Place
<1> QED BY <1>3, <1>4, <1>5, <1>6, <1>7, <1>8, <1>9, <1>10, <1>11

\* Types: the swap, the root EXE, the probe and the end of an update.
LEMMA SwapTypes ==
  ASSUME TypeOK, Aimed,
         Swap \/ Yield \/ InstallLauncher \/ Probe \/ Book \/ Commit
  PROVE  TypeOK'
<1>0. /\ DiskType /\ BooksType /\ EndType /\ CountType
      /\ eng \in EngType /\ exit \in [code : 0..3, t : 0..Len(txns)]
      /\ eng.t # 0 /\ eng.t \in DOMAIN txns /\ eng.t \in 1..Len(txns)
      /\ eng.v \in Versions /\ eng.old \in Versions \cup {NoVersion}
  <2>1. eng.t # 0 /\ Txn.target = eng.v
    BY DEF Aimed, Working, Early, Poised, At, Swap, Yield, InstallLauncher, Probe, Book, Commit
  <2> QED BY <2>1, TypeParts, AtHand DEF EndType, EngType, Transaction
<1> USE DEF disk, history
<1>1. \A s \in States : InState(s) => txns' = txns \/ \E t, u : Edit(t, u)
  BY <1>0, InStateEdits
<1>2. CASE Swap
  <2>1. pointer' \in [current : Versions, previous : Versions \cup {NoVersion}]
    BY <1>0, <1>2 DEF Swap
  <2>2. \E s \in Places : Goto(s)
    BY <1>2 DEF Swap, Places
  <2> QED BY <1>0, <1>2, <2>1, <2>2, StepTypes, Moves DEF Swap, DiskType, CountType
<1>3. CASE Yield
  <2>1. CASE Goto("install") /\ root' = "none" /\ NoFault /\ UNCHANGED <<exit, halved>>
             /\ (txns' = txns \/ txns' = [txns EXCEPT ![eng.t].legacy = root])
    <3>1. txns' = txns \/ \E t, u : Edit(t, u)
      BY <1>0, <2>1, LegacyEdits DEF DiskType
    <3> QED BY <1>0, <1>3, <2>1, <3>1, StepTypes, Faults, Moves DEF Yield, DiskType, CountType, Places
  <2>2. CASE Fault /\ Return(2) /\ halved' = (halved \/ Split) /\ root' = root
             /\ (txns' = txns \/ txns' = [txns EXCEPT ![eng.t].legacy = "none"])
    <3>1. txns' = txns \/ \E t, u : Edit(t, u)
      BY <1>0, <2>2, LegacyEdits
    <3>2. halved' \in BOOLEAN
      BY <1>0, <2>2 DEF DiskType
    <3> QED BY <1>0, <1>3, <2>2, <3>1, <3>2, StepTypes, Faults, Moves DEF Yield, DiskType, CountType
  <2> QED BY <1>3, <2>1, <2>2 DEF Yield
<1>4. CASE InstallLauncher
  <2>1. CASE root' = "launcher" /\ Goto("probe") /\ NoFault /\ UNCHANGED <<txns, exit>>
    BY <1>0, <1>4, <2>1, StepTypes, Faults, Moves DEF InstallLauncher, DiskType, CountType, Places
  <2>2. CASE Fault /\ root' \in {"none", "torn", "launcher"} /\ Fail
    <3>1. txns' = txns \/ \E t, u : Edit(t, u)
      BY <1>0, <2>2, FailFacts
    <3>2. Return(1) \/ (Goto("back") /\ exit' = exit)
      BY <1>0, <2>2, FailFacts
    <3>3. eng' \in EngType /\ exit' \in [code : 0..3, t : 0..Len(txns)]
      BY <1>0, <3>2, Moves DEF Places
    <3> QED BY <1>0, <1>4, <2>2, <3>1, <3>3, StepTypes, Faults DEF InstallLauncher, DiskType, CountType
  <2> QED BY <1>4, <2>1, <2>2 DEF InstallLauncher
<1>5. CASE Probe
  <2>1. txns' = txns \/ \E t, u : Edit(t, u)
    BY <1>0, <1>1, <1>5 DEF Probe, States
  <2>2. \E s \in Places : Goto(s)
    BY <1>5 DEF Probe, Places
  <2> QED BY <1>0, <1>5, <2>1, <2>2, StepTypes, Faults, Moves DEF Probe, DiskType, CountType
<1>6. CASE Book
  BY <1>0, <1>6, StepTypes, Moves DEF Book, DiskType, CountType, Places
<1>7. CASE Commit
  <2>1. txns' = txns \/ \E t, u : Edit(t, u)
    BY <1>0, <1>7, EndsEdits DEF Commit, States
  <2> QED BY <1>0, <1>7, <2>1, StepTypes, Moves DEF Commit, DiskType, CountType, Places
<1> QED BY <1>2, <1>3, <1>4, <1>5, <1>6, <1>7

\* Types: the collection, a rollback, the way back, and deaths.
LEMMA OtherTypes ==
  ASSUME TypeOK, Aimed,
         GcStep \/ TurnStep \/ BackStep \/ Die
  PROVE  TypeOK'
<1>0. /\ DiskType /\ BooksType /\ EndType /\ CountType
      /\ eng \in EngType /\ exit \in [code : 0..3, t : 0..Len(txns)]
      /\ eng.v \in Versions \cup {NoVersion} /\ eng.todo \subseteq Versions
  BY TypeParts DEF EndType, EngType
<1> USE DEF disk, history
<1>1. CASE GcStep
  <2>1. CASE List
    <3>1. eng' \in EngType
      BY <1>0, <2>1 DEF List, EngType, Places
    <3> QED BY <1>0, <2>1, <3>1, StepTypes DEF List, DiskType, CountType
  <2>2. CASE GcEnd
    BY <1>0, <2>2, StepTypes, Moves DEF GcEnd, DiskType, CountType
  <2>3. ASSUME NEW v \in Versions, Remove(v) PROVE TypeOK'
    <3>1. dir' \in [Versions -> {"none", "whole", "partial"}]
      BY <1>0, <2>3 DEF Remove, DiskType
    <3>2. faults' \in 0..MaxFaults
      BY <2>3, Faults DEF Remove
    <3>3. eng' \in EngType /\ exit' \in [code : 0..3, t : 0..Len(txns)]
      <4>1. CASE Return(1)
        BY <4>1, Moves
      <4>2. CASE eng' = [eng EXCEPT !.todo = @ \ {v}] /\ exit' = exit
        BY <1>0, <4>2 DEF EngType
      <4> QED BY <2>3, <4>1, <4>2 DEF Remove
    <3> QED BY <1>0, <2>3, <3>1, <3>2, <3>3, StepTypes DEF Remove, DiskType, CountType
  <2> QED BY <1>1, <2>1, <2>2, <2>3 DEF GcStep
<1>2. CASE TurnStep
  <2>1. eng.t # 0 /\ eng.t \in 1..Len(txns) /\ Txn.target = eng.v /\ eng.v \in Versions
    BY <1>2, AtHand DEF TurnStep, Turn, Turned, Aimed, Working, At, Transaction
  <2>2. CASE Turn
    <3>1. pointer' \in [current : Versions, previous : Versions \cup {NoVersion}]
      BY <1>0, <2>1, <2>2 DEF Turn, EngType
    <3> QED BY <1>0, <2>2, <3>1, StepTypes, Moves DEF Turn, DiskType, CountType, Places
  <2>3. CASE Turned
    <3>1. txns' = txns \/ \E t, u : Edit(t, u)
      BY <2>1, <2>3, InStateEdits DEF Turned, States
    <3> QED BY <1>0, <2>3, <3>1, StepTypes, Moves DEF Turned, DiskType, CountType
  <2> QED BY <1>2, <2>2, <2>3 DEF TurnStep
<1>3. CASE BackStep
  <2>1. eng.t # 0 /\ eng.t \in 1..Len(txns) /\ eng.t \in DOMAIN txns /\ Txn \in Transaction
        /\ Txn.target = eng.v /\ eng.v \in Versions
    BY <1>3, AtHand DEF BackStep, GoBack, Park, Restore, Drop, RolledBack, Aimed, Working, Back, At, Transaction
  <2>2. CASE GoBack
    <3>1. pointer' \in [current : Versions, previous : Versions \cup {NoVersion}] \cup {NoPointer}
      BY <1>0, <2>1, <2>2 DEF GoBack, DiskType, Transaction
    <3>2. faults' \in 0..MaxFaults /\ \E s \in Places : Goto(s)
      BY <2>2, Faults DEF GoBack, Places
    <3>3. shaken' \subseteq shaken \cup DOMAIN txns
      BY <2>1, <2>2 DEF GoBack
    <3> QED BY <1>0, <2>2, <3>1, <3>2, <3>3, StepTypes, Moves DEF GoBack, DiskType, CountType
  <2>3. CASE Park
    <3>1. eng' \in EngType
      BY <1>0, <2>3 DEF Park, Goto, EngType, Places
    <3>2. root' \in {"flat", "launcher", "torn", "none"} /\ faults' \in 0..MaxFaults
      BY <1>0, <2>3, Faults DEF Park, DiskType
    <3> QED BY <1>0, <2>3, <3>1, <3>2, StepTypes DEF Park, DiskType, CountType
  <2>4. CASE Restore
    <3>1. eng' \in EngType
      BY <1>0, <2>4 DEF Restore, Goto, EngType, Places
    <3>2. root' \in {"flat", "launcher", "torn", "none"} /\ faults' \in 0..MaxFaults
      BY <1>0, <2>1, <2>4, Faults DEF Restore, DiskType, Transaction
    <3> QED BY <1>0, <2>4, <3>1, <3>2, StepTypes DEF Restore, DiskType, CountType
  <2>5. CASE Drop
    <3>1. pointer' \in [current : Versions, previous : Versions \cup {NoVersion}] \cup {NoPointer}
          /\ faults' \in 0..MaxFaults /\ shaken' \subseteq shaken \cup DOMAIN txns
      BY <1>0, <2>1, <2>5, Faults DEF Drop, DiskType
    <3> QED BY <1>0, <2>5, <3>1, StepTypes, Moves DEF Drop, DiskType, CountType, Places
  <2>6. CASE RolledBack
    <3>1. txns' = txns \/ \E t, u : Edit(t, u)
      BY <2>1, <2>6, EndsEdits DEF RolledBack, States
    <3>2. eng' \in EngType /\ exit' \in [code : 0..3, t : 0..Len(txns)]
      BY <2>6, Moves DEF RolledBack
    <3>3. halved' \in BOOLEAN
      BY <1>0, <2>6 DEF RolledBack, DiskType
    <3> QED BY <1>0, <2>6, <3>1, <3>2, <3>3, StepTypes DEF RolledBack, DiskType, CountType
  <2> QED BY <1>3, <2>2, <2>3, <2>4, <2>5, <2>6 DEF BackStep
<1>4. CASE Die
  <2>1. eng' \in EngType /\ exit' \in [code : 0..3, t : 0..Len(txns)]
    BY <1>4, Moves DEF Die
  <2>2. deaths' \in 0..MaxDeaths /\ halved' \in BOOLEAN
    BY <1>0, <1>4, UpdaterAssumption DEF Die, CountType, DiskType
  <2>3. /\ root' \in {"flat", "launcher", "torn", "none"}
        /\ dir' \in [Versions -> {"none", "whole", "partial"}]
        /\ pointer' = pointer /\ books' = books
    BY <1>0, <1>4 DEF Die, DiskType
  <2>4. txns' = txns \/ \E t, u : Edit(t, u)
    <3>1. CASE At("fetch") /\ txns' = [txns EXCEPT ![eng.t].archive = "torn"]
      <4>1. eng.t # 0
        BY <3>1 DEF Aimed, Working, Early, At
      <4> QED BY <3>1, <4>1, ArchiveEdits
    <3> QED BY <1>4, <3>1 DEF Die
  <2> QED BY <1>0, <1>4, <2>1, <2>2, <2>3, <2>4, StepTypes DEF Die, DiskType, CountType
<1> QED BY <1>1, <1>2, <1>3, <1>4

LEMMA TypeStep == TypeOK /\ Aimed /\ [Next]_vars => TypeOK'
BY CallTypes, UpdateTypes, SwapTypes, OtherTypes DEF Next, Step, UpdateStep

-----------------------------------------------------------------------------
(* The invariant.                                                             *)

Still == UNCHANGED <<root, pointer, books, dir, halved>>

\* What an edit leaves of the transaction at hand.
LEMMA EditKeeps ==
  ASSUME TypeOK, eng.t # 0, txns' = txns \/ \E s \in States : InState(s), eng'.t = eng.t
  PROVE  /\ Txn'.target = Txn.target /\ Txn'.back = Txn.back /\ Txn'.legacy = Txn.legacy
         /\ \A s \in States : InState(s) => Txn'.state = s
<1>1. Txn' = txns'[eng.t]
  BY DEF Txn
<1>2. ASSUME NEW s \in States, InState(s) PROVE Txn' = [Txn EXCEPT !.state = s]
  BY <1>1, <1>2, InStateEdits DEF Edit
<1>3. Txn \in Transaction
  BY AtHand
<1> QED BY <1>1, <1>2, <1>3 DEF Transaction, Txn

\* Steps before the swap that move nothing.
LEMMA EarlyStep ==
  ASSUME UpdaterInv, TypeOK', Still, eng.at \in Early, eng'.at \in Early,
         eng'.t = eng.t, eng'.v = eng.v, Txn'.target = Txn.target
  PROVE  UpdaterInv'
<1>1. PointerIsWhole' /\ (Split' <=> Split)
  BY DEF UpdaterInv, PointerIsWhole, Still, Split
<1>2. Aimed' /\ Collected' /\ Pointed' /\ Joined' /\ Brought'
  BY <1>1 DEF UpdaterInv, Still, Early, Poised, Back, Working, Aimed, Collected, Pointed, Joined, Brought, Ended, At
<1> QED BY <1>1, <1>2 DEF UpdaterInv

\* A call that returns a failure with everything where it was.
LEMMA ReturnStep ==
  ASSUME UpdaterInv, TypeOK', Still, eng.at \in Early \cup Poised, NEW c \in 1..3, Return(c)
  PROVE  UpdaterInv'
<1>1. PointerIsWhole' /\ (Split' <=> Split)
  BY DEF UpdaterInv, PointerIsWhole, Still, Split
<1>2. eng' = Idle /\ exit'.code # 0
  BY DEF Return
<1>3. Aimed' /\ Collected' /\ Pointed' /\ Brought'
  BY <1>2 DEF Idle, Early, Poised, Back, Working, Aimed, Collected, Pointed, Brought, Ended, At
<1>4. Joined'
  BY <1>1, <1>2 DEF UpdaterInv, Still, Joined, Early, Poised, Back, Idle
<1> QED BY <1>1, <1>3, <1>4 DEF UpdaterInv

\* A call that fails.
LEMMA FailStep ==
  ASSUME UpdaterInv, TypeOK', Still, eng.at \in Early \cup Poised, Fail
  PROVE  UpdaterInv'
<1>1. TypeOK /\ eng.t # 0 /\ Txn.target = eng.v
  BY DEF UpdaterInv, Aimed, Working
<1>2. CASE Return(1)
  BY <1>2, ReturnStep
<1>3. CASE Goto("back") /\ txns' = txns /\ exit' = exit /\ pointer.current = eng.v
  <2>1. PointerIsWhole' /\ (Split' <=> Split)
    BY DEF UpdaterInv, PointerIsWhole, Still, Split
  <2>2. eng'.at = "back" /\ eng'.t = eng.t /\ eng'.v = eng.v /\ Txn' = Txn
    BY <1>1, <1>3 DEF Goto, TypeOK, Txn
  <2>3. Aimed' /\ Collected' /\ Pointed' /\ Joined' /\ Brought'
    BY <1>1, <1>3, <2>2 DEF Still, Early, Poised, Back, Working, Aimed, Collected, Pointed, Joined, Brought, Ended, At
  <2> QED BY <2>1, <2>3 DEF UpdaterInv
<1> QED BY <1>1, <1>2, <1>3, FailFacts

\* An update up to its swap.
LEMMA UpdateInv ==
  ASSUME UpdaterInv, TypeOK',
         \/ Reuse \/ Preflight \/ Fetch \/ Verified \/ Unpack \/ Precheck \/ Prepare \/ Activating \/ Place
  PROVE  UpdaterInv'
<1>0. TypeOK /\ eng.t # 0 /\ Txn.target = eng.v /\ eng.t \in DOMAIN txns /\ Txn \in Transaction
  BY AtHand DEF UpdaterInv, Aimed, Working, Early, Poised, At, Reuse, Preflight, Fetch, Verified,
                Unpack, Precheck, Prepare, Activating, Place
<1> USE DEF disk, history
<1>1. ASSUME NEW s \in Early, Goto(s), eng.at \in Early, Still,
             txns' = txns \/ \E st \in States : InState(st)
      PROVE  UpdaterInv'
  <2>1. eng'.at = s /\ eng'.t = eng.t /\ eng'.v = eng.v
    BY <1>0, <1>1 DEF Goto, TypeOK
  <2> QED BY <1>0, <1>1, <2>1, EarlyStep, EditKeeps
<1>2. CASE Reuse
  <2>1. CASE Fail
    BY <1>2, <2>1, FailStep DEF Reuse, Still, Early, At
  <2>2. CASE ~Fail
    <3>1. (txns' = txns \/ InState("staged")) /\ Goto("precheck")
      BY <1>2, <2>2 DEF Reuse, InState
    <3> QED BY <1>1, <1>2, <3>1 DEF Reuse, Still, Early, At, States
  <2> QED BY <2>1, <2>2
<1>3. CASE Preflight
  <2>1. CASE Fail
    BY <1>3, <2>1, FailStep DEF Preflight, Still, Early, At
  <2>2. CASE ~Fail
    <3>1. (txns' = txns \/ InState("downloading")) /\ Goto("fetch")
      BY <1>3, <2>2 DEF Preflight, InState
    <3> QED BY <1>1, <1>3, <3>1 DEF Preflight, Still, Early, At, States
  <2> QED BY <2>1, <2>2
<1>4. CASE Fetch
  <2>1. CASE Fail
    BY <1>4, <2>1, FailStep DEF Fetch, Still, Early, At
  <2>2. CASE ~Fail
    <3>1. (txns' = txns \/ txns' = [txns EXCEPT ![eng.t].archive = "whole"]) /\ Goto("verified")
      BY <1>4, <2>2 DEF Fetch
    <3>2. eng'.at = "verified" /\ eng'.t = eng.t /\ eng'.v = eng.v
      BY <1>0, <3>1 DEF Goto, TypeOK
    <3>3. Txn'.target = Txn.target
      <4>1. CASE txns' = txns
        BY <3>2, <4>1 DEF Txn
      <4>2. CASE txns' = [txns EXCEPT ![eng.t].archive = "whole"]
        <5>1. Txn' = [Txn EXCEPT !.archive = "whole"]
          BY <1>0, <3>2, <4>2, ArchiveEdits DEF Edit, Txn
        <5> QED BY <1>0, <5>1 DEF Transaction
      <4> QED BY <3>1, <4>1, <4>2
    <3> QED BY <1>4, <3>2, <3>3, EarlyStep DEF Fetch, Still, Early, At
  <2> QED BY <2>1, <2>2
<1>5. CASE Verified
  BY <1>1, <1>5 DEF Verified, Still, Early, At, States
<1>6. CASE Unpack
  <2>1. CASE Fail
    BY <1>6, <2>1, FailStep DEF Unpack, Still, Early, At
  <2>2. CASE ~Fail
    <3>1. InState("staged") /\ Goto("precheck")
      BY <1>6, <2>2 DEF Unpack
    <3> QED BY <1>1, <1>6, <3>1 DEF Unpack, Still, Early, At, States
  <2> QED BY <2>1, <2>2
<1>7. CASE Precheck
  <2>1. CASE Goto("prepare") /\ UNCHANGED <<txns, exit>>
    BY <1>1, <1>7, <2>1 DEF Precheck, Still, Early, At
  <2>2. CASE Return(2)
    BY <1>7, <2>2, ReturnStep DEF Precheck, Still, Early, At
  <2> QED BY <1>7, <2>1, <2>2 DEF Precheck
<1>8. CASE Prepare
  <2>1. CASE Fail
    BY <1>8, <2>1, FailStep DEF Prepare, Still, Early, At
  <2>2. CASE ~Fail
    <3>1. /\ txns' = [txns EXCEPT ![eng.t].state = "waiting", ![eng.t].back = pointer.current]
          /\ eng' = [eng EXCEPT !.at = "ready", !.flat = IsFlat, !.old = pointer.current]
          /\ exit' = exit /\ Still /\ At("prepare")
      BY <1>8, <2>2 DEF Prepare, Still
    <3>2. eng'.at = "ready" /\ eng'.t = eng.t /\ eng'.v = eng.v /\ eng'.flat = IsFlat /\ eng'.old = pointer.current
      BY <1>0, <3>1 DEF TypeOK
    <3>3. pointer.current \in Versions \cup {NoVersion}
      BY <1>0 DEF TypeOK, NoPointer
    <3>4. Txn' = [Txn EXCEPT !.state = "waiting", !.back = pointer.current]
      BY <1>0, <3>1, <3>2, <3>3, PrepareEdits DEF Edit, Txn
    <3>5. Txn'.target = Txn.target /\ Txn'.back = pointer.current
      BY <1>0, <3>4 DEF Transaction
    <3>6. PointerIsWhole' /\ (Split' <=> Split) /\ IsFlat' = IsFlat
      BY <3>1 DEF UpdaterInv, PointerIsWhole, Still, Split, IsFlat
    <3>7. Aimed' /\ Collected' /\ Pointed' /\ Joined' /\ Brought'
      BY <1>0, <3>1, <3>2, <3>5, <3>6 DEF UpdaterInv, Still, Early, Poised, Back, Working, Aimed, Collected,
                                        Pointed, Joined, Brought, Ended, At
    <3> QED BY <3>6, <3>7 DEF UpdaterInv
  <2> QED BY <2>1, <2>2
<1>9. CASE Activating
  <2>1. eng'.at = "place" /\ eng'.t = eng.t /\ eng'.v = eng.v /\ eng'.old = eng.old /\ eng'.flat = eng.flat
    BY <1>0, <1>9 DEF Activating, Goto, TypeOK
  <2>2. Still /\ exit' = exit /\ At("ready") /\ Txn'.target = Txn.target /\ Txn'.back = Txn.back
        /\ Txn'.state = "activating"
    BY <1>0, <1>9, <2>1, EditKeeps DEF Activating, Still, States
  <2>3. PointerIsWhole' /\ (Split' <=> Split) /\ IsFlat' = IsFlat
    BY <2>2 DEF UpdaterInv, PointerIsWhole, Still, Split, IsFlat
  <2>4. Aimed' /\ Collected' /\ Pointed' /\ Joined' /\ Brought'
    BY <1>0, <2>1, <2>2, <2>3 DEF UpdaterInv, Still, Early, Poised, Back, Working, Aimed, Collected,
                                 Pointed, Joined, Brought, Ended, At
  <2> QED BY <2>3, <2>4 DEF UpdaterInv
<1>10. CASE Place
  <2>1. CASE Fail /\ UNCHANGED dir
    BY <1>10, <2>1, FailStep DEF Place, Still, Poised, At
  <2>2. CASE dir' = [dir EXCEPT ![eng.v] = "whole"] /\ Goto("swap") /\ UNCHANGED <<txns, exit>>
    <3>1. eng'.at = "swap" /\ eng'.t = eng.t /\ eng'.v = eng.v /\ eng'.old = eng.old /\ eng'.flat = eng.flat
      BY <1>0, <2>2 DEF Goto, TypeOK
    <3>2. Txn' = Txn /\ UNCHANGED <<root, pointer, books, halved>> /\ At("place")
      BY <1>10, <2>2, <3>1 DEF Place, Txn
    <3>3. dir'[eng.v] = "whole" /\ \A v \in Versions : dir[v] = "whole" => dir'[v] = "whole"
      BY <1>0, <2>2 DEF TypeOK, Transaction
    <3>4. PointerIsWhole' /\ (Split' <=> Split) /\ IsFlat' = IsFlat
      <4>1. pointer # NoPointer => pointer.current \in Versions /\ pointer.previous \in Versions \cup {NoVersion}
        BY <1>0 DEF TypeOK
      <4> QED BY <3>2, <3>3, <4>1 DEF UpdaterInv, PointerIsWhole, Split, IsFlat
    <3>5. Aimed' /\ Collected' /\ Pointed' /\ Joined' /\ Brought'
      BY <1>0, <2>2, <3>1, <3>2, <3>3, <3>4 DEF UpdaterInv, Early, Poised, Back, Working, Aimed, Collected,
                                              Pointed, Joined, Brought, Ended, At
    <3> QED BY <3>4, <3>5 DEF UpdaterInv
  <2> QED BY <1>10, <2>1, <2>2 DEF Place
<1> QED BY <1>2, <1>3, <1>4, <1>5, <1>6, <1>7, <1>8, <1>9, <1>10

\* The swap, the root EXE, the probe and the end of an update.
LEMMA SwapInv ==
  ASSUME UpdaterInv, TypeOK',
         Swap \/ Yield \/ InstallLauncher \/ Probe \/ Book \/ Commit
  PROVE  UpdaterInv'
<1>0. /\ TypeOK /\ eng.t # 0 /\ Txn.target = eng.v /\ eng.t \in DOMAIN txns /\ Txn \in Transaction
      /\ eng.v \in Versions /\ eng.v # NoVersion
  <2>1. TypeOK /\ eng.t # 0 /\ Txn.target = eng.v
    BY DEF UpdaterInv, Aimed, Working, Early, Poised, At, Swap, Yield, InstallLauncher, Probe, Book, Commit
  <2> QED BY <2>1, AtHand, UpdaterAssumption DEF Transaction
<1> USE DEF disk, history
<1>1. \A s \in Places : Goto(s) => eng'.at = s /\ eng'.t = eng.t /\ eng'.v = eng.v /\ eng'.todo = eng.todo
  BY <1>0 DEF Goto, TypeOK
<1>2. CASE Swap
  <2>1. /\ pointer' = [current |-> eng.v, previous |-> eng.old] /\ At("swap")
        /\ UNCHANGED <<root, dir, books, txns, exit, halved>>
        /\ pointer'.current = eng.v /\ pointer'.previous = eng.old
    BY <1>2 DEF Swap
  <2>2. /\ eng'.at = IF eng.flat THEN "yield" ELSE "probe"
        /\ eng'.t = eng.t /\ eng'.v = eng.v /\ eng.flat \in BOOLEAN
    BY <1>0, <1>1, <1>2 DEF Swap, Places, TypeOK
  <2>3. Txn' = Txn
    BY <2>1, <2>2 DEF Txn
  <2>4. eng.old = pointer.current /\ eng.flat = IsFlat /\ Txn.state = "activating" /\ dir[eng.v] = "whole"
    BY <2>1 DEF UpdaterInv, Pointed, Collected, Poised, At
  <2>5. pointer = NoPointer => pointer.current = NoVersion
    BY DEF NoPointer
  <2>6. PointerIsWhole'
    BY <1>0, <2>1, <2>4, <2>5 DEF UpdaterInv, PointerIsWhole
  <2>7. ~halved /\ ~eng.flat => ~Split'
    <3>1. ASSUME ~halved, ~eng.flat PROVE pointer # NoPointer /\ root = "launcher"
      BY <2>1, <2>4, <3>1 DEF UpdaterInv, Joined, Back, Split, IsFlat, At
    <3>2. pointer' # NoPointer
      BY <1>0, <2>1 DEF NoPointer
    <3> QED BY <2>1, <3>1, <3>2 DEF Split
  <2>8. Aimed' /\ Collected' /\ Pointed' /\ Joined' /\ Brought'
    BY <1>0, <2>1, <2>2, <2>3, <2>4, <2>7 DEF Early, Poised, Back, Working, Aimed, Collected,
                                            Pointed, Joined, Brought, Ended, At
  <2> QED BY <2>6, <2>8 DEF UpdaterInv
<1>3. CASE Yield
  <2>0. PointerIsWhole' /\ pointer' = pointer /\ dir' = dir /\ At("yield") /\ books' = books
    BY <1>3 DEF Yield, UpdaterInv, PointerIsWhole
  <2>1. CASE /\ Goto("install") /\ root' = "none" /\ NoFault /\ UNCHANGED <<exit, halved>>
             /\ txns' = txns \/ txns' = [txns EXCEPT ![eng.t].legacy = root]
    <3>1. eng'.at = "install" /\ eng'.t = eng.t /\ eng'.v = eng.v
      BY <1>1, <2>1 DEF Places
    <3>2. Txn'.target = Txn.target /\ Txn'.state = Txn.state
      <4>1. CASE txns' = txns
        BY <3>1, <4>1 DEF Txn
      <4>2. CASE txns' = [txns EXCEPT ![eng.t].legacy = root]
        <5>1. Txn' = [Txn EXCEPT !.legacy = root]
          BY <1>0, <3>1, <4>2, LegacyEdits DEF Edit, Txn, TypeOK
        <5> QED BY <1>0, <5>1 DEF Transaction
      <4> QED BY <2>1, <4>1, <4>2
    <3>3. Aimed' /\ Collected' /\ Pointed' /\ Joined' /\ Brought'
      BY <1>0, <2>0, <3>1, <3>2 DEF UpdaterInv, Early, Poised, Back, Working, Aimed, Collected,
                                   Pointed, Joined, Brought, Ended, At
    <3> QED BY <2>0, <3>3 DEF UpdaterInv
  <2>2. CASE Fault /\ Return(2) /\ halved' = (halved \/ Split) /\ root' = root
    <3>1. eng'.at = "idle" /\ exit'.code = 2
      BY <2>2 DEF Return, Idle
    <3>2. Split' <=> Split
      BY <2>0, <2>2 DEF Split
    <3>3. Joined'
      BY <2>2, <3>2 DEF Joined
    <3>4. Aimed' /\ Collected' /\ Pointed' /\ Brought'
      BY <3>1 DEF Early, Poised, Back, Working, Aimed, Collected, Pointed, Brought, Ended, At
    <3> QED BY <2>0, <3>3, <3>4 DEF UpdaterInv
  <2> QED BY <1>3, <2>1, <2>2 DEF Yield
<1>4. CASE InstallLauncher
  <2>0. /\ PointerIsWhole' /\ pointer' = pointer /\ dir' = dir /\ At("install") /\ books' = books /\ halved' = halved
        /\ pointer.current = eng.v /\ Txn.state = "activating" /\ pointer # NoPointer
    BY <1>0, <1>4 DEF InstallLauncher, UpdaterInv, PointerIsWhole, Pointed, At, NoPointer
  <2>1. CASE root' = "launcher" /\ Goto("probe") /\ UNCHANGED <<txns, exit>>
    <3>1. eng'.at = "probe" /\ eng'.t = eng.t /\ eng'.v = eng.v /\ Txn' = Txn /\ ~Split'
      BY <1>1, <2>0, <2>1 DEF Places, Txn, Split
    <3>2. Aimed' /\ Collected' /\ Pointed' /\ Joined' /\ Brought'
      BY <1>0, <2>0, <2>1, <3>1 DEF Early, Poised, Back, Working, Aimed, Collected, Pointed, Joined, Brought, Ended, At
    <3> QED BY <2>0, <3>2 DEF UpdaterInv
  <2>2. CASE Fail
    <3>1. Goto("back") /\ txns' = txns /\ exit' = exit
      BY <1>0, <2>0, <2>2, FailFacts
    <3>2. eng'.at = "back" /\ eng'.t = eng.t /\ eng'.v = eng.v /\ Txn' = Txn
      BY <1>1, <3>1 DEF Places, Txn
    <3>3. Aimed' /\ Collected' /\ Pointed' /\ Joined' /\ Brought'
      BY <1>0, <2>0, <3>1, <3>2 DEF Early, Poised, Back, Working, Aimed, Collected, Pointed, Joined, Brought, Ended, At
    <3> QED BY <2>0, <3>3 DEF UpdaterInv
  <2> QED BY <1>4, <2>1, <2>2 DEF InstallLauncher
<1>5. CASE Probe \/ Book
  <2>0. /\ PointerIsWhole' /\ pointer' = pointer /\ dir' = dir /\ root' = root /\ halved' = halved
        /\ pointer.current = eng.v /\ exit' = exit /\ eng.at \in {"probe", "book"} /\ (Split' <=> Split)
    BY <1>5 DEF Probe, Book, UpdaterInv, PointerIsWhole, Pointed, At, Split
  <2>1. eng'.at \in {"back", "book", "commit"} /\ eng'.t = eng.t /\ eng'.v = eng.v /\ Txn'.target = Txn.target
    <3>1. eng'.at \in {"back", "book", "commit"} /\ eng'.t = eng.t /\ eng'.v = eng.v
      BY <1>1, <1>5 DEF Probe, Book, Places
    <3>2. txns' = txns \/ \E s \in States : InState(s)
      BY <1>5 DEF Probe, Book, States
    <3> QED BY <1>0, <3>1, <3>2, EditKeeps
  <2>2. Aimed' /\ Collected' /\ Pointed' /\ Joined' /\ Brought'
    BY <1>0, <2>0, <2>1 DEF UpdaterInv, Early, Poised, Back, Working, Aimed, Collected, Pointed, Joined,
                           Brought, Ended, At
  <2> QED BY <2>0, <2>2 DEF UpdaterInv
<1>6. CASE Commit
  <2>0. /\ PointerIsWhole' /\ pointer' = pointer /\ dir' = dir /\ root' = root /\ halved' = halved
        /\ pointer.current = eng.v /\ exit' = exit /\ At("commit") /\ (Split' <=> Split)
    BY <1>6 DEF Commit, UpdaterInv, PointerIsWhole, Pointed, At, Split
  <2>1. eng'.at = "list" /\ eng'.t = eng.t /\ eng'.v = eng.v
    BY <1>1, <1>6 DEF Commit, Places
  <2>2. Txn'.target = Txn.target /\ Txn'.state = "committed"
    <3>1. Txn' = [Txn EXCEPT !.state = "committed", !.archive = "none"]
      BY <1>0, <1>6, <2>1, AtHand, EndsEdits DEF Commit, Edit, Txn, States
    <3> QED BY <1>0, <3>1 DEF Transaction
  <2>3. Aimed' /\ Collected' /\ Pointed' /\ Joined' /\ Brought'
    BY <1>0, <2>0, <2>1, <2>2 DEF UpdaterInv, Early, Poised, Back, Working, Aimed, Collected, Pointed, Joined,
                           Brought, Ended, At
  <2> QED BY <2>0, <2>3 DEF UpdaterInv
<1> QED BY <1>2, <1>3, <1>4, <1>5, <1>6

\* A call begins.
LEMMA CallInv ==
  ASSUME UpdaterInv, TypeOK',
         \/ UNCHANGED vars \/ (\E v \in Versions : Start(v)) \/ StartGc \/ StartRollback
         \/ Supersede \/ Resume \/ Create
  PROVE  UpdaterInv'
<1>0. TypeOK
  BY DEF UpdaterInv
<1> USE DEF disk, history
<1>1. CASE UNCHANGED vars
  BY <1>1 DEF vars, UpdaterInv, PointerIsWhole, Aimed, Collected, Pointed, Joined, Brought, Ended, Txn, At, Open,
              First, IsFlat, Split
<1>2. /\ PointerIsWhole' /\ pointer' = pointer /\ dir' = dir /\ root' = root /\ halved' = halved
      /\ eng.at \notin Back \cup {"yield", "install"} => Joined'
  <2>1. /\ pointer' = pointer /\ dir' = dir /\ root' = root /\ halved' = halved
    BY DEF vars, Start, StartGc, StartRollback, Supersede, Resume, Create
  <2> QED BY <2>1 DEF UpdaterInv, PointerIsWhole, Joined, Split
<1>3. ASSUME NEW v \in Versions, Start(v) PROVE UpdaterInv'
  <2>1. eng'.at = "find" /\ eng'.v = v /\ exit' = NoExit /\ txns' = txns /\ At("idle")
    BY <1>3 DEF Start, Idle
  <2>2. (Len(txns) < MaxTxns \/ (Open # {} /\ txns[First].target = eng.v))'
    <3>1. Open' = Open /\ First' = First
      BY <2>1 DEF Open, First
    <3> HIDE DEF Open, First
    <3> QED BY <1>3, <2>1, <3>1 DEF Start
  <2>3. Aimed' /\ Collected' /\ Pointed' /\ Joined' /\ Brought'
    BY <1>2, <2>1, <2>2 DEF NoExit, Early, Poised, Back, Working, Aimed, Collected, Pointed, Brought, Ended, At
  <2> QED BY <1>2, <2>3 DEF UpdaterInv
<1>4. CASE StartGc
  <2>1. eng'.at = "list" /\ eng'.t = 0 /\ exit' = NoExit /\ At("idle")
    BY <1>4 DEF StartGc, Idle
  <2>2. Aimed' /\ Collected' /\ Pointed' /\ Joined' /\ Brought'
    BY <1>2, <2>1 DEF NoExit, Early, Poised, Back, Working, Aimed, Collected, Pointed, Brought, Ended, At
  <2> QED BY <1>2, <2>2 DEF UpdaterInv
<1>5. CASE StartRollback
  <2>1. /\ eng'.at = "turn" /\ eng'.t = Len(txns) + 1 /\ eng'.v = pointer.previous /\ eng'.old = pointer.current
        /\ exit' = NoExit /\ At("idle")
    BY <1>5 DEF StartRollback, Idle
  <2>2. Txn'.target = pointer.previous /\ eng'.t # 0
    <3>1. pointer.previous \in Versions
      BY <1>0, <1>5 DEF StartRollback, TypeOK, NoPointer
    <3>2. NewTxn("rollback", pointer.previous, "activating") \in Transaction
      BY <3>1 DEF NewTxn, Transaction, States
    <3>3. txns'[Len(txns) + 1] = NewTxn("rollback", pointer.previous, "activating")
      BY <1>0, <1>5, <3>2, AppendProperties DEF StartRollback, TypeOK
    <3>4. Len(txns) \in Nat
      BY <1>0, LenProperties DEF TypeOK
    <3> QED BY <2>1, <3>3, <3>4 DEF Txn, NewTxn
  <2>3. Aimed' /\ Collected' /\ Pointed' /\ Joined' /\ Brought'
    BY <1>2, <2>1, <2>2 DEF NoExit, Early, Poised, Back, Working, Aimed, Collected, Pointed, Brought, Ended, At
  <2> QED BY <1>2, <2>3 DEF UpdaterInv
<1>6. CASE Supersede
  <2>1. eng' = eng /\ exit' = exit /\ At("find") /\ Len(txns') = Len(txns)
    BY <1>0, <1>6, FirstIsOpen, EndsEdits DEF Supersede, Edit, States
  <2>2. Len(txns) < MaxTxns
    BY <1>6 DEF Supersede, UpdaterInv, Aimed
  <2>3. Aimed' /\ Collected' /\ Pointed' /\ Joined' /\ Brought'
    <3> HIDE DEF Open, First
    <3> QED BY <1>2, <2>1, <2>2 DEF UpdaterInv, Early, Poised, Back, Working, Aimed, Collected, Pointed, Brought, Ended, At
  <2> QED BY <1>2, <2>3 DEF UpdaterInv
<1>7. CASE Resume
  <2>1. eng'.at = "look" /\ eng'.t = First /\ eng'.v = eng.v /\ exit' = exit /\ txns' = txns /\ At("find")
        /\ txns[First].target = eng.v
    BY <1>0, <1>7 DEF Resume, TypeOK
  <2>2. Txn'.target = eng'.v /\ eng'.t # 0
    <3>1. First # 0
      BY <1>7, <1>0, FirstIsOpen DEF Resume
    <3> HIDE DEF First
    <3> QED BY <2>1, <3>1 DEF Txn
  <2>3. Aimed' /\ Collected' /\ Pointed' /\ Joined' /\ Brought'
    BY <1>2, <2>1, <2>2 DEF Early, Poised, Back, Working, Aimed, Collected, Pointed, Brought, Ended, At
  <2> QED BY <1>2, <2>3 DEF UpdaterInv
<1>8. CASE Create
  <2>1. eng'.at = "look" /\ eng'.t = Len(txns) + 1 /\ eng'.v = eng.v /\ exit' = exit /\ At("find")
    BY <1>0, <1>8 DEF Create, TypeOK
  <2>2. Txn'.target = eng'.v /\ eng'.t # 0
    <3>1. eng.v \in Versions
      BY <2>1 DEF UpdaterInv, Aimed
    <3>2. NewTxn("update", eng.v, "checking") \in Transaction
      BY <3>1 DEF NewTxn, Transaction, States
    <3>3. txns'[Len(txns) + 1] = NewTxn("update", eng.v, "checking")
      BY <1>0, <1>8, <3>2, AppendProperties DEF Create, TypeOK
    <3>4. Len(txns) \in Nat
      BY <1>0, LenProperties DEF TypeOK
    <3> QED BY <2>1, <3>3, <3>4 DEF Txn, NewTxn
  <2>3. Aimed' /\ Collected' /\ Pointed' /\ Joined' /\ Brought'
    BY <1>2, <2>1, <2>2 DEF Early, Poised, Back, Working, Aimed, Collected, Pointed, Brought, Ended, At
  <2> QED BY <1>2, <2>3 DEF UpdaterInv
<1> QED BY <1>1, <1>3, <1>4, <1>5, <1>6, <1>7, <1>8

\* The collection removes nothing the pointer names.
LEMMA GcInv == ASSUME UpdaterInv, TypeOK', GcStep PROVE UpdaterInv'
<1>0. /\ TypeOK /\ eng.at \in {"list", "gc"}
      /\ UNCHANGED <<root, pointer, books, txns, halved>> /\ (Split' <=> Split)
  BY DEF UpdaterInv, GcStep, List, GcEnd, Remove, At, disk, history, Split
<1> USE DEF disk, history
<1>1. CASE List
  <2>1. /\ PointerIsWhole' /\ exit' = exit /\ At("list")
        /\ eng'.at = "gc" /\ eng'.t = eng.t /\ eng'.v = eng.v /\ Txn' = Txn
        /\ eng'.todo = {v \in Versions : dir[v] # "none"} \ Kept
    BY <1>0, <1>1 DEF List, UpdaterInv, PointerIsWhole, TypeOK, Txn
  <2>2. pointer.current \notin eng'.todo /\ pointer.previous \notin eng'.todo
    BY <2>1 DEF Kept
  <2>3. Aimed' /\ Collected' /\ Pointed' /\ Joined' /\ Brought'
    BY <1>0, <2>1, <2>2 DEF UpdaterInv, Early, Poised, Back, Working, Aimed, Collected, Pointed, Joined, Brought, Ended, At
  <2> QED BY <2>1, <2>3 DEF UpdaterInv
<1>2. CASE GcEnd
  <2>1. PointerIsWhole' /\ At("gc") /\ eng'.at = "idle" /\ exit'.t = eng.t
    BY <1>0, <1>2 DEF GcEnd, Return, Idle, UpdaterInv, PointerIsWhole
  <2>2. Brought'
    BY <1>0, <2>1 DEF UpdaterInv, Aimed, Brought, Ended, Txn, At
  <2>3. Aimed' /\ Collected' /\ Pointed' /\ Joined'
    BY <1>0, <2>1 DEF UpdaterInv, Early, Poised, Back, Working, Aimed, Collected, Pointed, Joined, At
  <2> QED BY <2>1, <2>2, <2>3 DEF UpdaterInv
<1>3. ASSUME NEW v \in Versions, Remove(v) PROVE UpdaterInv'
  <2>1. At("gc") /\ v \in eng.todo /\ v # pointer.current /\ v # pointer.previous
    BY <1>3 DEF Remove, UpdaterInv, Collected
  <2>2. \A u \in Versions : u # v => dir'[u] = dir[u]
    BY <1>0, <1>3 DEF Remove, TypeOK
  <2>3. PointerIsWhole'
    <3>1. pointer # NoPointer => pointer.current \in Versions /\ pointer.previous \in Versions \cup {NoVersion}
      BY <1>0 DEF TypeOK
    <3> QED BY <1>0, <2>1, <2>2, <3>1 DEF UpdaterInv, PointerIsWhole
  <2>4. CASE Return(1)
    <3>1. eng'.at = "idle" /\ exit'.code = 1
      BY <2>4 DEF Return, Idle
    <3>2. Aimed' /\ Collected' /\ Pointed' /\ Joined' /\ Brought'
      BY <1>0, <2>1, <3>1 DEF UpdaterInv, Early, Poised, Back, Working, Aimed, Collected, Pointed, Joined, Brought, Ended, At
    <3> QED BY <2>3, <3>2 DEF UpdaterInv
  <2>5. CASE eng' = [eng EXCEPT !.todo = @ \ {v}] /\ exit' = exit
    <3>1. eng'.at = "gc" /\ eng'.t = eng.t /\ eng'.v = eng.v /\ Txn' = Txn /\ eng'.todo \subseteq eng.todo
      BY <1>0, <2>1, <2>5 DEF TypeOK, Txn, At
    <3>2. Aimed' /\ Collected' /\ Pointed' /\ Joined' /\ Brought'
      BY <1>0, <2>1, <2>5, <3>1 DEF UpdaterInv, Early, Poised, Back, Working, Aimed, Collected, Pointed, Joined, Brought, Ended, At
    <3> QED BY <2>3, <3>2 DEF UpdaterInv
  <2> QED BY <1>3, <2>4, <2>5 DEF Remove
<1> QED BY <1>1, <1>2, <1>3 DEF GcStep

\* A rollback.
LEMMA TurnInv == ASSUME UpdaterInv, TypeOK', TurnStep PROVE UpdaterInv'
<1>0. /\ TypeOK /\ eng.t # 0 /\ Txn.target = eng.v /\ eng.t \in DOMAIN txns /\ Txn \in Transaction
      /\ eng.v \in Versions /\ eng.v # NoVersion
  <2>1. TypeOK /\ eng.t # 0 /\ Txn.target = eng.v
    BY DEF UpdaterInv, Aimed, Working, At, TurnStep, Turn, Turned
  <2> QED BY <2>1, AtHand, UpdaterAssumption DEF Transaction
<1> USE DEF disk, history
<1>1. CASE Turn
  <2>1. /\ pointer' = [current |-> eng.v, previous |-> eng.old] /\ At("turn")
        /\ pointer'.current = eng.v /\ pointer'.previous = eng.old
        /\ UNCHANGED <<root, dir, books, txns, exit, halved>>
        /\ eng'.at = "turned" /\ eng'.t = eng.t /\ eng'.v = eng.v
        /\ eng.v = pointer.previous /\ eng.old = pointer.current
    BY <1>0, <1>1 DEF Turn, Goto, UpdaterInv, Pointed, At, TypeOK
  <2>2. pointer # NoPointer
    BY <1>0, <2>1 DEF NoPointer
  <2>3. pointer' # NoPointer /\ Txn' = Txn
    BY <1>0, <2>1 DEF NoPointer, Txn
  <2>4. PointerIsWhole' /\ (Split' <=> Split)
    BY <1>0, <2>1, <2>2, <2>3 DEF UpdaterInv, PointerIsWhole, Split
  <2>5. Aimed' /\ Collected' /\ Pointed' /\ Joined' /\ Brought'
    BY <1>0, <2>1, <2>3, <2>4 DEF UpdaterInv, Early, Poised, Back, Working, Aimed, Collected, Pointed, Joined,
                                 Brought, Ended, At
  <2> QED BY <2>4, <2>5 DEF UpdaterInv
<1>2. CASE Turned
  <2>1. /\ UNCHANGED <<root, pointer, dir, books, halved>> /\ At("turned")
        /\ eng'.at = "idle" /\ exit'.t = eng.t /\ pointer.current = eng.v
    BY <1>2 DEF Turned, Return, Idle, UpdaterInv, Pointed, At
  <2>2. PointerIsWhole' /\ (Split' <=> Split)
    BY <2>1 DEF UpdaterInv, PointerIsWhole, Split
  <2>3. txns'[eng.t].target = eng.v
    <3>1. txns'[eng.t] = [Txn EXCEPT !.state = "committed"]
      BY <1>0, <1>2, InStateEdits DEF Turned, Edit, States
    <3> QED BY <1>0, <3>1 DEF Transaction
  <2>4. Brought'
    BY <2>1, <2>3 DEF Brought, Ended
  <2>5. Aimed' /\ Collected' /\ Pointed' /\ Joined'
    BY <1>0, <2>1, <2>2 DEF UpdaterInv, Early, Poised, Back, Working, Aimed, Collected, Pointed, Joined, At
  <2> QED BY <2>2, <2>4, <2>5 DEF UpdaterInv
<1> QED BY <1>1, <1>2 DEF TurnStep

\* The way back.
LEMMA BackInv == ASSUME UpdaterInv, TypeOK', BackStep PROVE UpdaterInv'
<1>0. /\ TypeOK /\ eng.t # 0 /\ Txn.target = eng.v /\ eng.t \in DOMAIN txns /\ Txn \in Transaction
      /\ eng.v \in Versions /\ eng.v # NoVersion
  <2>1. TypeOK /\ eng.t # 0 /\ Txn.target = eng.v
    BY DEF UpdaterInv, Aimed, Working, Back, At, BackStep, GoBack, Park, Restore, Drop, RolledBack
  <2> QED BY <2>1, AtHand, UpdaterAssumption DEF Transaction
<1> USE DEF disk, history
<1>1. CASE RolledBack
  <2>1. /\ UNCHANGED <<root, pointer, dir, books>> /\ halved' = (halved \/ Split)
        /\ eng'.at = "idle" /\ exit'.code # 0
    BY <1>1 DEF RolledBack, Return, Idle
  <2>2. PointerIsWhole' /\ (Split' <=> Split)
    BY <2>1 DEF UpdaterInv, PointerIsWhole, Split
  <2>3. Joined'
    BY <2>1, <2>2 DEF Joined
  <2>4. Aimed' /\ Collected' /\ Pointed' /\ Brought'
    BY <2>1 DEF Early, Poised, Back, Working, Aimed, Collected, Pointed, Brought, Ended, At
  <2> QED BY <2>2, <2>3, <2>4 DEF UpdaterInv
<1>2. CASE GoBack \/ Park \/ Restore \/ Drop
  <2>1. /\ eng'.at \in {"restore", "restored", "drop", "backed"} /\ eng'.t = eng.t /\ eng'.v = eng.v
        /\ UNCHANGED <<dir, txns, exit>>
    BY <1>0, <1>2 DEF GoBack, Park, Restore, Drop, Goto, TypeOK
  <2>2. Txn' = Txn
    BY <2>1 DEF Txn
  <2>3. PointerIsWhole'
    <3>1. CASE GoBack
      <4>1. CASE pointer' = pointer
        BY <2>1, <4>1 DEF UpdaterInv, PointerIsWhole
      <4>2. CASE dir[Txn.back] = "whole" /\ pointer' = [current |-> Txn.back, previous |-> eng.v]
        <5>1. dir[eng.v] = "whole"
          <6>1. pointer.current = eng.v /\ pointer # NoPointer
            BY <1>0, <3>1 DEF GoBack, UpdaterInv, Pointed, At, NoPointer
          <6> QED BY <6>1 DEF UpdaterInv, PointerIsWhole
        <5> QED BY <2>1, <4>2, <5>1 DEF PointerIsWhole
      <4> QED BY <3>1, <4>1, <4>2 DEF GoBack
    <3>2. CASE pointer' = pointer \/ pointer' = NoPointer
      BY <2>1, <3>2 DEF UpdaterInv, PointerIsWhole
    <3> QED BY <1>2, <3>1, <3>2 DEF Park, Restore, Drop
  <2>4. Aimed' /\ Collected' /\ Pointed' /\ Joined' /\ Brought'
    BY <1>0, <2>1, <2>2 DEF Early, Poised, Back, Working, Aimed, Collected, Pointed, Joined, Brought, Ended, At
  <2> QED BY <2>3, <2>4 DEF UpdaterInv
<1> QED BY <1>1, <1>2 DEF BackStep

\* The engine dies.
LEMMA DieInv == ASSUME UpdaterInv, TypeOK', Die PROVE UpdaterInv'
<1>0. TypeOK
  BY DEF UpdaterInv
<1>1. pointer' = pointer /\ eng'.at = "idle" /\ exit'.t = 0 /\ halved' = (halved \/ Split')
  BY DEF Die, Idle, NoExit, disk
<1>2. PointerIsWhole'
  <2>1. CASE dir' = dir
    BY <1>1, <2>1 DEF UpdaterInv, PointerIsWhole
  <2>2. CASE At("gc") /\ \E v \in eng.todo : dir' = [dir EXCEPT ![v] = "partial"]
    <3>1. PICK v \in eng.todo : dir' = [dir EXCEPT ![v] = "partial"]
      BY <2>2
    <3>2. v # pointer.current /\ v # pointer.previous
      BY <2>2 DEF UpdaterInv, Collected
    <3>3. pointer # NoPointer => pointer.current \in Versions /\ pointer.previous \in Versions \cup {NoVersion}
      BY <1>0 DEF TypeOK
    <3>4. \A u \in Versions : u # v => dir'[u] = dir[u]
      BY <1>0, <3>1 DEF TypeOK
    <3> QED BY <1>1, <3>2, <3>3, <3>4 DEF UpdaterInv, PointerIsWhole
  <2> QED BY <2>1, <2>2 DEF Die, disk
<1>3. Joined'
  BY <1>1 DEF Joined
<1>4. Aimed' /\ Collected' /\ Pointed' /\ Brought'
  BY <1>1 DEF Early, Poised, Back, Working, Aimed, Collected, Pointed, Brought, Ended, At
<1> QED BY <1>2, <1>3, <1>4 DEF UpdaterInv

\* The initial states, and every step.
LEMMA InitUpdater == Init => UpdaterInv
<1> SUFFICES ASSUME Init PROVE UpdaterInv
  OBVIOUS
<1>1. /\ txns = <<>> /\ before = <<>> /\ Len(txns) = 0 /\ Len(before) = 0
      /\ eng = Idle /\ exit = NoExit /\ cut = {} /\ shaken = {} /\ halved = FALSE
      /\ txns \in Seq(Transaction) /\ before \in Seq(Versions \cup {"nothing", "flat", "launcher"})
  BY EmptySeq DEF Init
<1>2. /\ root \in {"flat", "launcher"} /\ books \in BOOLEAN /\ dir \in [Versions -> {"none", "whole"}]
      /\ pointer = NoPointer => root = "flat"
      /\ pointer # NoPointer => /\ root = "launcher" /\ pointer.previous = NoVersion /\ pointer.current \in Versions
                                /\ pointer \in [current : Versions, previous : Versions \cup {NoVersion}]
                                /\ dir[pointer.current] = "whole"
  <2>1. CASE root = "flat" /\ pointer = NoPointer /\ books \in BOOLEAN /\ dir = [v \in Versions |-> "none"]
    BY <2>1
  <2>2. CASE \E first \in Versions :
          /\ root = "launcher" /\ pointer = [current |-> first, previous |-> NoVersion] /\ books = TRUE
          /\ dir = [v \in Versions |-> IF v = first THEN "whole" ELSE "none"]
    <3>1. pointer # NoPointer
      BY <2>2, UpdaterAssumption DEF NoPointer
    <3> QED BY <2>2, <3>1
  <2> QED BY <2>1, <2>2 DEF Init
<1>3. DiskType
  BY <1>1, <1>2 DEF DiskType
<1>4. BooksType /\ CountType
  BY <1>1, UpdaterAssumption DEF BooksType, CountType, Init
<1>5. EndType
  BY <1>1 DEF EndType, EngType, Idle, NoExit, Places
<1>6. PointerIsWhole /\ ~Split
  BY <1>2 DEF PointerIsWhole, Split
<1>7. Aimed /\ Collected /\ Pointed /\ Joined /\ Brought
  BY <1>1, <1>6 DEF Idle, NoExit, Early, Poised, Back, Working, Aimed, Collected, Pointed, Joined, Brought, Ended, At
<1> QED BY <1>3, <1>4, <1>5, <1>6, <1>7, TypeParts DEF UpdaterInv

LEMMA UpdaterStep == UpdaterInv /\ [Next]_vars => UpdaterInv'
<1> SUFFICES ASSUME UpdaterInv, [Next]_vars PROVE UpdaterInv'
  OBVIOUS
<1>1. TypeOK'
  BY TypeStep DEF UpdaterInv
<1> QED BY <1>1, CallInv, UpdateInv, SwapInv, GcInv, TurnInv, BackInv, DieInv DEF Next, Step, UpdateStep

THEOREM UpdaterInductive == Spec => []UpdaterInv
BY InitUpdater, UpdaterStep, PTL DEF Spec

\* Every variable keeps its range.
THEOREM UpdaterTypeCorrect == Spec => []TypeOK
BY UpdaterInductive, PTL DEF UpdaterInv

\* What the pointer names is whole, whatever the collection removed or left half
\* removed and wherever the engine died.
THEOREM PointerWhole == Spec => []PointerIsWhole
BY UpdaterInductive, PTL DEF UpdaterInv

\* After a call that ended well the program's name starts its version, unless
\* an earlier call stopped between the pointer and the root.
THEOREM SucceededCorrect == Spec => []SucceededStarts
<1>1. UpdaterInv => SucceededStarts
  <2> SUFFICES ASSUME UpdaterInv, Ended(0), ~halved PROVE Starts = txns[exit.t].target
    BY DEF SucceededStarts
  <2>1. ~Split
    BY DEF UpdaterInv, Joined, Ended, At, Back
  <2>2. pointer.current = txns[exit.t].target
    BY DEF UpdaterInv, Brought
  <2>3. txns[exit.t] \in Transaction
    <3>1. exit.t \in 0..Len(txns) /\ exit.t # 0
      BY DEF UpdaterInv, TypeOK, Ended
    <3>2. exit.t \in 1..Len(txns)
      BY <3>1, LenProperties DEF UpdaterInv, TypeOK
    <3> QED BY <3>2 DEF UpdaterInv, TypeOK
  <2>4. pointer # NoPointer
    BY <2>2, <2>3, UpdaterAssumption DEF Transaction, NoPointer
  <2> QED BY <2>1, <2>2, <2>4 DEF UpdaterInv, PointerIsWhole, Split, Starts
<1> QED BY <1>1, UpdaterInductive, PTL

-----------------------------------------------------------------------------
(* What starts after a call that failed.                                      *)

\* Where nothing has to be remembered.
Forgetful == {"idle", "find", "book", "commit", "list", "gc", "turn", "turned"}

LEMMA Forgotten ==
  ASSUME eng'.at \in Forgetful
  PROVE  Remembered'
BY DEF Forgetful, Remembered, Early, Poised, Back, At

LEMMA UnderWay ==
  ASSUME eng'.at # "idle"
  PROVE  FailedKeepsOld'
BY DEF FailedKeepsOld, Ended, At

\* What starts depends on the root, the pointer and what the pointer names.
LEMMA SameStarts ==
  ASSUME TypeOK, UNCHANGED <<root, pointer>>,
         \A v \in Versions : dir[v] = "whole" <=> dir'[v] = "whole"
  PROVE  Starts' = Starts
<1>1. pointer # NoPointer => pointer.current \in Versions
  BY DEF TypeOK
<1> QED BY <1>1 DEF Starts

\* Before the swap nothing that starts is touched.
LEMMA BeforeSwap ==
  ASSUME KeepInv, TypeOK', Starts' = Starts, UNCHANGED <<pointer, before, cut, halved>>,
         eng.at \in Early \cup Poised, eng'.at \in Early \cup Poised, eng'.t = eng.t, eng'.v = eng.v,
         eng'.at \in Early => eng.at \in Early /\ Txn'.state \in {Txn.state, "staged", "downloading", "verified"}
  PROVE  Remembered' /\ FailedKeepsOld'
<1>1. eng'.at # "idle" /\ eng'.at \notin {"yield", "install", "probe"} \cup Back
  BY DEF Early, Poised, Back
<1>2. Remembered'
  BY <1>1 DEF KeepInv, Remembered, Intact, Old, At, Early, Poised, Back
<1> QED BY <1>1, <1>2, UnderWay

\* A call that fails before the swap.
LEMMA FailKeeps ==
  ASSUME KeepInv, Starts' = Starts, UNCHANGED <<pointer, before, cut, shaken, halved>>,
         eng.t # 0, Fail,
         eng.at \in Early \/ (eng.at \in Poised /\ pointer.current # eng.v)
  PROVE  Remembered' /\ FailedKeepsOld'
<1>1. TypeOK
  BY DEF KeepInv, UpdaterInv
<1>2. CASE Return(1)
  <2>1. eng'.at = "idle" /\ exit'.code = 1 /\ exit'.t = eng.t
    BY <1>2 DEF Return, Idle
  <2>2. FailedKeepsOld'
    <3>1. eng.t \notin cut /\ ~halved => Starts = before[eng.t]
      BY DEF KeepInv, Remembered, Intact, Old
    <3> QED BY <2>1, <3>1 DEF FailedKeepsOld, Ended
  <2> QED BY <2>1, <2>2, Forgotten DEF Forgetful
<1>3. CASE /\ Goto("back") /\ txns' = txns /\ exit' = exit
           /\ pointer.current = eng.v /\ Txn.state \in {"activating", "healthy"}
  <2>1. eng'.at = "back" /\ eng'.t = eng.t
    BY <1>1, <1>3 DEF Goto, TypeOK
  <2>2. eng.t \in cut
    BY <1>3 DEF KeepInv, Remembered
  <2>3. Remembered'
    BY <2>1, <2>2 DEF Remembered, Intact, At, Early, Poised, Back
  <2> QED BY <2>1, <2>3, UnderWay
<1> QED BY <1>1, <1>2, <1>3, FailFacts

\* An update up to its swap.
LEMMA UpdateKeeps ==
  ASSUME KeepInv, TypeOK',
         \/ Reuse \/ Preflight \/ Fetch \/ Verified \/ Unpack \/ Precheck \/ Prepare \/ Activating \/ Place
  PROVE  Remembered' /\ FailedKeepsOld'
<1>0. /\ TypeOK /\ eng.t # 0 /\ eng.t \in DOMAIN txns /\ Txn \in Transaction /\ eng.v \in Versions
      /\ UNCHANGED <<root, pointer, before, cut, shaken, halved>>
  <2>1. TypeOK /\ eng.t # 0 /\ Txn.target = eng.v
    BY DEF KeepInv, UpdaterInv, Aimed, Working, Early, Poised, At, Reuse, Preflight, Fetch, Verified,
           Unpack, Precheck, Prepare, Activating, Place
  <2>2. UNCHANGED <<root, pointer, before, cut, shaken, halved>>
    BY DEF history, Reuse, Preflight, Fetch, Verified, Unpack, Precheck, Prepare, Activating, Place
  <2> QED BY <2>1, <2>2, AtHand DEF Transaction
<1> USE DEF disk, history
<1>1. dir' = dir => Starts' = Starts
  BY <1>0, SameStarts
<1>2. ASSUME NEW s \in Early, Goto(s), eng.at \in Early, dir' = dir,
             txns' = txns \/ \E st \in {"staged", "downloading", "verified"} : InState(st)
      PROVE  Remembered' /\ FailedKeepsOld'
  <2>1. eng'.at = s /\ eng'.t = eng.t /\ eng'.v = eng.v
    BY <1>0, <1>2 DEF Goto, TypeOK
  <2>2. Txn'.state \in {Txn.state, "staged", "downloading", "verified"}
    <3>1. CASE txns' = txns
      BY <2>1, <3>1 DEF Txn
    <3>2. ASSUME NEW st \in {"staged", "downloading", "verified"}, InState(st) PROVE Txn'.state = st
      BY <1>0, <2>1, <3>2, EditKeeps DEF States
    <3> QED BY <1>2, <3>1, <3>2
  <2> QED BY <1>0, <1>1, <1>2, <2>1, <2>2, BeforeSwap
<1>3. CASE Fail /\ dir' = dir /\ eng.at \in Early
  BY <1>0, <1>1, <1>3, FailKeeps
<1>4. CASE Reuse
  <2>1. CASE ~Fail
    <3>1. (txns' = txns \/ InState("staged")) /\ Goto("precheck")
      BY <1>4, <2>1 DEF Reuse, InState
    <3> QED BY <1>2, <1>4, <3>1 DEF Reuse, Early, At
  <2> QED BY <1>3, <1>4, <2>1 DEF Reuse, Early, At
<1>5. CASE Preflight
  <2>1. CASE ~Fail
    <3>1. (txns' = txns \/ InState("downloading")) /\ Goto("fetch")
      BY <1>5, <2>1 DEF Preflight, InState
    <3> QED BY <1>2, <1>5, <3>1 DEF Preflight, Early, At
  <2> QED BY <1>3, <1>5, <2>1 DEF Preflight, Early, At
<1>6. CASE Fetch
  <2>1. CASE ~Fail
    <3>1. (txns' = txns \/ txns' = [txns EXCEPT ![eng.t].archive = "whole"]) /\ Goto("verified")
      BY <1>6, <2>1 DEF Fetch
    <3>2. eng'.at = "verified" /\ eng'.t = eng.t /\ eng'.v = eng.v
      BY <1>0, <3>1 DEF Goto, TypeOK
    <3>3. Txn'.state = Txn.state
      <4>1. CASE txns' = txns
        BY <3>2, <4>1 DEF Txn
      <4>2. CASE txns' = [txns EXCEPT ![eng.t].archive = "whole"]
        <5>1. Txn' = [Txn EXCEPT !.archive = "whole"]
          BY <1>0, <3>2, <4>2, ArchiveEdits DEF Edit, Txn
        <5> QED BY <1>0, <5>1 DEF Transaction
      <4> QED BY <3>1, <4>1, <4>2
    <3> QED BY <1>0, <1>1, <1>6, <3>2, <3>3, BeforeSwap DEF Fetch, Early, At
  <2> QED BY <1>3, <1>6, <2>1 DEF Fetch, Early, At
<1>7. CASE Verified
  BY <1>2, <1>7 DEF Verified, Early, At
<1>8. CASE Unpack
  <2>1. CASE ~Fail
    <3>1. InState("staged") /\ Goto("precheck")
      BY <1>8, <2>1 DEF Unpack
    <3> QED BY <1>2, <1>8, <3>1 DEF Unpack, Early, At
  <2> QED BY <1>3, <1>8, <2>1 DEF Unpack, Early, At
<1>9. CASE Precheck
  <2>1. CASE Goto("prepare") /\ UNCHANGED <<txns, exit>>
    BY <1>2, <1>9, <2>1 DEF Precheck, Early, At
  <2>2. CASE Return(2)
    <3>1. eng'.at = "idle" /\ exit'.code = 2
      BY <2>2 DEF Return, Idle
    <3>2. FailedKeepsOld'
      BY <3>1 DEF FailedKeepsOld, Ended
    <3> QED BY <3>1, <3>2, Forgotten DEF Forgetful
  <2> QED BY <1>9, <2>1, <2>2 DEF Precheck
<1>10. CASE Prepare
  <2>1. CASE ~Fail
    <3>1. eng' = [eng EXCEPT !.at = "ready", !.flat = IsFlat, !.old = pointer.current]
      BY <1>10, <2>1 DEF Prepare
    <3>2. eng'.at = "ready" /\ eng'.t = eng.t /\ eng'.v = eng.v
      BY <1>0, <3>1 DEF TypeOK
    <3> QED BY <1>0, <1>1, <1>10, <3>2, BeforeSwap DEF Prepare, Early, Poised, At
  <2> QED BY <1>3, <1>10, <2>1 DEF Prepare, Early, At
<1>11. CASE Activating
  <2>1. eng'.at = "place" /\ eng'.t = eng.t /\ eng'.v = eng.v
    BY <1>0, <1>11 DEF Activating, Goto, TypeOK
  <2> QED BY <1>0, <1>1, <1>11, <2>1, BeforeSwap DEF Activating, Early, Poised, At
<1>12. CASE Place
  <2>1. CASE Fail /\ dir' = dir /\ dir[eng.v] = "none"
    <3>1. pointer.current # eng.v
      <4>1. pointer = NoPointer => pointer.current = NoVersion
        BY DEF NoPointer
      <4> QED BY <1>0, <2>1, <4>1, UpdaterAssumption DEF KeepInv, UpdaterInv, PointerIsWhole
    <3> QED BY <1>0, <1>1, <1>12, <2>1, <3>1, FailKeeps DEF Place, Poised, At
  <2>2. CASE dir' = [dir EXCEPT ![eng.v] = "whole"] /\ Goto("swap")
    <3>1. eng'.at = "swap" /\ eng'.t = eng.t /\ eng'.v = eng.v
      BY <1>0, <2>2 DEF Goto, TypeOK
    <3>2. Starts' = Starts
      <4>1. pointer # NoPointer => /\ pointer.current \in Versions
                                   /\ dir[pointer.current] = "whole" /\ dir'[pointer.current] = "whole"
        BY <1>0, <2>2 DEF KeepInv, UpdaterInv, PointerIsWhole, TypeOK
      <4> QED BY <1>0, <4>1 DEF Starts
    <3> QED BY <1>0, <1>12, <3>1, <3>2, BeforeSwap DEF Place, Early, Poised, At
  <2> QED BY <1>12, <2>1, <2>2 DEF Place
<1> QED BY <1>4, <1>5, <1>6, <1>7, <1>8, <1>9, <1>10, <1>11, <1>12

\* The swap: what is on the books is what started, and a flat EXE is still there.
LEMMA SwapKeeps ==
  ASSUME KeepInv, TypeOK', Swap
  PROVE  Remembered'
<1>1. /\ TypeOK /\ At("swap") /\ UNCHANGED <<root, txns, before, cut, shaken, halved>>
      /\ eng'.at = (IF eng.flat THEN "yield" ELSE "probe") /\ eng'.t = eng.t /\ eng.flat \in BOOLEAN
      /\ Txn' = Txn
  <2>1. TypeOK
    BY DEF KeepInv, UpdaterInv
  <2> QED BY <2>1 DEF Swap, Goto, TypeOK, Txn, history
<1>2. Txn.back = pointer.current /\ eng.flat = IsFlat
  BY <1>1 DEF KeepInv, UpdaterInv, Pointed, Poised, At
<1>3. ASSUME Intact PROVE ~Split /\ Starts = Old
  <2>1. Starts = Old
    BY <1>1, <1>3 DEF KeepInv, Remembered, Poised, At
  <2>2. ~Split
    BY <1>1, <1>3 DEF KeepInv, UpdaterInv, Joined, Intact, Back, At
  <2> QED BY <2>1, <2>2
<1>4. ASSUME Intact, Txn.back # NoVersion PROVE Old = Txn.back
  <2>1. pointer # NoPointer
    BY <1>2, <1>4 DEF NoPointer
  <2>2. root = "launcher" /\ dir[pointer.current] = "whole"
    BY <1>3, <1>4, <2>1 DEF Split, KeepInv, UpdaterInv, PointerIsWhole
  <2> QED BY <1>2, <1>3, <1>4, <2>1, <2>2 DEF Starts
<1>5. ASSUME Intact, Txn.back = NoVersion PROVE Old \in {"flat", "launcher"} /\ root = Old /\ eng.flat
  <2>1. pointer = NoPointer
    BY <1>1, <1>2, <1>5, UpdaterAssumption DEF TypeOK
  <2>2. root \in {"flat", "launcher"}
    BY <1>1, <1>3, <1>5, <2>1 DEF Split, TypeOK
  <2>3. IsFlat
    BY <2>1, <2>2 DEF IsFlat
  <2> QED BY <1>2, <1>3, <1>5, <2>1, <2>2, <2>3 DEF Starts
<1>6. (Intact' <=> Intact) /\ Old' = Old
  BY <1>1 DEF Intact, Old
<1> HIDE DEF Intact, Old, Txn
<1> QED BY <1>1, <1>4, <1>5, <1>6 DEF Remembered, Early, Poised, Back, At

\* From the swap to the end: the EXE put aside is the one that started.
LEMMA TailKeeps ==
  ASSUME KeepInv, TypeOK', Swap \/ Yield \/ InstallLauncher \/ Probe \/ Book \/ Commit
  PROVE  Remembered' /\ FailedKeepsOld'
<1>0. /\ TypeOK /\ eng.t # 0 /\ eng.t \in DOMAIN txns /\ Txn \in Transaction
      /\ UNCHANGED <<before, cut, shaken>>
      /\ \A s \in Places : Goto(s) => eng'.at = s /\ eng'.t = eng.t
  <2>1. TypeOK /\ eng.t # 0
    BY DEF KeepInv, UpdaterInv, Aimed, Working, Early, Poised, At, Swap, Yield, InstallLauncher, Probe, Book, Commit
  <2>2. UNCHANGED <<before, cut, shaken>>
    BY DEF history, Swap, Yield, InstallLauncher, Probe, Book, Commit
  <2>3. \A s \in Places : Goto(s) => eng'.at = s /\ eng'.t = eng.t
    BY <2>1 DEF Goto, TypeOK
  <2> QED BY <2>1, <2>2, <2>3, AtHand
<1>1. CASE Swap
  <2>1. eng'.at # "idle"
    BY <1>0, <1>1 DEF Swap, Places
  <2> QED BY <1>1, <2>1, SwapKeeps, UnderWay
<1>2. CASE Yield
  <2>0. At("yield")
    BY <1>2 DEF Yield
  <2>1. CASE /\ txns' = IF root = "none" THEN txns ELSE [txns EXCEPT ![eng.t].legacy = root]
             /\ Goto("install") /\ UNCHANGED halved
    <3>1. eng'.at = "install" /\ eng'.t = eng.t
      BY <1>0, <2>1 DEF Places
    <3>2. (Intact' <=> Intact) /\ Old' = Old
      BY <1>0, <2>1, <3>1 DEF Intact, Old
    <3>3. Txn'.back = Txn.back /\ (root # "none" => Txn'.legacy = root)
      <4>1. CASE root = "none"
        BY <2>1, <3>1, <4>1 DEF Txn
      <4>2. CASE root # "none"
        <5>1. Txn' = [Txn EXCEPT !.legacy = root]
          BY <1>0, <2>1, <3>1, <4>2, LegacyEdits DEF Edit, Txn, TypeOK
        <5> QED BY <1>0, <5>1 DEF Transaction
      <4> QED BY <4>1, <4>2
    <3>4. Remembered'
      <4> HIDE DEF Intact, Old, Txn
      <4> QED BY <2>0, <3>1, <3>2, <3>3 DEF KeepInv, Remembered, At, Early, Poised, Back
    <3> QED BY <3>1, <3>4, UnderWay
  <2>2. CASE Return(2)
    <3>1. eng'.at = "idle" /\ exit'.code = 2
      BY <2>2 DEF Return, Idle
    <3>2. FailedKeepsOld'
      BY <3>1 DEF FailedKeepsOld, Ended
    <3> QED BY <3>1, <3>2, Forgotten DEF Forgetful
  <2> QED BY <1>2, <2>1, <2>2 DEF Yield
<1>3. CASE InstallLauncher
  <2>0. /\ At("install") /\ UNCHANGED halved
        /\ pointer.current = eng.v /\ Txn.state = "activating"
    BY <1>3 DEF InstallLauncher, history, KeepInv, UpdaterInv, Pointed, At
  <2>1. txns' = txns /\ (Goto("probe") \/ Goto("back"))
    <3>1. CASE Fail
      BY <1>0, <2>0, <3>1, FailFacts
    <3>2. CASE ~Fail
      BY <1>3, <3>2 DEF InstallLauncher
    <3> QED BY <3>1, <3>2
  <2>2. eng'.at \in {"probe", "back"} /\ eng'.t = eng.t
    BY <1>0, <2>1 DEF Places
  <2>3. (Intact' <=> Intact) /\ Old' = Old /\ Txn' = Txn
    BY <1>0, <2>0, <2>1, <2>2 DEF Intact, Old, Txn
  <2>4. Remembered'
    <3> HIDE DEF Intact, Old, Txn
    <3> QED BY <2>0, <2>2, <2>3 DEF KeepInv, Remembered, At, Early, Poised, Back
  <2> QED BY <2>2, <2>4, UnderWay
<1>4. CASE Probe
  <2>1. CASE Goto("book")
    <3>1. eng'.at = "book"
      BY <1>0, <2>1 DEF Places
    <3> QED BY <3>1, Forgotten, UnderWay DEF Forgetful
  <2>2. CASE Goto("back") /\ txns' = txns
    <3>1. At("probe") /\ UNCHANGED halved
      BY <1>4 DEF Probe, history
    <3>2. eng'.at = "back" /\ eng'.t = eng.t
      BY <1>0, <2>2 DEF Places
    <3>3. (Intact' <=> Intact) /\ Old' = Old /\ Txn' = Txn
      BY <1>0, <2>2, <3>1, <3>2 DEF Intact, Old, Txn
    <3>4. Remembered'
      <4> HIDE DEF Intact, Old, Txn
      <4> QED BY <3>1, <3>2, <3>3 DEF KeepInv, Remembered, At, Early, Poised, Back
    <3> QED BY <3>2, <3>4, UnderWay
  <2> QED BY <1>4, <2>1, <2>2 DEF Probe
<1>5. CASE Book \/ Commit
  <2>1. eng'.at \in {"commit", "list"}
    BY <1>0, <1>5 DEF Book, Commit, Places
  <2> QED BY <2>1, Forgotten, UnderWay DEF Forgetful
<1> QED BY <1>1, <1>2, <1>3, <1>4, <1>5

\* A collection: what it may fail about is committed.
LEMMA GcKeeps == ASSUME KeepInv, TypeOK', GcStep PROVE Remembered' /\ FailedKeepsOld'
<1>0. /\ TypeOK /\ eng.at \in {"list", "gc"} /\ UNCHANGED txns
      /\ eng.t # 0 => Txn.state = "committed"
  BY DEF KeepInv, UpdaterInv, Aimed, GcStep, List, GcEnd, Remove, At, disk
<1>1. CASE eng'.at = "gc"
  BY <1>1, Forgotten, UnderWay DEF Forgetful
<1>2. CASE eng' = Idle /\ (exit' = [code |-> 0, t |-> eng.t] \/ exit' = [code |-> 1, t |-> eng.t])
  <2>1. eng'.at = "idle" /\ exit'.t = eng.t /\ exit'.code \in {0, 1}
    BY <1>2 DEF Idle
  <2>2. FailedKeepsOld'
    BY <1>0, <2>1 DEF FailedKeepsOld, Ended, Txn
  <2> QED BY <2>1, <2>2, Forgotten DEF Forgetful
<1>3. eng'.at = "gc" \/ (eng' = Idle /\ (exit' = [code |-> 0, t |-> eng.t] \/ exit' = [code |-> 1, t |-> eng.t]))
  <2>1. CASE List
    BY <1>0, <2>1 DEF List, TypeOK
  <2>2. CASE GcEnd
    BY <2>2 DEF GcEnd, Return
  <2>3. ASSUME NEW v \in Versions, Remove(v)
        PROVE  eng'.at = "gc" \/ (eng' = Idle /\ exit' = [code |-> 1, t |-> eng.t])
    <3>1. At("gc")
      BY <2>3 DEF Remove
    <3>2. CASE eng' = [eng EXCEPT !.todo = @ \ {v}]
      BY <1>0, <3>1, <3>2 DEF At, TypeOK
    <3>3. CASE Return(1)
      BY <3>3 DEF Return
    <3> QED BY <2>3, <3>2, <3>3 DEF Remove
  <2> QED BY <2>1, <2>2, <2>3 DEF GcStep
<1> QED BY <1>1, <1>2, <1>3

\* A rollback that is asked for ends well or dies.
LEMMA TurnKeeps == ASSUME KeepInv, TypeOK', TurnStep PROVE Remembered' /\ FailedKeepsOld'
<1>0. TypeOK
  BY DEF KeepInv, UpdaterInv
<1>1. CASE Turn
  <2>1. eng'.at = "turned"
    BY <1>0, <1>1 DEF Turn, Goto, TypeOK
  <2> QED BY <2>1, Forgotten, UnderWay DEF Forgetful
<1>2. CASE Turned
  <2>1. eng'.at = "idle" /\ exit'.code = 0
    BY <1>2 DEF Turned, Return, Idle
  <2>2. FailedKeepsOld'
    BY <2>1 DEF FailedKeepsOld, Ended
  <2> QED BY <2>1, <2>2, Forgotten DEF Forgetful
<1> QED BY <1>1, <1>2 DEF TurnStep

LEMMA DieKeeps == ASSUME Die PROVE Remembered' /\ FailedKeepsOld'
<1>1. eng'.at = "idle" /\ exit'.code = 0
  BY DEF Die, Idle, NoExit
<1>2. FailedKeepsOld'
  BY <1>1 DEF FailedKeepsOld, Ended
<1> QED BY <1>1, <1>2, Forgotten DEF Forgetful

\* A call begins: what starts is noted when its transaction is taken up.
LEMMA CallKeeps ==
  ASSUME KeepInv, TypeOK',
         \/ UNCHANGED vars \/ (\E v \in Versions : Start(v)) \/ StartGc \/ StartRollback
         \/ Supersede \/ Resume \/ Create
  PROVE  Remembered' /\ FailedKeepsOld'
<1>0. /\ TypeOK /\ Len(txns) \in Nat /\ DOMAIN txns = 1..Len(txns) /\ DOMAIN before = 1..Len(txns)
      /\ before \in Seq(Versions \cup {"nothing", "flat", "launcher"}) /\ Len(before) = Len(txns)
      /\ txns \in Seq(Transaction)
  BY LenProperties DEF KeepInv, UpdaterInv, TypeOK
<1> USE DEF disk, history
<1>1. CASE UNCHANGED vars
  <2>1. UNCHANGED <<root, pointer, dir, txns, eng, exit, before, cut, halved, shaken>>
    BY <1>1 DEF vars
  <2>2. /\ Starts' = Starts /\ Txn' = Txn /\ Old' = Old /\ (Intact' <=> Intact)
        /\ \A c \in 0..3 : Ended(c)' <=> Ended(c)
    BY <2>1 DEF Starts, Txn, Old, Intact, Ended, At
  <2>3. Remembered'
    <3> HIDE DEF Starts, Intact, Old, Txn
    <3> QED BY <2>1, <2>2 DEF KeepInv, Remembered, At
  <2>4. FailedKeepsOld'
    <3> HIDE DEF Starts, Ended
    <3> QED BY <2>1, <2>2 DEF KeepInv, FailedKeepsOld
  <2> QED BY <2>3, <2>4
<1>2. CASE (\E v \in Versions : Start(v)) \/ StartGc \/ StartRollback \/ Supersede
  <2>1. eng'.at \in {"find", "list", "turn"}
    BY <1>2 DEF Start, StartGc, StartRollback, Supersede, Idle, At
  <2> QED BY <2>1, Forgotten, UnderWay DEF Forgetful
<1>3. CASE Resume
  <2>1. /\ eng'.at = "look" /\ eng'.t = First /\ eng'.v = eng.v /\ First \in 1..Len(txns)
        /\ UNCHANGED <<root, pointer, dir, txns, halved>>
    BY <1>0, <1>3, FirstIsOpen DEF Resume, TypeOK
  <2>2. CASE pointer.current = eng.v
    <3>1. eng'.t \in cut'
      BY <1>3, <2>1, <2>2 DEF Resume
    <3>2. Remembered'
      BY <2>1, <3>1 DEF Remembered, Intact, At, Early, Poised, Back
    <3> QED BY <2>1, <3>2, UnderWay
  <2>3. CASE pointer.current # eng.v
    <3>1. before' = [before EXCEPT ![First] = Starts]
      BY <1>3, <2>3 DEF Resume
    <3>2. Old' = Starts /\ Starts' = Starts
      BY <1>0, <2>1, <3>1 DEF Old, Starts
    <3>3. Remembered'
      <4> HIDE DEF Starts, Intact, Old, Txn
      <4> QED BY <2>1, <2>3, <3>2 DEF Remembered, At, Early, Poised, Back
    <3> QED BY <2>1, <3>3, UnderWay
  <2> QED BY <2>2, <2>3
<1>4. CASE Create
  <2>1. /\ eng'.at = "look" /\ eng'.t = Len(txns) + 1 /\ UNCHANGED <<root, pointer, dir, halved>>
        /\ before' = Append(before, Starts) /\ txns' = Append(txns, NewTxn("update", eng.v, "checking"))
    BY <1>0, <1>4 DEF Create, TypeOK
  <2>2. eng.v \in Versions /\ NewTxn("update", eng.v, "checking") \in Transaction
    BY <1>4, UpdaterAssumption DEF KeepInv, UpdaterInv, Aimed, Create, At, NewTxn, Transaction, States
  <2>3. before'[Len(txns) + 1] = Starts
    BY <1>0, <2>1, StartsType, AppendProperties
  <2>4. Txn' = NewTxn("update", eng.v, "checking")
    BY <1>0, <2>1, <2>2, AppendProperties DEF Txn
  <2>5. Old' = Starts /\ Starts' = Starts /\ Txn'.state = "checking"
    BY <2>1, <2>3, <2>4 DEF Old, Starts, NewTxn
  <2>6. Remembered'
    <3> HIDE DEF Starts, Intact, Old, Txn
    <3> QED BY <2>1, <2>5 DEF Remembered, At, Early, Poised, Back
  <2> QED BY <2>1, <2>6, UnderWay
<1> QED BY <1>1, <1>2, <1>3, <1>4

\* The way back: what it brings back is what started.
LEMMA BackKeeps == ASSUME KeepInv, TypeOK', BackStep PROVE Remembered' /\ FailedKeepsOld'
<1>0. /\ TypeOK /\ eng.t # 0 /\ eng.t \in DOMAIN txns /\ Txn \in Transaction
      /\ UNCHANGED <<before, cut>>
      /\ \A s \in Places : Goto(s) => eng'.at = s /\ eng'.t = eng.t /\ eng'.bad = eng.bad
  <2>1. TypeOK /\ eng.t # 0
    BY DEF KeepInv, UpdaterInv, Aimed, Working, Back, At, BackStep, GoBack, Park, Restore, Drop, RolledBack
  <2>2. UNCHANGED <<before, cut>>
    BY DEF history, BackStep, GoBack, Park, Restore, Drop, RolledBack
  <2>3. \A s \in Places : Goto(s) => eng'.at = s /\ eng'.t = eng.t /\ eng'.bad = eng.bad
    BY <2>1 DEF Goto, TypeOK
  <2> QED BY <2>1, <2>2, <2>3, AtHand
<1>1. ASSUME GoBack \/ Park \/ Restore \/ Drop,
             eng'.at \in Back, eng'.t = eng.t, UNCHANGED <<txns, halved>>
      PROVE  Txn' = Txn /\ Old' = Old /\ (Intact' <=> Intact) /\ FailedKeepsOld'
  <2>1. eng'.at # "idle"
    BY <1>1 DEF Back
  <2> QED BY <1>0, <1>1, <2>1, UnderWay DEF Txn, Old, Intact
<1>2. CASE GoBack
  <2>0. At("back") /\ UNCHANGED <<root, txns, halved>>
    BY <1>2 DEF GoBack
  <2>1. CASE Txn.back # NoVersion /\ pointer' = [current |-> Txn.back, previous |-> eng.v] /\ Goto("backed")
    <3>1. eng'.at = "backed" /\ eng'.t = eng.t
      BY <1>0, <2>1 DEF Places
    <3>2. Txn' = Txn /\ Old' = Old /\ (Intact' <=> Intact) /\ FailedKeepsOld'
      BY <1>1, <1>2, <2>0, <3>1 DEF Back
    <3>3. Remembered'
      <4> HIDE DEF Intact, Old, Txn
      <4> QED BY <2>0, <2>1, <3>1, <3>2 DEF KeepInv, Remembered, At, Early, Poised, Back
    <3> QED BY <3>2, <3>3
  <2>2. CASE /\ Goto("restore")
             /\ (Txn.back = NoVersion /\ shaken' = shaken) \/ shaken' = shaken \cup {eng.t}
    <3>1. eng'.at = "restore" /\ eng'.t = eng.t
      BY <1>0, <2>2 DEF Places
    <3>2. Txn' = Txn /\ Old' = Old /\ (Intact' <=> Intact) /\ FailedKeepsOld'
      BY <1>1, <1>2, <2>0, <3>1 DEF Back
    <3>3. Remembered'
      <4> HIDE DEF Intact, Old, Txn
      <4> QED BY <2>0, <2>2, <3>1, <3>2 DEF KeepInv, Remembered, At, Early, Poised, Back
    <3> QED BY <3>2, <3>3
  <2> QED BY <1>2, <2>1, <2>2 DEF GoBack
<1>3. CASE Park
  <2>0. At("restore") /\ UNCHANGED <<pointer, txns, halved, shaken>>
    BY <1>3 DEF Park, history
  <2>1. /\ eng'.at \in {"drop", "restored"} /\ eng'.t = eng.t
        /\ eng'.at = "drop" => eng'.bad \/ (Txn.legacy = "none" /\ root' = root)
    BY <1>0, <1>3 DEF Park, Places, TypeOK
  <2>2. Txn' = Txn /\ Old' = Old /\ (Intact' <=> Intact) /\ FailedKeepsOld'
    BY <1>1, <1>3, <2>0, <2>1 DEF Back
  <2>3. Remembered'
    <3> HIDE DEF Intact, Old, Txn
    <3> QED BY <2>0, <2>1, <2>2 DEF KeepInv, Remembered, At, Early, Poised, Back
  <2> QED BY <2>2, <2>3
<1>4. CASE Restore
  <2>0. At("restored") /\ UNCHANGED <<pointer, txns, halved, shaken>>
    BY <1>4 DEF Restore, history
  <2>1. /\ eng'.at = "drop" /\ eng'.t = eng.t
        /\ eng'.bad \/ root' = Txn.legacy
    <3>1. CASE root' = Txn.legacy /\ Goto("drop")
      BY <1>0, <3>1 DEF Places
    <3>2. CASE eng' = [eng EXCEPT !.at = "drop", !.bad = TRUE]
      <4>1. eng'.at = "drop" /\ eng'.t = eng.t /\ eng'.bad = TRUE
        BY <1>0, <3>2 DEF TypeOK
      <4> QED BY <4>1
    <3> QED BY <1>4, <3>1, <3>2 DEF Restore
  <2>2. Txn' = Txn /\ Old' = Old /\ (Intact' <=> Intact) /\ FailedKeepsOld'
    BY <1>1, <1>4, <2>0, <2>1 DEF Back
  <2>3. Remembered'
    <3> HIDE DEF Intact, Old, Txn
    <3> QED BY <2>0, <2>1, <2>2 DEF KeepInv, Remembered, At, Early, Poised, Back
  <2> QED BY <2>2, <2>3
<1>5. CASE Drop
  <2>0. At("drop") /\ UNCHANGED <<root, txns, halved>>
    BY <1>5 DEF Drop
  <2>1. /\ eng'.at = "backed" /\ eng'.t = eng.t /\ eng'.bad = eng.bad
        /\ shaken' = shaken \cup {eng.t} \/ (pointer' = NoPointer /\ shaken' = shaken)
    BY <1>0, <1>5 DEF Drop, Places
  <2>2. Txn' = Txn /\ Old' = Old /\ (Intact' <=> Intact) /\ FailedKeepsOld'
    BY <1>1, <1>5, <2>0, <2>1 DEF Back
  <2>3. Remembered'
    <3> HIDE DEF Intact, Old, Txn
    <3> QED BY <2>0, <2>1, <2>2 DEF KeepInv, Remembered, At, Early, Poised, Back
  <2> QED BY <2>2, <2>3
<1>6. CASE RolledBack
  <2>1. /\ At("backed") /\ UNCHANGED <<root, pointer, dir, shaken>>
        /\ eng'.at = "idle" /\ exit'.t = eng.t
        /\ exit'.code = IF eng.bad THEN 2 ELSE 3
    BY <1>6 DEF RolledBack, Return, Idle
  <2>2. halved' = (halved \/ Split)
    BY <1>6 DEF RolledBack
  <2>3. ASSUME ~halved', eng.t \notin cut, eng.t \notin shaken, ~eng.bad
        PROVE  Starts = Old
    <3>1. ~halved /\ ~Split
      BY <2>2, <2>3
    <3>2. Intact
      BY <2>3, <3>1 DEF Intact
    <3>3. CASE Txn.back = NoVersion
      <4>1. pointer = NoPointer /\ root = Old /\ Old \in {"flat", "launcher"}
        <5> HIDE DEF Intact, Old, Txn
        <5> QED BY <2>1, <2>3, <3>2, <3>3 DEF KeepInv, Remembered, Back, At
      <4> QED BY <4>1 DEF Starts
    <3>4. CASE Txn.back # NoVersion
      <4>1. pointer.current = Txn.back /\ Old = Txn.back
        <5> HIDE DEF Intact, Old, Txn
        <5> QED BY <2>1, <2>3, <3>2, <3>4 DEF KeepInv, Remembered, Back, At
      <4>2. pointer # NoPointer
        BY <3>4, <4>1 DEF NoPointer
      <4>3. root = "launcher" /\ dir[pointer.current] = "whole"
        BY <3>1, <4>2 DEF Split, KeepInv, UpdaterInv, PointerIsWhole
      <4> QED BY <4>1, <4>2, <4>3 DEF Starts
    <3> QED BY <3>3, <3>4
  <2>4. FailedKeepsOld'
    <3>1. Starts' = Starts
      BY <2>1 DEF Starts
    <3> HIDE DEF Starts
    <3> QED BY <1>0, <2>1, <2>3, <3>1 DEF FailedKeepsOld, Ended, Old
  <2> QED BY <2>1, <2>4, Forgotten DEF Forgetful
<1> QED BY <1>2, <1>3, <1>4, <1>5, <1>6 DEF BackStep

LEMMA KeepStep == KeepInv /\ [Next]_vars => KeepInv'
<1> SUFFICES ASSUME KeepInv, [Next]_vars PROVE KeepInv'
  OBVIOUS
<1>1. UpdaterInv' /\ TypeOK'
  BY UpdaterStep DEF KeepInv, UpdaterInv
<1>2. Remembered' /\ FailedKeepsOld'
  BY <1>1, CallKeeps, UpdateKeeps, TailKeeps, GcKeeps, TurnKeeps, BackKeeps, DieKeeps DEF Next, Step, UpdateStep
<1> QED BY <1>1, <1>2 DEF KeepInv

LEMMA InitKeep == Init => KeepInv
<1> SUFFICES ASSUME Init PROVE KeepInv
  OBVIOUS
<1>1. eng.at = "idle" /\ exit.t = 0
  BY DEF Init, Idle, NoExit
<1>2. Remembered /\ FailedKeepsOld
  BY <1>1 DEF Remembered, FailedKeepsOld, Ended, Early, Poised, Back, At
<1> QED BY <1>2, InitUpdater DEF KeepInv

\* After a call that ended as failed or rolled back the program's name starts
\* what it started before, unless the transaction was resumed after its own
\* swap, its way back found nothing that answers or could not remove the
\* pointer, or an earlier call stopped between the pointer and the root.
THEOREM FailedCorrect == Spec => []FailedKeepsOld
BY InitKeep, KeepStep, PTL DEF Spec, KeepInv
=============================================================================
