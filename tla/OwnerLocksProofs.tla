-------------------------- MODULE OwnerLocksProofs --------------------------
(* Theorems about OwnerLocks, for any number of processes, rounds, deaths and *)
(* failures.                                                                  *)
EXTENDS OwnerLocks, FiniteSetTheorems, TLAPS

\* What holds of the process p while nothing has slipped: the lock is its own from
\* the moment it made it, and says so from the moment it wrote it.
Owns(p) ==
  p \in alive /\ pc[p] \in Mine =>
    /\ by = p /\ ~old
    /\ pc[p] = "write" => owner = Nobody
    /\ pc[p] \in Having \cup {"check", "removing"} => owner = p
    /\ pc[p] = "unlink" => owner = (IF Dir THEN Nobody ELSE p)

\* A challenger that is about to clear a lock has judged a dead owner.
AimsAtDead(p) == pc[p] = "clear" => aim[p] \notin alive

\* Only a directory is pinned or emptied.
OnlyDirs(p) == pc[p] \in {"pin", "removing"} => Dir

UnlessSlipped ==
  ~slipped => /\ owner \in {Nobody, by}
              /\ \A p \in Procs : Owns(p)

LocksInv ==
  /\ TypeOK /\ (old => owner = Nobody)
  /\ \A p \in Procs : AimsAtDead(p) /\ OnlyDirs(p)
  /\ UnlessSlipped

\* The path can be free.
LEMMA NobodyIsNoProcess == \A p \in Procs : p # Nobody
BY LockAssumption

\* The initial state.
LEMMA InitLocks == Init => LocksInv
<1> SUFFICES ASSUME Init PROVE LocksInv
  OBVIOUS
<1>1. 0 \in 0..Rounds - 1 BY LockAssumption
<1>2. TypeOK BY <1>1 DEF Init, TypeOK, Ended
<1>3. \A p \in Procs : AimsAtDead(p) /\ OnlyDirs(p) /\ Owns(p)
  BY DEF Init, AimsAtDead, OnlyDirs, Owns, Mine, Having
<1>4. UnlessSlipped BY <1>3 DEF Init, UnlessSlipped
<1> QED BY <1>2, <1>3, <1>4 DEF Init, LocksInv

\* Counting rounds keeps tries and pc in their ranges.
LEMMA NextRoundTypes ==
  ASSUME TypeOK, NEW p \in Procs, NextRound(p)
  PROVE  /\ tries' \in [Procs -> 0..Rounds - 1]
         /\ pc' \in [Procs -> Ended \cup Seeking \cup Mine]
         /\ pc' = [pc EXCEPT ![p] = pc'[p]]
         /\ pc'[p] \in {"create", "failed"}
<1>1. CASE tries[p] + 1 < Rounds
  <2>1. tries[p] \in 0..Rounds - 1 BY DEF TypeOK
  <2>2. tries[p] + 1 \in 0..Rounds - 1 BY <1>1, <2>1, LockAssumption
  <2>3. tries' = [tries EXCEPT ![p] = tries[p] + 1] /\ pc' = [pc EXCEPT ![p] = "create"]
    BY <1>1 DEF NextRound, Go
  <2> QED BY <2>2, <2>3 DEF TypeOK, Seeking
<1>2. CASE ~(tries[p] + 1 < Rounds)
  <2>1. tries' = tries /\ pc' = [pc EXCEPT ![p] = "failed"] BY <1>2 DEF NextRound, Go
  <2> QED BY <2>1 DEF TypeOK, Ended
<1> QED BY <1>1, <1>2

\* Types. One step per action.
LEMMA TypeStep == TypeOK /\ [Next]_vars => TypeOK'
<1> SUFFICES ASSUME TypeOK, [Next]_vars PROVE TypeOK'
  OBVIOUS
<1> USE DEF TypeOK, place, world, Go, At, Ended, Seeking, Mine, Having
<1>1. CASE UNCHANGED vars BY <1>1 DEF vars
<1>2. CASE Ages BY <1>2 DEF Ages
<1>3. ASSUME NEW p \in Procs, Begin(p) PROVE TypeOK'
  <2>1. 0 \in 0..Rounds - 1 BY LockAssumption
  <2> QED BY <1>3, <2>1 DEF Begin
<1>4. ASSUME NEW p \in Procs, Create(p) PROVE TypeOK' BY <1>4 DEF Create
<1>5. ASSUME NEW p \in Procs, WriteOwner(p) PROVE TypeOK' BY <1>5 DEF WriteOwner
<1>6. ASSUME NEW p \in Procs, WriteFails(p) PROVE TypeOK' BY <1>6 DEF WriteFails, Vacated
<1>7. ASSUME NEW p \in Procs, Pin(p) PROVE TypeOK' BY <1>7 DEF Pin
<1>8. ASSUME NEW p \in Procs, Look(p) PROVE TypeOK'
  <2>1. CASE NextRound(p) /\ UNCHANGED <<place, world, slipped, aim>> BY <2>1, NextRoundTypes
  <2>2. CASE ~(NextRound(p) /\ UNCHANGED <<place, world, slipped, aim>>) BY <1>8, <2>2 DEF Look
  <2> QED BY <2>1, <2>2
<1>9. ASSUME NEW p \in Procs, Read(p) PROVE TypeOK'
  <2>1. CASE NextRound(p) /\ UNCHANGED <<place, world, slipped, aim>> BY <2>1, NextRoundTypes
  <2>2. CASE ~(NextRound(p) /\ UNCHANGED <<place, world, slipped, aim>>) BY <1>9, <2>2 DEF Read
  <2> QED BY <2>1, <2>2
<1>10. ASSUME NEW p \in Procs, Recheck(p) PROVE TypeOK'
  <2>1. CASE NextRound(p) /\ UNCHANGED <<place, world, slipped, aim>> BY <2>1, NextRoundTypes
  <2>2. CASE ~(NextRound(p) /\ UNCHANGED <<place, world, slipped, aim>>) BY <1>10, <2>2 DEF Recheck
  <2> QED BY <2>1, <2>2
<1>11. ASSUME NEW p \in Procs, Clear(p) PROVE TypeOK'
  <2>1. UNCHANGED <<world, aim>> BY <1>11 DEF Clear
  <2>2. /\ by' \in Procs \cup {Nobody} /\ owner' \in Procs \cup {Nobody} /\ old' \in BOOLEAN
        /\ slipped' \in BOOLEAN
    BY <1>11 DEF Clear, Vacated, Judged
  <2>3. CASE NextRound(p) BY <2>1, <2>2, <2>3, NextRoundTypes
  <2>4. CASE ~NextRound(p) BY <1>11, <2>1, <2>2, <2>4 DEF Clear
  <2> QED BY <2>3, <2>4
<1>12. ASSUME NEW p \in Procs, Release(p) PROVE TypeOK' BY <1>12 DEF Release
<1>13. ASSUME NEW p \in Procs, Check(p) PROVE TypeOK' BY <1>13 DEF Check
<1>14. ASSUME NEW p \in Procs, RemoveOwner(p) PROVE TypeOK' BY <1>14 DEF RemoveOwner
<1>15. ASSUME NEW p \in Procs, Unlink(p) PROVE TypeOK' BY <1>15 DEF Unlink, Vacated
<1>16. ASSUME NEW p \in Procs, Dies(p) PROVE TypeOK' BY <1>16 DEF Dies
<1>17. ASSUME NEW p \in Procs, Reused(p) PROVE TypeOK' BY <1>17 DEF Reused
<1> QED BY <1>1, <1>2, <1>3, <1>4, <1>5, <1>6, <1>7, <1>8, <1>9, <1>10, <1>11, <1>12, <1>13, <1>14, <1>15, <1>16, <1>17 DEF Next, Steps

\* Every variable keeps its range, in every run of every instance.
THEOREM LocksTypeCorrect == Spec => []TypeOK
<1>1. Init => TypeOK BY InitLocks DEF LocksInv
<1> QED BY <1>1, TypeStep, PTL DEF Spec

\* While nothing slips nobody but p owns anything where p does.
LEMMA OneOwner ==
  ASSUME LocksInv, ~slipped, NEW p \in Procs, NEW q \in Procs, q # p,
         by = p \/ by = Nobody
  PROVE  ~(q \in alive /\ pc[q] \in Mine)
BY NobodyIsNoProcess DEF LocksInv, UnlessSlipped, Owns

\* A lock somebody owns has a record of a live process, or is young.
LEMMA OwnedIsNotJudged ==
  ASSUME LocksInv, ~slipped, NEW p \in Procs, pc[p] = "clear", Judged(p), NEW q \in Procs
  PROVE  ~(q \in alive /\ pc[q] \in Mine)
BY NobodyIsNoProcess DEF LocksInv, UnlessSlipped, Owns, AimsAtDead, Judged, TypeOK

\* The parts that hold whatever slips.
LEMMA PlainStep ==
  LocksInv /\ [Next]_vars => (old => owner = Nobody)' /\ (\A p \in Procs : AimsAtDead(p))'
<1> SUFFICES ASSUME LocksInv, [Next]_vars
             PROVE  (old' => owner' = Nobody) /\ \A q \in Procs : AimsAtDead(q)'
  OBVIOUS
<1> USE NobodyIsNoProcess DEF LocksInv, TypeOK, AimsAtDead, place, world, Go, At
<1>1. CASE UNCHANGED vars BY <1>1 DEF vars
<1>2. CASE Ages BY <1>2 DEF Ages
<1>3. ASSUME NEW p \in Procs, Begin(p) \/ Pin(p) \/ Release(p) \/ Check(p)
      PROVE  (old' => owner' = Nobody) /\ \A q \in Procs : AimsAtDead(q)'
  BY <1>3 DEF Begin, Pin, Release, Check
<1>4. ASSUME NEW p \in Procs, Create(p)
      PROVE  (old' => owner' = Nobody) /\ \A q \in Procs : AimsAtDead(q)'
  BY <1>4 DEF Create
<1>5. ASSUME NEW p \in Procs, WriteOwner(p)
      PROVE  (old' => owner' = Nobody) /\ \A q \in Procs : AimsAtDead(q)'
  <2>1. old' => owner' = Nobody BY <1>5 DEF WriteOwner
  <2>2. \A q \in Procs : AimsAtDead(q)' BY <1>5 DEF WriteOwner
  <2> QED BY <2>1, <2>2
<1>6. ASSUME NEW p \in Procs, WriteFails(p)
      PROVE  (old' => owner' = Nobody) /\ \A q \in Procs : AimsAtDead(q)'
  BY <1>6 DEF WriteFails, Vacated
<1>7. ASSUME NEW p \in Procs, Look(p)
      PROVE  (old' => owner' = Nobody) /\ \A q \in Procs : AimsAtDead(q)'
  BY <1>7, NextRoundTypes DEF Look
<1>8. ASSUME NEW p \in Procs, Read(p)
      PROVE  (old' => owner' = Nobody) /\ \A q \in Procs : AimsAtDead(q)'
  BY <1>8, NextRoundTypes DEF Read, SeemsAlive
<1>9. ASSUME NEW p \in Procs, Recheck(p)
      PROVE  (old' => owner' = Nobody) /\ \A q \in Procs : AimsAtDead(q)'
  BY <1>9, NextRoundTypes DEF Recheck
<1>10. ASSUME NEW p \in Procs, Clear(p)
       PROVE  (old' => owner' = Nobody) /\ \A q \in Procs : AimsAtDead(q)'
  <2>1. old' => owner' = Nobody BY <1>10 DEF Clear, Vacated
  <2>2. UNCHANGED <<aim, alive>> BY <1>10 DEF Clear
  <2>3. \E s \in {"create", "failed"} : pc' = [pc EXCEPT ![p] = s] BY <1>10, NextRoundTypes DEF Clear
  <2> QED BY <2>1, <2>2, <2>3
<1>11. ASSUME NEW p \in Procs, RemoveOwner(p)
       PROVE  (old' => owner' = Nobody) /\ \A q \in Procs : AimsAtDead(q)'
  BY <1>11 DEF RemoveOwner
<1>12. ASSUME NEW p \in Procs, Unlink(p)
       PROVE  (old' => owner' = Nobody) /\ \A q \in Procs : AimsAtDead(q)'
  BY <1>12 DEF Unlink, Vacated
<1>13. ASSUME NEW p \in Procs, Dies(p)
       PROVE  (old' => owner' = Nobody) /\ \A q \in Procs : AimsAtDead(q)'
  BY <1>13 DEF Dies
<1>14. ASSUME NEW p \in Procs, Reused(p)
       PROVE  (old' => owner' = Nobody) /\ \A q \in Procs : AimsAtDead(q)'
  BY <1>14 DEF Reused
<1> QED BY <1>1, <1>2, <1>3, <1>4, <1>5, <1>6, <1>7, <1>8, <1>9, <1>10, <1>11, <1>12, <1>13, <1>14 DEF Next, Steps

\* Pinning and emptying stay with directories.
LEMMA OnlyDirsStep == LocksInv /\ [Next]_vars => (\A p \in Procs : OnlyDirs(p))'
<1> SUFFICES ASSUME LocksInv, [Next]_vars PROVE \A q \in Procs : OnlyDirs(q)'
  OBVIOUS
<1> USE DEF LocksInv, TypeOK, OnlyDirs, world, Go, Dir
<1>1. CASE UNCHANGED vars BY <1>1 DEF vars
<1>2. CASE Ages BY <1>2 DEF Ages
<1>3. ASSUME NEW p \in Procs, Begin(p) \/ Create(p) \/ WriteFails(p) \/ Pin(p) \/ Release(p) \/ Check(p)
      PROVE  \A q \in Procs : OnlyDirs(q)'
  BY <1>3 DEF Begin, Create, WriteFails, Pin, Release, Check
<1>4. ASSUME NEW p \in Procs, WriteOwner(p) \/ RemoveOwner(p) \/ Unlink(p)
      PROVE  \A q \in Procs : OnlyDirs(q)'
  BY <1>4 DEF WriteOwner, RemoveOwner, Unlink
<1>5. ASSUME NEW p \in Procs, Look(p) \/ Read(p) \/ Recheck(p) \/ Clear(p)
      PROVE  \A q \in Procs : OnlyDirs(q)'
  BY <1>5, NextRoundTypes DEF Look, Read, Recheck, Clear
<1>6. ASSUME NEW p \in Procs, Dies(p) \/ Reused(p) PROVE \A q \in Procs : OnlyDirs(q)'
  BY <1>6 DEF Dies, Reused
<1> QED BY <1>1, <1>2, <1>3, <1>4, <1>5, <1>6 DEF Next, Steps

\* The part that holds while nothing slips. Who is not the process that steps
\* keeps what it has because only one process can have anything (OneOwner).
LEMMA UnlessSlippedStep == LocksInv /\ TypeOK' /\ [Next]_vars => UnlessSlipped'
<1> SUFFICES ASSUME LocksInv, TypeOK', [Next]_vars, ~slipped'
             PROVE  owner' \in {Nobody, by'} /\ \A q \in Procs : Owns(q)'
  BY DEF UnlessSlipped
<1> DEFINE Goal == owner' \in {Nobody, by'} /\ \A q \in Procs : Owns(q)'
<1> SUFFICES Goal
  OBVIOUS
<1> USE DEF place, world, Go, At
<1>n. /\ ~slipped
      /\ TypeOK /\ (old => owner = Nobody) /\ owner \in {Nobody, by}
      /\ \A q \in Procs : Owns(q) /\ OnlyDirs(q)
  <2>1. slipped => slipped'
    BY DEF Next, Steps, vars, Ages, Begin, Create, WriteOwner, WriteFails, Pin, Look, Read, Recheck,
           Clear, Release, Check, RemoveOwner, Unlink, Dies, Reused
  <2> QED BY <2>1 DEF LocksInv, UnlessSlipped
<1>1. CASE UNCHANGED vars BY <1>1, <1>n DEF vars, Owns, Dir
<1>2. CASE Ages
  <2>1. \A q \in Procs : ~(q \in alive /\ pc[q] \in Mine)
    BY <1>2, <1>n, NobodyIsNoProcess DEF Ages, Between, Owns, Mine, Having
  <2> QED BY <1>2, <1>n, <2>1 DEF Ages, Owns
<1>3. ASSUME NEW p \in Procs, Begin(p) PROVE Goal
  BY <1>3, <1>n DEF Begin, Owns, TypeOK, Mine, Having, Dir
<1>4. ASSUME NEW p \in Procs, Create(p) PROVE Goal
  <2>1. CASE by = Nobody
    <3>1. \A q \in Procs : q # p => ~(q \in alive /\ pc[q] \in Mine) BY <2>1, <1>n, OneOwner
    <3> QED BY <1>4, <1>n, <2>1, <3>1 DEF Create, Owns, TypeOK, Mine, Having
  <2>2. CASE by # Nobody BY <1>4, <1>n, <2>2 DEF Create, Owns, TypeOK, Mine, Having, Dir
  <2> QED BY <2>1, <2>2
<1>5. ASSUME NEW p \in Procs, WriteOwner(p) PROVE Goal
  <2>1. by = p BY <1>5, <1>n DEF WriteOwner, Owns, Mine
  <2>2. \A q \in Procs : q # p => ~(q \in alive /\ pc[q] \in Mine) BY <2>1, <1>n, OneOwner
  <2>3. by' = p /\ owner' = p /\ old' = FALSE /\ UNCHANGED <<kind, alive>>
    BY <1>5, <2>1, NobodyIsNoProcess DEF WriteOwner
  <2>4. \E s \in {"pin", "held"} : pc' = [pc EXCEPT ![p] = s] BY <1>5 DEF WriteOwner
  <2> QED BY <1>n, <2>2, <2>3, <2>4 DEF Owns, TypeOK, Mine, Having
<1>6. ASSUME NEW p \in Procs, WriteFails(p) PROVE Goal
  <2>1. by = p BY <1>6, <1>n DEF WriteFails, Owns, Mine
  <2>2. \A q \in Procs : q # p => ~(q \in alive /\ pc[q] \in Mine) BY <2>1, <1>n, OneOwner
  <2> QED BY <1>6, <1>n, <2>1, <2>2 DEF WriteFails, Vacated, Owns, TypeOK, Mine, Having
<1>7. ASSUME NEW p \in Procs, Pin(p) PROVE Goal
  BY <1>7, <1>n DEF Pin, Owns, TypeOK, Mine, Having, Dir
<1>8. ASSUME NEW p \in Procs, NEW s \in Ended \cup Seeking, pc' = [pc EXCEPT ![p] = s],
             UNCHANGED <<place, world>>
      PROVE  Goal
  BY <1>8, <1>n DEF Owns, TypeOK, Ended, Seeking, Mine, Having, Dir
<1>9. ASSUME NEW p \in Procs, Look(p) PROVE Goal
  <2>1. UNCHANGED <<place, world>> BY <1>9 DEF Look
  <2>2. \E s \in Ended \cup Seeking : pc' = [pc EXCEPT ![p] = s]
    BY <1>9, <1>n, NextRoundTypes DEF Look, Ended, Seeking
  <2> QED BY <1>8, <2>1, <2>2
<1>10. ASSUME NEW p \in Procs, Read(p) PROVE Goal
  <2>1. UNCHANGED <<place, world>> BY <1>10 DEF Read
  <2>2. CASE \E s \in Ended \cup Seeking : pc' = [pc EXCEPT ![p] = s] BY <1>8, <2>1, <2>2
  <2>3. CASE pc' = [pc EXCEPT ![p] = "kept"] /\ owner = p
    BY <1>n, <2>1, <2>3, NobodyIsNoProcess DEF Owns, TypeOK, Mine, Having, Dir
  <2>4. \/ \E s \in Ended \cup Seeking : pc' = [pc EXCEPT ![p] = s]
        \/ pc' = [pc EXCEPT ![p] = "kept"] /\ owner = p
    BY <1>10, <1>n, NextRoundTypes DEF Read, Ended, Seeking
  <2> QED BY <2>2, <2>3, <2>4
<1>11. ASSUME NEW p \in Procs, Recheck(p) PROVE Goal
  <2>1. UNCHANGED <<place, world>> BY <1>11 DEF Recheck
  <2>2. \E s \in Ended \cup Seeking : pc' = [pc EXCEPT ![p] = s]
    BY <1>11, <1>n, NextRoundTypes DEF Recheck, Ended, Seeking
  <2> QED BY <1>8, <2>1, <2>2
<1>12. ASSUME NEW p \in Procs, Clear(p) PROVE Goal
  <2>1. PICK s \in Ended \cup Seeking : pc' = [pc EXCEPT ![p] = s]
    BY <1>12, <1>n, NextRoundTypes DEF Clear, Ended, Seeking
  <2>2. UNCHANGED world BY <1>12 DEF Clear
  <2>3. CASE UNCHANGED place BY <1>8, <2>1, <2>2, <2>3
  <2>4. CASE ~UNCHANGED place
    <3>1. pc[p] = "clear" /\ Judged(p) /\ Vacated BY <1>12, <2>4 DEF Clear
    <3>2. \A q \in Procs : ~(q \in alive /\ pc[q] \in Mine) BY <3>1, <1>n, OwnedIsNotJudged
    <3> QED BY <2>1, <2>2, <3>1, <3>2, <1>n DEF Vacated, Owns, TypeOK, Ended, Seeking, Mine, Having
  <2> QED BY <2>3, <2>4
<1>13. ASSUME NEW p \in Procs, Release(p) PROVE Goal
  BY <1>13, <1>n DEF Release, Owns, TypeOK, Mine, Having, Dir, DirKinds
<1>14. ASSUME NEW p \in Procs, Check(p) PROVE Goal
  BY <1>14, <1>n DEF Check, Owns, TypeOK, Mine, Having, Dir
<1>15. ASSUME NEW p \in Procs, RemoveOwner(p) PROVE Goal
  <2>1. by = p /\ owner = p BY <1>15, <1>n DEF RemoveOwner, Owns, Mine
  <2>2. \A q \in Procs : q # p => ~(q \in alive /\ pc[q] \in Mine) BY <2>1, <1>n, OneOwner
  <2>3. CASE pc' = [pc EXCEPT ![p] = "idle"] /\ UNCHANGED <<place, world>>
    BY <1>8, <2>3 DEF Ended
  <2>4. CASE pc' = [pc EXCEPT ![p] = "unlink"] /\ owner' = Nobody /\ old' = FALSE /\ UNCHANGED <<by, world>>
    <3>1. Dir BY <1>15, <1>n DEF RemoveOwner, OnlyDirs
    <3> QED BY <2>1, <2>2, <2>4, <3>1, <1>n DEF Owns, TypeOK, Mine, Having, Dir
  <2> QED BY <1>15, <2>1, <2>3, <2>4, NobodyIsNoProcess DEF RemoveOwner
<1>16. ASSUME NEW p \in Procs, Unlink(p) PROVE Goal
  <2>1. by = p BY <1>16, <1>n DEF Unlink, Owns, Mine
  <2>2. \A q \in Procs : q # p => ~(q \in alive /\ pc[q] \in Mine) BY <2>1, <1>n, OneOwner
  <2>3. owner = (IF Dir THEN Nobody ELSE p) BY <1>16, <1>n DEF Unlink, Owns, Mine
  <2>4. pc' = [pc EXCEPT ![p] = "idle"] /\ UNCHANGED world /\ (UNCHANGED place \/ Vacated)
    BY <1>16, <2>3 DEF Unlink
  <2> QED BY <1>n, <2>2, <2>4 DEF Vacated, Owns, TypeOK, Mine, Having, Dir
<1>17. ASSUME NEW p \in Procs, Dies(p) PROVE Goal
  BY <1>17, <1>n DEF Dies, Owns, TypeOK, Dir
<1>18. ASSUME NEW p \in Procs, Reused(p) PROVE Goal
  BY <1>18, <1>n DEF Reused, Owns, Dir
<1> HIDE DEF Goal
<1> QED BY <1>1, <1>2, <1>3, <1>4, <1>5, <1>6, <1>7, <1>9, <1>10, <1>11, <1>12, <1>13, <1>14, <1>15, <1>16, <1>17, <1>18 DEF Next, Steps

\* Every step keeps the invariant, so it holds in every run.
LEMMA LocksStep == LocksInv /\ [Next]_vars => LocksInv'
BY TypeStep, PlainStep, OnlyDirsStep, UnlessSlippedStep DEF LocksInv

\* The lock is its maker's from the moment it is made, and names it from the moment
\* the record is written, as long as nothing slips.
THEOREM LocksInductive == Spec => []LocksInv
BY InitLocks, LocksStep, PTL DEF Spec

\* A set whose members are all one is a singleton or empty.
LEMMA AtMostOne ==
  ASSUME NEW S, NEW x, \A y \in S : y = x
  PROVE  Cardinality(S) <= 1
<1>1. CASE S = {} BY <1>1, FS_EmptySet
<1>2. CASE S # {}
  <2>1. S = {x} BY <1>2
  <2> QED BY <2>1, FS_Singleton
<1> QED BY <1>1, <1>2

\* Two processes have a lock only after a removal that took something else than was
\* judged, or after a stall: the six locks of owner_lock.cpp, manifest_lock.cpp,
\* session_lock.cpp, process.cpp, account_lock.cpp and lock.cpp.
THEOREM LocksExclusive == Spec => []ExclusiveUnlessSlipped
<1>1. LocksInv => ExclusiveUnlessSlipped
  <2> SUFFICES ASSUME LocksInv, ~slipped PROVE Cardinality(Holders) <= 1
    BY DEF ExclusiveUnlessSlipped
  <2>1. \A p \in Holders : p = by BY DEF Holders, LocksInv, UnlessSlipped, Owns, TypeOK, Mine
  <2> QED BY <2>1, AtMostOne
<1> QED BY <1>1, LocksInductive, PTL

-----------------------------------------------------------------------------
\* An open lock file is at its path.
OpenAtPath(p) == p \in alive /\ pinned /\ ~Dir /\ pc[p] \in {"write", "held"} => by = p

\* Nobody takes a pinned file from its path but who closed it.
LEMMA OpenStep ==
  LocksInv /\ (\A p \in Procs : OpenAtPath(p)) /\ [Next]_vars => (\A p \in Procs : OpenAtPath(p))'
<1> SUFFICES ASSUME LocksInv, \A p \in Procs : OpenAtPath(p), [Next]_vars,
                    NEW q \in Procs, q \in alive', pinned', ~Dir', pc'[q] \in {"write", "held"}
             PROVE  by' = q
  BY DEF OpenAtPath
<1> USE DEF TypeOK, place, world, Go, At, Dir
<1>n. TypeOK /\ OnlyDirs(q) /\ by \in Procs \cup {Nobody} BY DEF LocksInv
<1>k. kind' = kind /\ pinned' = pinned /\ alive' \subseteq alive
  BY DEF Next, Steps, vars, Ages, Begin, Create, WriteOwner, WriteFails, Pin, Look, Read, Recheck,
         Clear, Release, Check, RemoveOwner, Unlink, Dies, Reused
<1>s. ASSUME pc[q] \in {"write", "held"} PROVE Stuck /\ by = q
  BY <1>s, <1>k DEF OpenAtPath, Stuck
<1>1. CASE UNCHANGED vars BY <1>1, <1>s DEF vars
<1>2. CASE Ages BY <1>2, <1>s DEF Ages
<1>3. ASSUME NEW p \in Procs, Begin(p) \/ Pin(p) \/ Release(p) \/ Check(p) PROVE by' = q
  BY <1>3, <1>n, <1>k, <1>s DEF Begin, Pin, Release, Check, OnlyDirs
<1>4. ASSUME NEW p \in Procs, Create(p) PROVE by' = q
  BY <1>4, <1>n, <1>s, NobodyIsNoProcess DEF Create
<1>5. ASSUME NEW p \in Procs, WriteOwner(p) PROVE by' = q
  BY <1>5, <1>n, <1>k, <1>s DEF WriteOwner
<1>6. ASSUME NEW p \in Procs, WriteFails(p) PROVE by' = q
  BY <1>6, <1>n, <1>s DEF WriteFails
<1>7. ASSUME NEW p \in Procs, Look(p) \/ Read(p) \/ Recheck(p) PROVE by' = q
  BY <1>7, <1>n, <1>s, NextRoundTypes DEF Look, Read, Recheck
<1>8. ASSUME NEW p \in Procs, Clear(p) PROVE by' = q
  BY <1>8, <1>n, <1>s, NextRoundTypes DEF Clear
<1>9. ASSUME NEW p \in Procs, RemoveOwner(p) \/ Unlink(p) PROVE by' = q
  BY <1>9, <1>n, <1>s DEF RemoveOwner, Unlink
<1>10. ASSUME NEW p \in Procs, Dies(p) \/ Reused(p) PROVE by' = q
  BY <1>10, <1>n, <1>s DEF Dies, Reused
<1> QED BY <1>1, <1>2, <1>3, <1>4, <1>5, <1>6, <1>7, <1>8, <1>9, <1>10 DEF Next, Steps

\* Where an open file keeps its name, a lock that is a file has one holder, unless
\* somebody found again a lock it could not remove.
THEOREM PinnedFilesExclusive == Spec => []PinnedFileExclusive
<1>1. Init => \A p \in Procs : OpenAtPath(p) BY DEF Init, OpenAtPath
<1>2. LocksInv /\ (\A p \in Procs : OpenAtPath(p)) => PinnedFileExclusive
  <2> SUFFICES ASSUME LocksInv, \A p \in Procs : OpenAtPath(p), pinned, ~Dir,
                      \A p \in alive : pc[p] # "kept"
               PROVE  Cardinality(Holders) <= 1
    BY DEF PinnedFileExclusive
  <2>1. \A p \in Holders : p = by
    BY DEF Holders, Having, OpenAtPath, LocksInv, OnlyDirs, TypeOK
  <2> QED BY <2>1, AtMostOne
<1> QED BY <1>1, <1>2, OpenStep, LocksInductive, PTL DEF Spec

-----------------------------------------------------------------------------
\* A manifest's challenger that found no record looks again from the start: only an
\* updater is ever between that look and the verdict.
LooksAgain == kind = "manifest" => \A p \in Procs : pc[p] \notin {"recheck", "broken"}

\* No step brings a manifest's challenger to the verdict.
LEMMA LooksAgainStep == TypeOK /\ LooksAgain /\ [Next]_vars => LooksAgain'
<1> SUFFICES ASSUME TypeOK, LooksAgain, [Next]_vars, kind' = "manifest", NEW q \in Procs
             PROVE  pc'[q] \notin {"recheck", "broken"}
  BY DEF LooksAgain
<1> USE DEF TypeOK, world, Go, At
<1>k. kind = "manifest" /\ pc[q] \notin {"recheck", "broken"}
  <2>1. kind' = kind
    BY DEF Next, Steps, vars, Ages, Begin, Create, WriteOwner, WriteFails, Pin, Look, Read, Recheck,
           Clear, Release, Check, RemoveOwner, Unlink, Dies, Reused
  <2> QED BY <2>1 DEF LooksAgain
<1>1. CASE UNCHANGED vars BY <1>1, <1>k DEF vars
<1>2. CASE Ages BY <1>2, <1>k DEF Ages
<1>3. ASSUME NEW p \in Procs, Begin(p) \/ Create(p) \/ WriteOwner(p) \/ WriteFails(p) \/ Pin(p)
      PROVE  pc'[q] \notin {"recheck", "broken"}
  BY <1>3, <1>k DEF Begin, Create, WriteOwner, WriteFails, Pin
<1>4. ASSUME NEW p \in Procs, Look(p) \/ Clear(p) PROVE pc'[q] \notin {"recheck", "broken"}
  BY <1>4, <1>k, NextRoundTypes DEF Look, Clear
<1>5. ASSUME NEW p \in Procs, Read(p) PROVE pc'[q] \notin {"recheck", "broken"}
  BY <1>5, <1>k, NextRoundTypes DEF Read
<1>6. ASSUME NEW p \in Procs, Recheck(p) PROVE pc'[q] \notin {"recheck", "broken"}
  BY <1>6, <1>k DEF Recheck, LooksAgain
<1>7. ASSUME NEW p \in Procs, Release(p) \/ Check(p) \/ RemoveOwner(p) \/ Unlink(p)
      PROVE  pc'[q] \notin {"recheck", "broken"}
  BY <1>7, <1>k DEF Release, Check, RemoveOwner, Unlink
<1>8. ASSUME NEW p \in Procs, Dies(p) \/ Reused(p) PROVE pc'[q] \notin {"recheck", "broken"}
  BY <1>8, <1>k DEF Dies, Reused
<1> QED BY <1>1, <1>2, <1>3, <1>4, <1>5, <1>6, <1>7, <1>8 DEF Next, Steps

\* A challenger of the manifest's lock that meets its release, record first and
\* directory second, is never told that the lock is broken (manifest_lock.cpp).
THEOREM VanishedLooksAgain == Spec => []VanishedIsNotBroken
<1>1. Init => LooksAgain BY DEF Init, LooksAgain
<1>2. LooksAgain => VanishedIsNotBroken BY DEF LooksAgain, VanishedIsNotBroken
<1> QED BY <1>1, <1>2, LooksAgainStep, LocksTypeCorrect, PTL DEF Spec
=============================================================================
