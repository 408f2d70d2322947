----------------------------- MODULE OwnerLocks -----------------------------
(* The locks between processes: a name in the file system that one process   *)
(* creates and that says who it is. Six pieces of code share the protocol:   *)
(*   "memory"   src/src/memory/owner_lock.cpp       a directory, owner inside *)
(*   "manifest" src/src/workspace/manifest_lock.cpp the same, read again if   *)
(*                                                  the owner vanishes        *)
(*   "session"  src/src/trajectory/session_lock.cpp a file                    *)
(*   "gateway"  src/src/gateway/process.cpp         a file                    *)
(*   "account"  src/src/channel/account_lock.cpp    a file, process id only   *)
(*   "install"  src/src/updater/lock.cpp            a file, process id only   *)
(* They differ in what a challenger does with a lock whose owner is dead or   *)
(* unknown, and in what the holder looks at before it takes the lock away.    *)
EXTENDS Naturals, FiniteSets

CONSTANTS
  Procs,     \* processes; one that dies does not come back
  Nobody,    \* no process
  Kinds,     \* which of the six locks
  Pins,      \* whether an open file keeps its name (Windows) or not (POSIX)
  Rounds,    \* attempts of one call: 5 in the code, 3 for "install"
  MaxDeaths, \* processes that may die
  Faulty,    \* processes whose records may fail to be written, and names to be removed
  Reuse,     \* whether the id of a dead process may be given to another program
  Slow       \* processes that may need more than the two seconds they have between
             \* making a directory and naming themselves in it

DirKinds == {"memory", "manifest"}
PidKinds == {"account", "install"}   \* these compare no start token
AllKinds == DirKinds \cup PidKinds \cup {"session", "gateway"}

ASSUME LockAssumption ==
  /\ Nobody \notin Procs
  /\ Kinds \subseteq AllKinds /\ Pins \subseteq BOOLEAN
  /\ Rounds \in Nat \ {0} /\ MaxDeaths \in Nat
  /\ Faulty \subseteq Procs /\ Slow \subseteq Procs /\ Reuse \in BOOLEAN

VARIABLES
  kind, pinned, \* which lock, on which platform
  by,           \* who made what is at the lock's path; Nobody: the path is free
  owner,        \* who its record names; Nobody: there is no record
  old,          \* whether a lock without a record is past its two seconds
  pc,           \* where each process is in its call
  aim,          \* whom the lock named when the process judged it
  tries,        \* rounds of its call
  alive,
  reused,       \* dead processes whose id is in use again
  slipped       \* history: a process took away something else than it had judged
                \* or made, or stalled

place == <<by, owner, old>>
world == <<kind, pinned, alive, reused>>
vars == <<kind, pinned, by, owner, old, pc, aim, tries, alive, reused, slipped>>

Dir == kind \in DirKinds
Ended == {"idle", "refused", "broken", "failed"}
Seeking == {"create", "look", "read", "recheck", "clear"}
Having == {"pin", "held", "kept"}
Mine == Having \cup {"write", "check", "removing", "unlink"}

At(p, s) == p \in alive /\ pc[p] = s
Go(p, s) == pc' = [pc EXCEPT ![p] = s]
NextRound(p) ==
  IF tries[p] + 1 < Rounds
  THEN Go(p, "create") /\ tries' = [tries EXCEPT ![p] = @ + 1]
  ELSE Go(p, "failed") /\ UNCHANGED tries

\* mutant: an owner that cannot be probed is dead
SeemsUnknown(q) == FALSE

\* ProbeLockHolder, or IsProcessAlive alone.
SeemsAlive(q) == q \in alive \/ (kind \in PidKinds /\ q \in reused)

\* Windows neither removes nor renames a file that is open, nor its directory.
Stuck ==
  /\ pinned
  /\ \E q \in alive : IF Dir THEN owner = q /\ pc[q] = "held"
                      ELSE by = q /\ pc[q] \in {"write", "held"}

Vacated == by' = Nobody /\ owner' = Nobody /\ old' = FALSE

Init ==
  /\ kind \in Kinds /\ pinned \in Pins
  /\ by = Nobody /\ owner = Nobody /\ old = FALSE
  /\ pc = [p \in Procs |-> "idle"]
  /\ aim = [p \in Procs |-> Nobody]
  /\ tries = [p \in Procs |-> 0]
  /\ alive = Procs /\ reused = {} /\ slipped = FALSE

-----------------------------------------------------------------------------
\* TryAcquire.

Begin(p) ==
  /\ p \in alive /\ pc[p] \in Ended
  /\ Go(p, "create") /\ tries' = [tries EXCEPT ![p] = 0]
  /\ UNCHANGED <<place, world, aim, slipped>>

\* The one atomic step: create_directory, or fopen "wbx".
Create(p) ==
  /\ At(p, "create")
  /\ \/ /\ by = Nobody
        /\ by' = p /\ owner' = Nobody /\ old' = FALSE /\ Go(p, "write")
     \/ /\ by # Nobody /\ UNCHANGED place
        /\ Go(p, IF kind \in {"session", "install"} THEN "read" ELSE "look")
  /\ UNCHANGED <<world, aim, tries, slipped>>

\* AtomicWriteFile makes the directory again if it is gone, and replaces a record
\* that is there. A write into an open file reaches that file, wherever its name is.
WriteOwner(p) ==
  /\ At(p, "write")
  /\ \/ /\ Dir /\ ~Stuck
        /\ by' = (IF by = Nobody THEN p ELSE by) /\ owner' = p /\ old' = FALSE
        /\ Go(p, IF pinned THEN "pin" ELSE "held")
     \/ /\ ~Dir /\ by = p
        /\ owner' = p /\ old' = FALSE /\ UNCHANGED by /\ Go(p, "held")
     \/ /\ ~Dir /\ by # p
        /\ UNCHANGED place /\ Go(p, "held")
  /\ UNCHANGED <<world, aim, tries, slipped>>

\* It takes its own directory or file away again, by name.
WriteFails(p) ==
  /\ At(p, "write") /\ (p \in Faulty \/ (Dir /\ Stuck))
  /\ IF Stuck /\ by # p THEN UNCHANGED <<place, slipped>>
     ELSE Vacated /\ slipped' = (slipped \/ by # p)
  /\ Go(p, IF kind = "account" THEN "look" ELSE "failed")
  /\ UNCHANGED <<world, aim, tries>>

Pin(p) ==
  /\ At(p, "pin") /\ Go(p, "held")
  /\ UNCHANGED <<place, world, aim, tries, slipped>>

\* mutant: a directory without a record is somebody's, however old
LookPatient(p) ==
  /\ At(p, "look")
  /\ \/ ~Dir /\ by = Nobody /\ NextRound(p) /\ UNCHANGED aim
     \/ by # Nobody /\ (Dir => owner # Nobody) /\ Go(p, "read") /\ UNCHANGED <<aim, tries>>
     \/ Dir /\ owner = Nobody /\ Go(p, "refused") /\ UNCHANGED <<aim, tries>>
  /\ UNCHANGED <<place, world, slipped>>

\* Is there anything, and is it still being made?
Look(p) ==
  /\ At(p, "look")
  /\ \/ ~Dir /\ by = Nobody /\ NextRound(p) /\ UNCHANGED aim
     \/ ~Dir /\ by # Nobody /\ Go(p, "read") /\ UNCHANGED <<aim, tries>>
     \/ Dir /\ owner # Nobody /\ Go(p, "read") /\ UNCHANGED <<aim, tries>>
     \/ Dir /\ owner = Nobody /\ ~old /\ Go(p, "refused") /\ UNCHANGED <<aim, tries>>
     \/ /\ Dir /\ owner = Nobody /\ old
        /\ Go(p, "clear") /\ aim' = [aim EXCEPT ![p] = Nobody] /\ UNCHANGED tries
  /\ UNCHANGED <<place, world, slipped>>

\* mutant: the manifest's lock reads its owner as the memory's does
ReadOnce(p) ==
  /\ At(p, "read")
  /\ \/ /\ owner # Nobody /\ SeemsAlive(owner) /\ UNCHANGED <<aim, tries>>
        /\ Go(p, IF owner = p /\ kind \in {"gateway", "account"} THEN "kept" ELSE "refused")
     \/ /\ owner # Nobody /\ ~SeemsAlive(owner)
        /\ Go(p, "clear") /\ aim' = [aim EXCEPT ![p] = owner] /\ UNCHANGED tries
     \/ owner = Nobody /\ Go(p, IF kind = "install" THEN "recheck" ELSE "broken") /\ UNCHANGED <<aim, tries>>
  /\ UNCHANGED <<place, world, slipped>>

\* Who is it, and does he live? A gateway or an account finds its own record if it
\* could not remove it: it has the lock again, though not the open file.
Read(p) ==
  /\ At(p, "read")
  /\ \/ /\ owner # Nobody /\ SeemsAlive(owner) /\ UNCHANGED <<aim, tries>>
        /\ Go(p, IF owner = p /\ kind \in {"gateway", "account"} THEN "kept" ELSE "refused")
     \/ /\ owner # Nobody /\ ~SeemsAlive(owner)
        /\ Go(p, "clear") /\ aim' = [aim EXCEPT ![p] = owner] /\ UNCHANGED tries
     \/ owner = Nobody /\ kind = "manifest" /\ NextRound(p) /\ UNCHANGED aim
     \/ owner = Nobody /\ kind = "install" /\ Go(p, "recheck") /\ UNCHANGED <<aim, tries>>
     \/ /\ owner = Nobody /\ kind \notin {"manifest", "install"}
        /\ Go(p, "broken") /\ UNCHANGED <<aim, tries>>
  /\ UNCHANGED <<place, world, slipped>>

\* The updater asks again whether a lock it could not read is gone.
Recheck(p) ==
  /\ At(p, "recheck")
  /\ \/ by = Nobody /\ NextRound(p)
     \/ by # Nobody /\ Go(p, "broken") /\ UNCHANGED tries
  /\ UNCHANGED <<place, world, aim, slipped>>

\* Renames or removes what has the name now. A directory must be there to be
\* renamed; a file that is gone only costs the round, and so does one that is open
\* to a session or an updater.
Judged(p) == owner = aim[p] /\ (owner = Nobody => old)
Clear(p) ==
  /\ At(p, "clear")
  /\ \/ /\ by # Nobody /\ ~Stuck
        /\ Vacated /\ NextRound(p) /\ slipped' = (slipped \/ ~Judged(p))
     \/ /\ by = Nobody \/ Stuck
        /\ IF Dir \/ (kind \in {"gateway", "account"} /\ by # Nobody)
           THEN Go(p, "failed") /\ UNCHANGED tries ELSE NextRound(p)
        /\ UNCHANGED <<place, slipped>>
  /\ UNCHANGED <<world, aim>>

-----------------------------------------------------------------------------
\* Release. The open file is closed first.

Release(p) ==
  /\ At(p, "held") \/ At(p, "kept")
  /\ Go(p, IF Dir \/ kind = "install" THEN "check" ELSE "unlink")
  /\ UNCHANGED <<place, world, aim, tries, slipped>>

Check(p) ==
  /\ At(p, "check")
  /\ \/ owner = p /\ Go(p, IF Dir THEN "removing" ELSE "unlink")
     \/ owner # p /\ Go(p, "idle")
  /\ UNCHANGED <<place, world, aim, tries, slipped>>

\* remove_all takes the record first, then the directory, and is tried again if
\* something new is in it. A removal that fails leaves the lock to the next call.
RemoveOwner(p) ==
  /\ At(p, "removing")
  /\ \/ /\ Stuck \/ p \in Faulty
        /\ Go(p, "idle") /\ UNCHANGED <<place, slipped>>
     \/ /\ ~Stuck /\ owner # Nobody
        /\ owner' = Nobody /\ old' = FALSE /\ UNCHANGED by
        /\ slipped' = (slipped \/ owner # p) /\ Go(p, "unlink")
     \/ /\ ~Stuck /\ owner = Nobody
        /\ UNCHANGED <<place, slipped>> /\ Go(p, "unlink")
  /\ UNCHANGED <<world, aim, tries>>

Unlink(p) ==
  /\ At(p, "unlink")
  /\ \/ /\ Stuck \/ p \in Faulty \/ by = Nobody
        /\ Go(p, "idle") /\ UNCHANGED <<place, slipped>>
     \/ /\ ~Stuck /\ by # Nobody /\ (Dir => owner = Nobody)
        /\ Vacated /\ slipped' = (slipped \/ by # p) /\ Go(p, "idle")
     \/ /\ ~Stuck /\ Dir /\ owner # Nobody
        /\ Go(p, "removing") \/ Go(p, "idle")
        /\ UNCHANGED <<place, slipped>>
  /\ UNCHANGED <<world, aim, tries>>

-----------------------------------------------------------------------------
\* The surroundings.

Dies(p) ==
  /\ p \in alive /\ Cardinality(Procs \ alive) < MaxDeaths
  /\ alive' = alive \ {p} /\ Go(p, "idle")
  /\ UNCHANGED <<kind, pinned, reused, place, aim, tries, slipped>>

Reused(p) ==
  /\ Reuse /\ p \notin alive \cup reused
  /\ reused' = reused \cup {p}
  /\ UNCHANGED <<kind, pinned, alive, place, pc, aim, tries, slipped>>

\* Two seconds pass over a lock without a record.
Between == {p \in alive : pc[p] \in {"write", "unlink"}}
Ages ==
  /\ by # Nobody /\ owner = Nobody /\ ~old /\ Between \subseteq Slow
  /\ old' = TRUE /\ slipped' = (slipped \/ Between # {})
  /\ UNCHANGED <<by, owner, world, pc, aim, tries>>

Steps(p) ==
  \/ Begin(p) \/ Create(p) \/ WriteOwner(p) \/ WriteFails(p) \/ Pin(p)
  \/ Look(p) \/ Read(p) \/ Recheck(p) \/ Clear(p)
  \/ Release(p) \/ Check(p) \/ RemoveOwner(p) \/ Unlink(p)

Next == Ages \/ \E p \in Procs : Steps(p) \/ Dies(p) \/ Reused(p)

Spec == Init /\ [][Next]_vars
\* Every live process goes on, calls again and lets go, and time passes.
FairSpec == Spec /\ WF_vars(Ages) /\ \A p \in Procs : WF_vars(Steps(p))

-----------------------------------------------------------------------------
\* Every variable stays in its range; no call goes past its rounds.
TypeOK ==
  /\ kind \in Kinds /\ pinned \in Pins
  /\ by \in Procs \cup {Nobody} /\ owner \in Procs \cup {Nobody} /\ old \in BOOLEAN
  /\ pc \in [Procs -> Ended \cup Seeking \cup Mine]
  /\ aim \in [Procs -> Procs \cup {Nobody}] /\ tries \in [Procs -> 0..Rounds - 1]
  /\ alive \subseteq Procs /\ reused \subseteq Procs \ alive /\ slipped \in BOOLEAN

Holders == {p \in alive : pc[p] \in Having}

\* Two live processes have the lock only if one of them, or a third, took away by
\* its name something else than it had looked at, or stalled for two seconds
\* between making the directory and naming itself: of everything that may come
\* between a look and a removal, this is what the protocol is exposed to.
ExclusiveUnlessSlipped == slipped \/ Cardinality(Holders) <= 1

\* Where an open file keeps its name, the locks that are files are exclusive
\* whatever slips: only a lock that could not be removed and was found again by its
\* own gateway or account, which then has no open file, is outside this.
PinnedFileExclusive ==
  pinned /\ ~Dir /\ (\A p \in alive : pc[p] # "kept") => Cardinality(Holders) <= 1

\* A challenger of the manifest's lock that meets its release, record first and
\* directory second, is never told that the lock is broken.
VanishedIsNotBroken == kind = "manifest" => \A p \in Procs : pc[p] # "broken"

\* A lock nobody alive stands behind, unless it is a file without a record or its
\* owner's id is in use again and the kind compares no start token.
Abandoned ==
  /\ by # Nobody /\ owner \notin alive
  /\ IF owner = Nobody THEN Dir /\ ~(by \in alive /\ pc[by] \in Mine)
                       ELSE ~SeemsAlive(owner)

\* What the dead leave behind does not keep the living out for ever.
AbandonedIsTaken == Abandoned ~> ~Abandoned

-----------------------------------------------------------------------------
\* What the code says of itself and does not do.

\* src/src/gateway/process.cpp, over its loop: of two processes the system lets
\* one through, and exclusion does not rest on the order of reads and writes. A
\* challenger that judged a dead owner's lock removes the next owner's.
MutualExclusion == Cardinality(Holders) <= 1

\* src/src/memory/owner_lock.cpp, over AcquireDirLockWithRetry: "broken" is a real
\* failure, not worth a second attempt. A release in progress looks the same.
BrokenIsReal == Dir => \A p \in Procs : pc[p] # "broken"

\* src/src/memory/owner_lock.cpp, Release: the identity check of the next call
\* settles what could not be removed. It finds the owner alive.
LeftoverIsTaken ==
  LET Leftover == owner \in alive /\ pc[owner] \notin Mine IN Leftover ~> ~Leftover
=============================================================================
