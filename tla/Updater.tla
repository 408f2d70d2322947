------------------------------ MODULE Updater ------------------------------
(* The update of an installation: src/src/updater/engine.cpp with the         *)
(* transactions of txn.cpp, the pointer of layout.cpp and the handover of     *)
(* flat_handover.cpp; src/src/app/launcher.cpp says what is started. One      *)
(* engine works at a time (the lock of OwnerLocks, kind "install"); it may    *)
(* die, or throw an error nobody catches, between any two things it writes,   *)
(* and what the next call finds is only what is on the disk.                  *)
EXTENDS Naturals, Sequences, FiniteSets

CONSTANTS
  Versions,   \* version directories, each named for one package
  NoVersion,  \* no version
  FlatRelays, \* whether the EXE of a flat installation follows current.json
  MaxTxns,    \* transactions an installation sees
  MaxDeaths,  \* engines that may die
  MaxFaults   \* copies, probes and prechecks that may fail

ASSUME UpdaterAssumption ==
  /\ NoVersion \notin Versions /\ FlatRelays \in BOOLEAN
  /\ MaxTxns \in Nat /\ MaxDeaths \in Nat /\ MaxFaults \in Nat

VARIABLES
  root,    \* the EXE in the installation's root
  pointer, \* current.json
  dir,     \* what is in versions/
  books,   \* whether there is an install-state.json
  txns,    \* updates/*.json with their staging and backups, in the order of their names
  eng,     \* the engine that holds the lock
  exit,    \* how the last call ended
  before,  \* history: what started when each transaction was last taken up, before its swap
  cut,     \* history: transactions taken up again with the pointer at their target
  halved,  \* history: a call left the pointer and the root EXE apart
  shaken,  \* history: transactions whose way back did not answer, or left the pointer
  deaths, faults

disk == <<root, pointer, dir, books, txns>>
history == <<before, cut, halved, shaken>>
vars == <<root, pointer, dir, books, txns, eng, exit, before, cut, halved, shaken, deaths, faults>>

States == {"checking", "downloading", "verified", "staged", "waiting", "activating", "healthy",
           "committed", "failed", "needs-review", "rolled-back"}
Over == {"committed", "failed", "rolled-back"} \* IsTxnTerminalForResume
Settled == Over \cup {"needs-review"}          \* TxnSettled
NoPointer == [current |-> NoVersion, previous |-> NoVersion]
Idle == [at |-> "idle", v |-> NoVersion, t |-> 0, flat |-> FALSE, old |-> NoVersion,
         todo |-> {}, bad |-> FALSE]
NoExit == [code |-> 0, t |-> 0]

NewTxn(kind, v, s) == [kind |-> kind, target |-> v, state |-> s, back |-> NoVersion,
                       archive |-> "none", legacy |-> "none"]

\* What a user who types the program's name gets.
Starts == IF root \in {"none", "torn"} THEN "nothing"
          ELSE IF pointer = NoPointer \/ (root = "flat" /\ ~FlatRelays) THEN root
          ELSE IF dir[pointer.current] = "whole" THEN pointer.current ELSE "nothing"

\* DetectLayout
IsFlat == pointer = NoPointer /\ (root # "none" \/ books)

\* The pointer and the EXE in the root do not go together.
Split == IF pointer = NoPointer THEN root \in {"none", "torn"} ELSE root # "launcher"

\* The transactions FindResumable does not pass over, and the one it meets first.
Open == {t \in DOMAIN txns : txns[t].kind = "update" /\ txns[t].state \notin Over}
First == CHOOSE t \in Open : \A u \in Open : t <= u

Fault == faults < MaxFaults /\ faults' = faults + 1
NoFault == UNCHANGED faults

At(s) == eng.at = s
Goto(s) == eng' = [eng EXCEPT !.at = s]
Txn == txns[eng.t]
InState(s) == txns' = [txns EXCEPT ![eng.t].state = s]
\* A transition to an end, after which the staging directory is removed.
Ends(t, s) == txns' = [txns EXCEPT ![t].state = s, ![t].archive = "none"]
Return(code) == eng' = Idle /\ exit' = [code |-> code, t |-> eng.t]

Places == {"idle", "find", "look", "fetch", "verified", "unpack", "precheck", "prepare", "ready",
           "place", "swap", "yield", "install", "probe", "book", "commit", "list", "gc",
           "back", "restore", "restored", "drop", "backed", "turn", "turned"}

Transaction == [kind : {"update", "rollback"}, target : Versions, state : States,
                back : Versions \cup {NoVersion}, archive : {"none", "torn", "whole"},
                legacy : {"none", "flat", "launcher", "torn"}]

TypeOK ==
  /\ root \in {"flat", "launcher", "torn", "none"}
  /\ pointer \in [current : Versions, previous : Versions \cup {NoVersion}] \cup {NoPointer}
  /\ dir \in [Versions -> {"none", "whole", "partial"}]
  /\ books \in BOOLEAN /\ halved \in BOOLEAN
  /\ txns \in Seq(Transaction) /\ Len(txns) <= MaxTxns
  /\ before \in Seq(Versions \cup {"nothing", "flat", "launcher"}) /\ Len(before) = Len(txns)
  /\ eng \in [at : Places, v : Versions \cup {NoVersion}, t : 0..Len(txns), flat : BOOLEAN,
              old : Versions \cup {NoVersion}, todo : SUBSET Versions, bad : BOOLEAN]
  /\ exit \in [code : 0..3, t : 0..Len(txns)]
  /\ cut \subseteq DOMAIN txns /\ shaken \subseteq DOMAIN txns
  /\ deaths \in 0..MaxDeaths /\ faults \in 0..MaxFaults

\* A flat installation, with or without an install-state.json, or one that is
\* at its first version.
Init ==
  /\ \/ root = "flat" /\ pointer = NoPointer /\ books \in BOOLEAN /\ dir = [v \in Versions |-> "none"]
     \/ \E first \in Versions :
          /\ root = "launcher" /\ pointer = [current |-> first, previous |-> NoVersion] /\ books = TRUE
          /\ dir = [v \in Versions |-> IF v = first THEN "whole" ELSE "none"]
  /\ txns = <<>> /\ eng = Idle /\ exit = NoExit
  /\ before = <<>> /\ cut = {} /\ halved = FALSE /\ shaken = {}
  /\ deaths = 0 /\ faults = 0

-----------------------------------------------------------------------------
(* RunUpdate: the transaction.                                              *)

Start(v) ==
  /\ At("idle")
  /\ Len(txns) < MaxTxns \/ \E t \in Open : t = First /\ txns[t].target = v
  /\ eng' = [Idle EXCEPT !.at = "find", !.v = v]
  /\ exit' = NoExit
  /\ UNCHANGED <<disk, history, deaths, faults>>

\* One unfinished transaction for another target is given up.
Supersede ==
  /\ At("find") /\ Open # {} /\ txns[First].target # eng.v
  /\ Ends(First, "failed")
  /\ UNCHANGED <<root, pointer, dir, books, eng, exit, history, deaths, faults>>

Resume ==
  /\ At("find") /\ Open # {} /\ txns[First].target = eng.v
  /\ eng' = [eng EXCEPT !.at = "look", !.t = First]
  /\ IF pointer.current = eng.v
     THEN cut' = cut \cup {First} /\ UNCHANGED before
     ELSE before' = [before EXCEPT ![First] = Starts] /\ UNCHANGED cut
  /\ UNCHANGED <<disk, exit, halved, shaken, deaths, faults>>

Create ==
  /\ At("find") /\ Open = {}
  /\ txns' = Append(txns, NewTxn("update", eng.v, "checking"))
  /\ before' = Append(before, Starts)
  /\ eng' = [eng EXCEPT !.at = "look", !.t = Len(txns) + 1]
  /\ UNCHANGED <<root, pointer, dir, books, exit, cut, halved, shaken, deaths, faults>>

\* mutant: a call that fails without having swapped anything leaves its transaction open
FailSilently ==
  IF pointer.current = eng.v /\ Txn.state \in {"activating", "healthy"}
  THEN Goto("back") /\ UNCHANGED <<txns, exit>>
  ELSE Return(1) /\ UNCHANGED txns

\* The end of a call that failed: the way back if the pointer is the target's
\* already, else the transaction is closed. A settled one stays as it is.
Fail ==
  IF Txn.state \in Settled THEN Return(1) /\ UNCHANGED txns
  ELSE IF pointer.current = eng.v /\ Txn.state \in {"activating", "healthy"}
  THEN Goto("back") /\ UNCHANGED <<txns, exit>>
  ELSE Ends(eng.t, "failed") /\ Return(1)

\* The version is there already: it is verified as a whole and not fetched again.
Reuse ==
  /\ At("look") /\ dir[eng.v] # "none"
  /\ \/ /\ dir[eng.v] = "whole" /\ NoFault
        /\ txns' = IF Txn.state \in {"staged", "waiting", "activating", "healthy", "needs-review"}
                   THEN txns ELSE [txns EXCEPT ![eng.t].state = "staged"]
        /\ Goto("precheck") /\ UNCHANGED exit
     \/ (IF dir[eng.v] = "partial" THEN NoFault ELSE Fault) /\ Fail
  /\ UNCHANGED <<root, pointer, dir, books, history, deaths>>

Preflight ==
  /\ At("look") /\ dir[eng.v] = "none"
  /\ \/ /\ txns' = IF Txn.state = "checking" THEN [txns EXCEPT ![eng.t].state = "downloading"] ELSE txns
        /\ Goto("fetch") /\ NoFault /\ UNCHANGED exit
     \/ Txn.state = "checking" /\ Fault /\ Fail
  /\ UNCHANGED <<root, pointer, dir, books, history, deaths>>

\* A file of the package's name is taken for the package, whoever left it.
Fetch ==
  /\ At("fetch")
  /\ \/ /\ txns' = IF Txn.archive = "none" THEN [txns EXCEPT ![eng.t].archive = "whole"] ELSE txns
        /\ Goto("verified") /\ NoFault /\ UNCHANGED exit
     \/ Txn.archive = "none" /\ Fault /\ Fail
  /\ UNCHANGED <<root, pointer, dir, books, history, deaths>>

Verified ==
  /\ At("verified")
  /\ InState("verified") /\ Goto("unpack")
  /\ UNCHANGED <<root, pointer, dir, books, exit, history, deaths, faults>>

\* Unpacking and the verification of every file, and a probe of the EXE.
Unpack ==
  /\ At("unpack")
  /\ \/ Txn.archive = "whole" /\ InState("staged") /\ Goto("precheck") /\ NoFault /\ UNCHANGED exit
     \/ (IF Txn.archive = "torn" THEN NoFault ELSE Fault) /\ Fail
  /\ UNCHANGED <<root, pointer, dir, books, history, deaths>>

\* The user's own skills: a conflict stops the update with everything in place.
Precheck ==
  /\ At("precheck")
  /\ \/ Goto("prepare") /\ NoFault /\ UNCHANGED <<txns, exit>>
     \/ Fault /\ InState("needs-review") /\ Return(2)
  /\ UNCHANGED <<root, pointer, dir, books, history, deaths>>

-----------------------------------------------------------------------------
(* Activate                                                                 *)

\* mutant: what to go back to is not written down before the swap
PrepareUnwritten ==
  /\ At("prepare")
  /\ InState("waiting")
  /\ eng' = [eng EXCEPT !.at = "ready", !.flat = IsFlat, !.old = pointer.current]
  /\ UNCHANGED <<root, pointer, dir, books, exit, history, deaths, faults>>

\* The full backup of a flat installation, then what to go back to is on the
\* books before anything is moved.
Prepare ==
  /\ At("prepare")
  /\ \/ /\ txns' = [txns EXCEPT ![eng.t].state = "waiting", ![eng.t].back = pointer.current]
        /\ eng' = [eng EXCEPT !.at = "ready", !.flat = IsFlat, !.old = pointer.current]
        /\ NoFault /\ UNCHANGED exit
     \/ IsFlat /\ Fault /\ Fail
  /\ UNCHANGED <<root, pointer, dir, books, history, deaths>>

Activating ==
  /\ At("ready")
  /\ InState("activating") /\ Goto("place")
  /\ UNCHANGED <<root, pointer, dir, books, exit, history, deaths, faults>>

\* One rename puts the verified package into versions/.
Place ==
  /\ At("place")
  /\ \/ dir' = [dir EXCEPT ![eng.v] = "whole"] /\ Goto("swap") /\ NoFault /\ UNCHANGED <<txns, exit>>
     \/ dir[eng.v] = "none" /\ Fault /\ Fail /\ UNCHANGED dir
  /\ UNCHANGED <<root, pointer, books, history, deaths>>

\* mutant: the layout is looked at again when the pointer has been written
SwapThenLook ==
  /\ At("swap")
  /\ pointer' = [current |-> eng.v, previous |-> eng.old]
  /\ Goto("probe")
  /\ UNCHANGED <<root, dir, books, txns, exit, history, deaths, faults>>

Swap ==
  /\ At("swap")
  /\ pointer' = [current |-> eng.v, previous |-> eng.old]
  /\ Goto(IF eng.flat THEN "yield" ELSE "probe")
  /\ UNCHANGED <<root, dir, books, txns, exit, history, deaths, faults>>

\* HandoverFlatLauncher: the old EXE makes room. If it cannot be moved the
\* call ends for a person to look, with the pointer swapped.
Yield ==
  /\ At("yield")
  /\ \/ /\ txns' = IF root = "none" THEN txns ELSE [txns EXCEPT ![eng.t].legacy = root]
        /\ root' = "none" /\ Goto("install") /\ NoFault
        /\ UNCHANGED <<exit, halved>>
     \/ /\ Fault /\ Return(2)
        /\ halved' = (halved \/ Split)
        /\ \/ UNCHANGED txns
           \/ root # "none" /\ txns' = [txns EXCEPT ![eng.t].legacy = "none"]
        /\ UNCHANGED root
  /\ UNCHANGED <<pointer, dir, books, before, cut, shaken, deaths>>

\* The new EXE is copied to the root, where it is the launcher.
InstallLauncher ==
  /\ At("install")
  /\ \/ root' = "launcher" /\ Goto("probe") /\ NoFault /\ UNCHANGED <<txns, exit>>
     \/ Fault /\ root' \in {"none", "torn", "launcher"} /\ Fail
  /\ UNCHANGED <<pointer, dir, books, history, deaths>>

-----------------------------------------------------------------------------
(* HealthAndCommit                                                          *)

Probe ==
  /\ At("probe")
  /\ \/ InState("healthy") /\ Goto("book") /\ NoFault
     \/ Fault /\ Goto("back") /\ UNCHANGED txns
  /\ UNCHANGED <<root, pointer, dir, books, exit, history, deaths>>

Book ==
  /\ At("book")
  /\ books' = TRUE /\ Goto("commit")
  /\ UNCHANGED <<root, pointer, dir, txns, exit, history, deaths, faults>>

\* mutant: the previous version is not kept
KeptCurrent == {pointer.current}

\* What GcVersions keeps: the pointer's two versions and the targets on their way.
Kept == {pointer.current, pointer.previous}
        \cup {txns[t].target : t \in {u \in DOMAIN txns : txns[u].kind = "update"
                                                          /\ txns[u].state \notin Settled}}

Commit ==
  /\ At("commit")
  /\ Ends(eng.t, "committed")
  /\ Goto("list")
  /\ UNCHANGED <<root, pointer, dir, books, exit, history, deaths, faults>>

-----------------------------------------------------------------------------
(* GcVersions                                                               *)

StartGc ==
  /\ At("idle")
  /\ eng' = [Idle EXCEPT !.at = "list"]
  /\ exit' = NoExit
  /\ UNCHANGED <<disk, history, deaths, faults>>

List ==
  /\ At("list")
  /\ eng' = [eng EXCEPT !.at = "gc", !.todo = {v \in Versions : dir[v] # "none"} \ Kept]
  /\ UNCHANGED <<disk, exit, history, deaths, faults>>

\* A version that runs is passed over; one that cannot be removed whole ends
\* the call with an error, committed or not.
Remove(v) ==
  /\ At("gc") /\ v \in eng.todo
  /\ \/ dir' = [dir EXCEPT ![v] = "none"] /\ eng' = [eng EXCEPT !.todo = @ \ {v}] /\ NoFault /\ UNCHANGED exit
     \/ UNCHANGED <<dir, exit>> /\ eng' = [eng EXCEPT !.todo = @ \ {v}] /\ NoFault
     \/ (UNCHANGED dir \/ dir' = [dir EXCEPT ![v] = "partial"]) /\ Fault /\ Return(1)
  /\ UNCHANGED <<root, pointer, books, txns, history, deaths>>

GcEnd ==
  /\ At("gc") /\ eng.todo = {}
  /\ Return(0)
  /\ UNCHANGED <<disk, history, deaths, faults>>

-----------------------------------------------------------------------------
(* RollbackAfterActivationFailure                                           *)

\* The version on the books, if it is there and its EXE answers.
GoBack ==
  /\ At("back")
  /\ LET v == Txn.back IN
     \/ /\ v # NoVersion /\ dir[v] = "whole"
        /\ pointer' = [current |-> v, previous |-> eng.v]
        /\ Goto("backed") /\ NoFault /\ UNCHANGED shaken
     \/ /\ v = NoVersion
        /\ Goto("restore") /\ NoFault /\ UNCHANGED <<pointer, shaken>>
     \/ /\ v # NoVersion /\ (IF dir[v] = "whole" THEN Fault ELSE NoFault)
        /\ Goto("restore") /\ shaken' = shaken \cup {eng.t} /\ UNCHANGED pointer
  /\ UNCHANGED <<root, dir, books, txns, exit, before, cut, halved, deaths>>

\* RestoreFlatLegacy: the launcher is parked, the old EXE copied back. What
\* fails is remembered, and the pointer removed all the same; whether that
\* removal went well is not asked.
Park ==
  /\ At("restore")
  /\ \/ Txn.legacy = "none" /\ Goto("drop") /\ NoFault /\ UNCHANGED root
     \/ Txn.legacy # "none" /\ root' = "none" /\ Goto("restored") /\ NoFault
     \/ /\ Txn.legacy # "none" /\ root # "none" /\ Fault
        /\ eng' = [eng EXCEPT !.at = "drop", !.bad = TRUE] /\ UNCHANGED root
  /\ UNCHANGED <<pointer, dir, books, txns, exit, history, deaths>>

Restore ==
  /\ At("restored")
  /\ \/ root' = Txn.legacy /\ Goto("drop") /\ NoFault
     \/ /\ Fault /\ root' \in {"none", "torn"}
        /\ eng' = [eng EXCEPT !.at = "drop", !.bad = TRUE]
  /\ UNCHANGED <<pointer, dir, books, txns, exit, history, deaths>>

Drop ==
  /\ At("drop")
  /\ \/ pointer' = NoPointer /\ NoFault /\ UNCHANGED shaken
     \/ Fault /\ shaken' = shaken \cup {eng.t} /\ UNCHANGED pointer
  /\ Goto("backed")
  /\ UNCHANGED <<root, dir, books, txns, exit, before, cut, halved, deaths>>

RolledBack ==
  /\ At("backed")
  /\ Ends(eng.t, "rolled-back")
  /\ Return(IF eng.bad THEN 2 ELSE 3)
  /\ halved' = (halved \/ Split)
  /\ UNCHANGED <<root, pointer, dir, books, before, cut, shaken, deaths, faults>>

-----------------------------------------------------------------------------
(* RunRollback                                                              *)

StartRollback ==
  /\ At("idle") /\ Len(txns) < MaxTxns
  /\ pointer.previous # NoVersion /\ dir[pointer.previous] = "whole"
  /\ txns' = Append(txns, NewTxn("rollback", pointer.previous, "activating"))
  /\ before' = Append(before, Starts)
  /\ eng' = [Idle EXCEPT !.at = "turn", !.v = pointer.previous, !.t = Len(txns) + 1, !.old = pointer.current]
  /\ exit' = NoExit
  /\ UNCHANGED <<root, pointer, dir, books, cut, halved, shaken, deaths, faults>>

Turn ==
  /\ At("turn")
  /\ pointer' = [current |-> eng.v, previous |-> eng.old]
  /\ Goto("turned")
  /\ UNCHANGED <<root, dir, books, txns, exit, history, deaths, faults>>

Turned ==
  /\ At("turned")
  /\ InState("committed") /\ Return(0)
  /\ UNCHANGED <<root, pointer, dir, books, history, deaths, faults>>

-----------------------------------------------------------------------------
(* The engine dies, or a write throws what only the outermost handler takes. *)

\* What was being copied or removed when the engine died may be half there.
Die ==
  /\ ~At("idle") /\ deaths < MaxDeaths /\ deaths' = deaths + 1
  /\ \/ UNCHANGED disk
     \/ /\ At("fetch") /\ Txn.archive = "none"
        /\ txns' = [txns EXCEPT ![eng.t].archive = "torn"] /\ UNCHANGED <<root, pointer, dir, books>>
     \/ /\ eng.at \in {"install", "restored"}
        /\ root' = "torn" /\ UNCHANGED <<pointer, dir, books, txns>>
     \/ /\ At("gc")
        /\ \E v \in eng.todo : dir' = [dir EXCEPT ![v] = "partial"]
        /\ UNCHANGED <<root, pointer, books, txns>>
  /\ halved' = (halved \/ Split')
  /\ eng' = Idle /\ exit' = NoExit
  /\ UNCHANGED <<before, cut, shaken, faults>>

-----------------------------------------------------------------------------
UpdateStep == \/ Supersede \/ Resume \/ Create \/ Reuse \/ Preflight \/ Fetch \/ Verified \/ Unpack \/ Precheck
              \/ Prepare \/ Activating \/ Place \/ Swap \/ Yield \/ InstallLauncher
              \/ Probe \/ Book \/ Commit
BackStep == GoBack \/ Park \/ Restore \/ Drop \/ RolledBack
GcStep == List \/ GcEnd \/ \E v \in Versions : Remove(v)
TurnStep == Turn \/ Turned
Step == UpdateStep \/ BackStep \/ GcStep \/ TurnStep

Next == Step \/ (\E v \in Versions : Start(v)) \/ StartGc \/ StartRollback \/ Die

\* The unfinished update is asked for again.
Rerun == \E t \in Open : t = First /\ Start(txns[t].target)

Spec == Init /\ [][Next]_vars
FairSpec == Spec /\ WF_vars(Step) /\ SF_vars(Rerun)

-----------------------------------------------------------------------------
(* Properties                                                               *)

\* What the pointer names is there as a whole, whatever the collection removed
\* or left half removed, and whatever a transaction put back: GcVersions,
\* Activate, RunRollback and the way back agree on it.
PointerIsWhole ==
  pointer # NoPointer =>
    /\ dir[pointer.current] = "whole"
    /\ pointer.previous # NoVersion => dir[pointer.previous] = "whole"

Ended(code) == At("idle") /\ exit.code = code /\ exit.t # 0

\* After a call that ended well, the program's name starts the version it was
\* about, whether the installation was flat or not (HealthAndCommit probes the
\* version's own EXE, never the one in the root), unless an earlier call
\* stopped between the pointer and the root.
SucceededStarts ==
  Ended(0) /\ ~halved => Starts = txns[exit.t].target

\* After a call that ended as failed or rolled back, the program's name starts
\* what it started before the transaction, unless the transaction was resumed
\* after its own swap, the version to go back to did not answer or the
\* pointer could not be removed.
FailedKeepsOld ==
  (Ended(1) \/ Ended(3)) /\ exit.t \notin cut \cup shaken /\ ~halved /\ txns[exit.t].state # "committed"
    => Starts = before[exit.t]

\* An update that died on its way is brought to an end by asking for it again.
InFlightSettles ==
  \A t \in 1..MaxTxns :
    (t \in DOMAIN txns /\ txns[t].kind = "update" /\ txns[t].state \notin Settled)
      ~> (t \in DOMAIN txns /\ txns[t].state \in Settled)

-----------------------------------------------------------------------------
(* What the documentation says and the code does not keep.                  *)

\* commands.md: a command that broke off is simply run again. What a call that
\* ended well brought is started, whatever an earlier call left behind.
RerunBringsIt ==
  Ended(0) => Starts = txns[exit.t].target

\* commands.md: exit code 1, the old version is still usable.
FailedIsOld ==
  Ended(1) => Starts = before[exit.t]

\* commands.md: exit code 3, the old version was restored.
RestoredIsOld ==
  Ended(3) => Starts = before[exit.t]

\* commands.md: --rollback switches to the last version that could be used.
PreviousIsAnother ==
  pointer # NoPointer => pointer.previous # pointer.current
=============================================================================
