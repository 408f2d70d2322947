----------------------------- MODULE ChannelWork -----------------------------
(* A message of a chat platform on its way through the gateway: the ingress   *)
(* ledger, the inbox, the pump thread and its turn worker, the binding ledger,*)
(* the reply outbox and the platform that shows the reply                     *)
(* (src/src/channel, src/src/runtime/channel_work_pump.cpp,                   *)
(* src/src/gateway/reply_outbox.cpp).                                         *)
EXTENDS Naturals, Sequences, FiniteSets, FiniteSetsExt

CONSTANTS
  Mails,       \* deliveries the sidecar makes, each of them as often as it likes
  Msg,         \* the message a delivery carries: what the dedupe key is taken of
  Conv,        \* the conversation of a message
  Parts,       \* segments of the reply to a message
  MaxPending,  \* items the inbox holds for one conversation
  MaxActive,   \* turns the pump claims at one time
  MaxAttempts, \* attempts to send one segment
  MaxFaults,   \* appends to a ledger that may fail
  MaxCrashes   \* deaths and stops of the gateway

Msgs == {Msg[m] : m \in Mails}

ASSUME ChannelAssumption ==
  /\ IsFiniteSet(Mails) /\ Msg \in [Mails -> Msgs]
  /\ DOMAIN Conv = Msgs /\ Parts \in [Msgs -> Nat \ {0}]
  /\ MaxPending \in Nat /\ MaxActive \in Nat /\ MaxAttempts \in Nat /\ MaxFaults \in Nat /\ MaxCrashes \in Nat

Sids == 1..Cardinality(Mails)
Convs == {Conv[i] : i \in Msgs}
MostParts == Max({Parts[i] : i \in Msgs})
Pieces == Sids \X (0..MostParts)  \* 0: the failure notice; k: segment k of the reply

VARIABLES
  ing,    \* ingress ledger: lines on disk, what memory holds, write_blocked_
  inbox,  \* per conversation, the sids that wait
  bound,  \* work ledger: bound sids on disk and in memory, broken_
  v3,     \* per sid, how far the session's own ledger is: "none", "answered", "selected"
  box,    \* outbox: items on disk and in memory, broken_
  flying, \* per piece, its request on the bridge: "no", "out", "taken" by the platform
  taken,  \* what the platform has shown: pieces with their message number
  acked,  \* deliveries acknowledged to the sidecar
  pump,   \* the pump: ctl, phase of the tick, view of the sweep, jobs for the worker
  turn,   \* the worker's turn: sid (0: none) and how far it is
  runs,   \* history: turns begun for a message
  half,   \* history: sids with part of their reply in the box
  raced,  \* history: sids recovered although no longer running
  faults, crashes

books == <<ing, bound, v3, box>>
platform == <<flying, taken>>
threads == <<inbox, pump, turn>>
history == <<runs, half, raced>>
vars == <<books, platform, threads, history, acked, faults, crashes>>

-----------------------------------------------------------------------------
\* The three append-only ledgers. A failed append leaves the line on disk or
\* does not; memory stays as it was and the ledger takes no more lines.

Broke(was, is) == IF is /\ ~was THEN 1 ELSE 0
Budget ==
  /\ faults' = faults + Broke(ing.blocked, ing'.blocked) + Broke(bound.broken, bound'.broken) + Broke(box.broken, box'.broken)
  /\ faults' <= MaxFaults

Terminal == {"limited", "dead"}
CanTransition(from, to) ==
  \/ from = "durable" /\ to \in {"authorized", "rejected"}
  \/ from = "authorized" /\ to = "routed"
  \/ from \in {"rejected", "routed"} /\ to \in {"queued", "limited"}
  \/ from = "queued" /\ to \in {"running", "limited", "rejected"}
  \/ from = "running" /\ to = "replied"
  \/ from = "replied" /\ to \in {"delivered", "undelivered"}

\* A line for every sid of f, in whatever order they come.
Stated(seq, f) == [s \in DOMAIN seq |-> IF s \in DOMAIN f THEN [seq[s] EXCEPT !.st = f[s]] ELSE seq[s]]
Only(f, T) == [s \in T |-> f[s]]
Written(f, T, U) == [disk |-> Stated(ing.disk, Only(f, U)), mem |-> Stated(ing.mem, Only(f, T)), blocked |-> TRUE]
Lines(f) ==
  IF ing.blocked THEN {ing}
  ELSE {[ing EXCEPT !.disk = Stated(@, f), !.mem = Stated(@, f)]}
       \cup UNION {{Written(f, T, T)} \cup {Written(f, T, T \cup {s}) : s \in DOMAIN f \ T} : T \in (SUBSET DOMAIN f) \ {DOMAIN f}}

Transition(s, st) == IF CanTransition(ing.mem[s].st, st) THEN Lines([x \in {s} |-> st]) ELSE {ing}
MoveToDeadLetter(S) == Lines([s \in {x \in S : ing.mem[x].st \notin Terminal} |-> "dead"])
Buried(s) == ing.mem[s].st # "dead" /\ ing'.mem[s].st = "dead"

Bind(s) ==
  IF bound.broken \/ s \in bound.mem THEN {bound}
  ELSE {[bound EXCEPT !.disk = @ \cup {s}, !.mem = @ \cup {s}],
        [bound EXCEPT !.broken = TRUE], [bound EXCEPT !.disk = @ \cup {s}, !.broken = TRUE]}

NoItem == [st |-> "none", tries |-> 0, seat |-> 0]
Final == {"sent", "unknown", "failed"}
Item(p) == box.mem[p]
Put(p, item) == {[box EXCEPT !.disk[p] = item, !.mem[p] = item], [box EXCEPT !.broken = TRUE],
                 [box EXCEPT !.disk[p] = item, !.broken = TRUE]}
Mark(p, st) ==
  IF box.broken \/ Item(p).st \in Final \/ (st # "failed" /\ Item(p).st # "sending") THEN {box}
  ELSE Put(p, [Item(p) EXCEPT !.st = st])

Left(p) == Item(p).tries < MaxAttempts

Notice(s) == {<<s, 0>>}
Reply(s) == {<<s, k>> : k \in 1..Parts[ing.mem[s].msg]}
InBox(S, b) == {p \in S : b[p].st # "none"}

\* EnqueueChannel: the pieces that are not in the box yet, one line each, in
\* order; a failed append ends it and what came before stays.
New(S) == {p \in S : Item(p).st = "none"}
Before(p, S) == {q \in New(S) : q[2] < p[2]}
Entered(items, S) == [p \in Pieces |-> IF p \in S THEN [NoItem EXCEPT !.st = "pending"] ELSE items[p]]
Enqueue(S) ==
  IF box.broken \/ New(S) = {} THEN {box}
  ELSE {[box EXCEPT !.disk = Entered(@, New(S)), !.mem = Entered(@, New(S))]}
       \cup {[disk |-> Entered(box.disk, Before(p, S) \cup (IF last THEN {p} ELSE {})), mem |-> Entered(box.mem, Before(p, S)), broken |-> TRUE] :
               p \in New(S), last \in BOOLEAN}

\* Not accepted and not a duplicate: not one piece of it is in the box.
Refused(S) == \A p \in S : box'.mem[p].st = "none"
Halved(s) == IF \E p \in Reply(s) : box'.mem[p].st = "none" THEN half \cup {s} ELSE half \ {s}

-----------------------------------------------------------------------------
\* The pump and its worker.

Ticking(ph) == pump.ctl = "open" /\ pump.phase = ph
Idle == [sid |-> 0, at |-> "idle"]
InQueue == {pump.jobs[i] : i \in DOMAIN pump.jobs}  \* mutant: not when its turn goes on
InFlight == {pump.jobs[i] : i \in DOMAIN pump.jobs} \cup ({turn.sid} \ {0})
Halt == [pump EXCEPT !.ctl = "halted", !.phase = "pump", !.view = {}]
To(ph) == [pump EXCEPT !.phase = ph]
Running == {s \in DOMAIN ing.mem : ing.mem[s].st = "running"}

Init ==
  /\ ing = [disk |-> <<>>, mem |-> <<>>, blocked |-> FALSE]
  /\ inbox = [c \in Convs |-> <<>>]
  /\ bound = [disk |-> {}, mem |-> {}, broken |-> FALSE]
  /\ v3 = [s \in Sids |-> "none"]
  /\ box = [disk |-> [p \in Pieces |-> NoItem], mem |-> [p \in Pieces |-> NoItem], broken |-> FALSE]
  /\ flying = [p \in Pieces |-> "no"] /\ taken = {}
  /\ acked = {}
  /\ pump = [ctl |-> "open", phase |-> "pump", view |-> {}, jobs |-> <<>>]
  /\ turn = Idle
  /\ runs = [i \in Msgs |-> 0] /\ half = {} /\ raced = {}
  /\ faults = 0 /\ crashes = 0

\* A delivery again, or another one of a message on the books: a line, and the
\* acknowledgement if it could be written.
KnownDelivery(m) == m \in acked \/ Len(ing.mem) = Cardinality(Mails)  \* mutant: only the delivery is looked up
Known(m) == \E s \in DOMAIN ing.mem : ing.mem[s].msg = Msg[m]
Duplicate(m) ==
  /\ Ticking("pump") /\ ~ing.blocked /\ Known(m)
  /\ \/ acked' = acked \cup {m} /\ UNCHANGED ing
     \/ ing' = [ing EXCEPT !.blocked = TRUE] /\ UNCHANGED acked
  /\ UNCHANGED <<bound, v3, box, platform, threads, history, crashes>>
  /\ Budget

\* A new one: recorded, acknowledged, routed and queued. None of the later
\* lines is looked at; what the router let in is queued with or without them.
Ways == {<<"durable", "rejected">>, <<"durable", "authorized", "routed", "limited">>,
         <<"durable", "authorized", "routed", "queued">>}
Line(seq, m, way, n) == IF n = 0 THEN seq ELSE Append(seq, [msg |-> Msg[m], st |-> way[n]])
Ingested(m, way) ==
  {[disk |-> Line(ing.disk, m, way, Len(way)), mem |-> Line(ing.mem, m, way, Len(way)), blocked |-> FALSE]}
  \cup {[disk |-> Line(ing.disk, m, way, IF last THEN n ELSE n - 1), mem |-> Line(ing.mem, m, way, n - 1), blocked |-> TRUE] :
          n \in 1..Len(way), last \in BOOLEAN}
RecordedAnyway == TRUE  \* mutant: acknowledged before it is written
Recorded == Len(ing'.mem) > Len(ing.mem)

Inbound(m) ==
  LET c == Conv[Msg[m]] IN
  /\ Ticking("pump") /\ ~ing.blocked /\ ~Known(m)
  /\ \E way \in Ways :
       /\ way[Len(way)] = "queued" => Len(inbox[c]) < MaxPending
       /\ ing' \in Ingested(m, way)
       /\ inbox' = IF Recorded /\ way[Len(way)] = "queued" THEN [inbox EXCEPT ![c] = Append(@, Len(ing'.mem))] ELSE inbox
  /\ acked' = IF Recorded THEN acked \cup {m} ELSE acked
  /\ UNCHANGED <<bound, v3, box, platform, pump, turn, history, crashes>>
  /\ Budget

\* The platform's word on a request, applied to the box in the same tick.
Accepted(p) ==
  /\ Ticking("pump") /\ flying[p] = "taken"
  /\ box' \in Mark(p, "sent")
  /\ flying' = [flying EXCEPT ![p] = "no"]
  /\ UNCHANGED <<ing, bound, v3, taken, threads, history, acked, crashes>>
  /\ Budget

\* Limits and failures of the transport: tried again until the cap.
RateLimited(p) ==
  /\ Ticking("pump") /\ flying[p] # "no"
  /\ box' \in IF ~Left(p) THEN Mark(p, "failed") ELSE {box}
  /\ flying' = [flying EXCEPT ![p] = "no"]
  /\ UNCHANGED <<ing, bound, v3, taken, threads, history, acked, crashes>>
  /\ Budget

Rejected(p) ==
  /\ Ticking("pump") /\ flying[p] = "out"
  /\ box' \in Mark(p, "failed")
  /\ flying' = [flying EXCEPT ![p] = "no"]
  /\ UNCHANGED <<ing, bound, v3, taken, threads, history, acked, crashes>>
  /\ Budget

\* No word in time. A request still under way reaches the platform or not.
Numbered(p) == <<p, Item(p).seat>>
Shows(p, seat) == IF \E q \in Pieces : q[1] = p[1] /\ <<q, seat>> \in taken THEN {} ELSE {<<p, seat>>}
Expire(p) ==
  /\ Ticking("pump") /\ flying[p] # "no"
  /\ box' \in Mark(p, "unknown")
  /\ \/ UNCHANGED taken
     \/ flying[p] = "out" /\ taken' = taken \cup Shows(p, Item(p).seat)
  /\ flying' = [flying EXCEPT ![p] = "no"]
  /\ UNCHANGED <<ing, bound, v3, threads, history, acked, crashes>>
  /\ Budget

\* The books of delivered replies are closed and the running ones listed. A box
\* that broke meanwhile halts the pump.
Source(s) == InBox({s} \X (1..MostParts), box.mem)
Settled(s) == Source(s) # {} /\ \A p \in Source(s) : Item(p).st \in Final
NoneFailed(s) == \A p \in Source(s) : Item(p).st # "failed"  \* mutant: unknown passes for sent
AllSent(s) == \A p \in Source(s) : Item(p).st = "sent"
Closing == [s \in {x \in DOMAIN ing.mem : ing.mem[x].st = "replied" /\ Settled(x)} |-> IF AllSent(s) THEN "delivered" ELSE "undelivered"]
Reconcile ==
  /\ Ticking("pump")
  /\ IF box.broken THEN pump' = Halt /\ UNCHANGED ing
     ELSE ing' \in Lines(Closing) /\ pump' = [To("sweep") EXCEPT !.view = Running]
  /\ UNCHANGED <<bound, v3, box, platform, inbox, turn, history, acked, crashes>>
  /\ Budget

\* The sweep takes the listed one by one. What is in flight by now is passed
\* over; whether it is running still is not asked again.
Listed == Min(pump.view)
Swept == [pump EXCEPT !.view = @ \ {Listed}]
Stale(s) == IF ing.mem[s].st # "running" THEN raced \cup {s} ELSE raced

PassOver ==
  /\ Ticking("sweep") /\ pump.view # {} /\ Listed \in InFlight
  /\ pump' = Swept
  /\ UNCHANGED <<books, platform, inbox, turn, history, acked, faults, crashes>>

\* No binding, no answer in the session's ledger, or no way to select it: a dead
\* letter and a notice, never a second run.
GiveUpNever(s) == pump' = Swept /\ UNCHANGED <<ing, box, v3, half>>  \* mutant: left for later
GiveUp(s) ==
  /\ ing' \in MoveToDeadLetter({s})
  /\ IF Buried(s) THEN box' \in Enqueue(Notice(s)) /\ pump' = Swept ELSE pump' = Halt /\ UNCHANGED box
  /\ UNCHANGED <<v3, half>>

\* The reply selected, put in the box and the message settled, as far as each
\* was not done before.
Complete(s) ==
  /\ v3' = [v3 EXCEPT ![s] = "selected"]
  /\ box' \in Enqueue(Reply(s))
  /\ IF Refused(Reply(s)) THEN pump' = Halt /\ UNCHANGED <<ing, half>>
     ELSE /\ ing' \in Transition(s, "replied")
          /\ half' = Halved(s)
          /\ pump' = IF CanTransition(ing.mem[s].st, "replied") /\ ing'.blocked THEN Halt ELSE Swept

Recover ==
  LET s == Listed IN
  /\ Ticking("sweep") /\ pump.view # {} /\ s \notin InFlight
  /\ \/ (s \notin bound.mem \/ v3[s] = "none") /\ GiveUp(s)
     \/ s \in bound.mem /\ v3[s] # "none" /\ Complete(s)
  /\ raced' = Stale(s)
  /\ UNCHANGED <<bound, platform, inbox, turn, runs, acked, crashes>>
  /\ Budget

\* One item of the inbox, its admission asked for again. The line that it runs
\* is written or not; it runs.
Active == Cardinality(InFlight)
MayClaim == Ticking("sweep") /\ pump.view = {} /\ Active < MaxActive

Revoke(c) ==
  /\ MayClaim /\ inbox[c] # <<>>
  /\ ing' \in Transition(Head(inbox[c]), "rejected")
  /\ inbox' = [inbox EXCEPT ![c] = Tail(@)]
  /\ UNCHANGED <<bound, v3, box, platform, pump, turn, history, acked, crashes>>
  /\ Budget

Claim(c) ==
  /\ MayClaim /\ inbox[c] # <<>>
  /\ ing' \in Transition(Head(inbox[c]), "running")
  /\ inbox' = [inbox EXCEPT ![c] = Tail(@)]
  /\ pump' = [To("drive") EXCEPT !.jobs = Append(@, Head(inbox[c]))]
  /\ UNCHANGED <<bound, v3, box, platform, turn, history, acked, crashes>>
  /\ Budget

ClaimNone ==
  /\ Ticking("sweep") /\ pump.view = {}
  /\ Active >= MaxActive \/ \A c \in Convs : inbox[c] = <<>>
  /\ pump' = To("drive")
  /\ UNCHANGED <<books, platform, inbox, turn, history, acked, faults, crashes>>

\* The first segment of a group that is not done and has no request under way:
\* its number, for good, then the attempt, then the request. The bridge may
\* refuse it.
First(p) == \A q \in Pieces : q[1] = p[1] /\ 0 < q[2] /\ q[2] < p[2] => Item(q).st \in Final
OpenPending(p) == Item(p).st = "pending"  \* mutant: what was being sent is not taken up
Open(p) == Item(p).st = "pending" \/ (Item(p).st = "sending" /\ flying[p] = "no")
NextSeat(s) == 1 + Max({Item(p).seat : p \in {s} \X (0..MostParts)})
SeatedAnew(p) == [Item(p) EXCEPT !.seat = NextSeat(p[1])]  \* mutant: a number for every attempt
Seated(p) == IF Item(p).seat # 0 THEN Item(p) ELSE [Item(p) EXCEPT !.seat = NextSeat(p[1])]
Attempted(p) == [Seated(p) EXCEPT !.st = "sending", !.tries = @ + 1]

Exhaust(p) ==
  /\ Ticking("drive") /\ Open(p) /\ First(p) /\ ~Left(p)
  /\ box' \in Mark(p, "failed")
  /\ UNCHANGED <<ing, bound, v3, platform, threads, history, acked, crashes>>
  /\ Budget

Send(p) ==
  /\ Ticking("drive") /\ Open(p) /\ First(p) /\ Left(p) /\ ~box.broken
  /\ box' = [box EXCEPT !.disk[p] = Attempted(p), !.mem[p] = Attempted(p)]
  /\ \/ flying' = [flying EXCEPT ![p] = "out"]
     \/ UNCHANGED flying
  /\ UNCHANGED <<ing, bound, v3, taken, threads, history, acked, faults, crashes>>

\* The number cannot be written: the pump halts. The attempt cannot: at the end
\* of the tick.
SendBreaks(p) ==
  /\ Ticking("drive") /\ Open(p) /\ First(p) /\ Left(p) /\ ~box.broken
  /\ \/ /\ Item(p).seat = 0
        /\ \E item \in {Item(p), Seated(p)} : box' = [box EXCEPT !.disk[p] = item, !.broken = TRUE]
        /\ pump' = Halt
     \/ /\ \E item \in {Seated(p), Attempted(p)} : box' = [disk |-> [box.disk EXCEPT ![p] = item], mem |-> [box.mem EXCEPT ![p] = Seated(p)], broken |-> TRUE]
        /\ UNCHANGED pump
  /\ UNCHANGED <<ing, bound, v3, platform, inbox, turn, history, acked, crashes>>
  /\ Budget

TickEnds ==
  /\ Ticking("drive")
  /\ pump' = IF box.broken THEN Halt ELSE To("pump")
  /\ UNCHANGED <<books, platform, inbox, turn, history, acked, faults, crashes>>

-----------------------------------------------------------------------------
\* The worker's turn.

TurnAt(at) == turn.at = at
Goes(at) == turn' = [turn EXCEPT !.at = at]

Start ==
  /\ TurnAt("idle") /\ pump.jobs # <<>>
  /\ turn' = [sid |-> Head(pump.jobs), at |-> "taken"]
  /\ pump' = [pump EXCEPT !.jobs = Tail(@)]
  /\ UNCHANGED <<books, platform, inbox, history, acked, faults, crashes>>

\* The turn has its number: the binding is written, or is not, and it goes on.
Begin ==
  /\ TurnAt("taken") /\ Goes("bound")
  /\ bound' \in Bind(turn.sid)
  /\ runs' = [runs EXCEPT ![ing.mem[turn.sid].msg] = @ + 1]
  /\ UNCHANGED <<ing, v3, box, platform, inbox, pump, half, raced, acked, crashes>>
  /\ Budget

Answer ==
  /\ TurnAt("bound") /\ Goes("answered")
  /\ v3' = [v3 EXCEPT ![turn.sid] = "answered"]
  /\ UNCHANGED <<ing, bound, box, platform, inbox, pump, history, acked, faults, crashes>>

Select ==
  /\ TurnAt("answered") /\ Goes("selected")
  /\ v3' = [v3 EXCEPT ![turn.sid] = "selected"]
  /\ UNCHANGED <<ing, bound, box, platform, inbox, pump, history, acked, faults, crashes>>

\* The session cannot be opened, the model fails, the turn is cancelled, or the
\* selection cannot be written.
Fail ==
  /\ turn.at \in {"taken", "bound", "answered"} /\ Goes("failed")
  /\ UNCHANGED <<books, platform, inbox, pump, history, acked, faults, crashes>>

EnqueueReply ==
  /\ TurnAt("selected") /\ Goes("boxed")
  /\ box' \in Enqueue(Reply(turn.sid))
  /\ half' = Halved(turn.sid)
  /\ UNCHANGED <<ing, bound, v3, platform, inbox, pump, runs, raced, acked, crashes>>
  /\ Budget

\* Whatever became of the box.
SettleReplied ==
  /\ TurnAt("boxed") /\ turn' = Idle
  /\ ing' \in Transition(turn.sid, "replied")
  /\ UNCHANGED <<bound, v3, box, platform, inbox, pump, history, acked, crashes>>
  /\ Budget

DeadLetter ==
  /\ TurnAt("failed")
  /\ ing' \in MoveToDeadLetter({turn.sid})
  /\ IF Buried(turn.sid) THEN Goes("dead") ELSE turn' = Idle
  /\ UNCHANGED <<bound, v3, box, platform, inbox, pump, history, acked, crashes>>
  /\ Budget

TurnFailureNotice ==
  /\ TurnAt("dead") /\ turn' = Idle
  /\ box' \in Enqueue(Notice(turn.sid))
  /\ UNCHANGED <<ing, bound, v3, platform, inbox, pump, history, acked, crashes>>
  /\ Budget

-----------------------------------------------------------------------------
\* The platform, and the end of a process.

Take(p) ==
  /\ flying[p] = "out"
  /\ flying' = [flying EXCEPT ![p] = "taken"]
  /\ taken' = taken \cup Shows(p, Item(p).seat)
  /\ UNCHANGED <<books, threads, history, acked, faults, crashes>>

\* A stop between two ticks, or after a tick that halted: jobs no worker has
\* begun are buried, without a notice.
Close ==
  /\ \/ pump.ctl = "halted" /\ UNCHANGED crashes
     \/ Ticking("pump") /\ crashes < MaxCrashes /\ crashes' = crashes + 1
  /\ ing' \in MoveToDeadLetter({pump.jobs[i] : i \in DOMAIN pump.jobs})
  /\ pump' = [pump EXCEPT !.ctl = "closing", !.jobs = <<>>]
  /\ UNCHANGED <<bound, v3, box, platform, inbox, turn, history, acked>>
  /\ Budget

\* What is on disk is what the next process knows. Requests under way reach the
\* platform or not; what it says of them reaches nobody.
Reloaded ==
  /\ ing' = [disk |-> ing.disk, mem |-> ing.disk, blocked |-> FALSE]
  /\ bound' = [disk |-> bound.disk, mem |-> bound.disk, broken |-> FALSE]
  /\ box' = [disk |-> box.disk, mem |-> box.disk, broken |-> FALSE]
  /\ inbox' = [c \in Convs |-> <<>>]
  /\ pump' = [ctl |-> "open", phase |-> "pump", view |-> {}, jobs |-> <<>>]
  /\ turn' = Idle
  /\ flying' = [p \in Pieces |-> "no"]
  /\ \E late \in SUBSET {p \in Pieces : flying[p] = "out"} : taken' = taken \cup UNION {Shows(p, Item(p).seat) : p \in late}
  /\ UNCHANGED <<v3, history, acked, faults>>

Restart == pump.ctl = "closing" /\ turn = Idle /\ Reloaded /\ UNCHANGED crashes
Crash == crashes < MaxCrashes /\ crashes' = crashes + 1 /\ Reloaded

-----------------------------------------------------------------------------
Next ==
  \/ \E m \in Mails : Duplicate(m) \/ Inbound(m)
  \/ \E p \in Pieces : Accepted(p) \/ RateLimited(p) \/ Rejected(p) \/ Expire(p) \/ Exhaust(p) \/ Send(p) \/ SendBreaks(p) \/ Take(p)
  \/ Reconcile \/ PassOver \/ Recover \/ ClaimNone \/ TickEnds
  \/ \E c \in Convs : Revoke(c) \/ Claim(c)
  \/ Start \/ Begin \/ Answer \/ Select \/ Fail \/ EnqueueReply \/ SettleReplied \/ DeadLetter \/ TurnFailureNotice
  \/ Close \/ Restart \/ Crash

Spec == Init /\ [][Next]_vars

Worker == Start \/ Begin \/ Answer \/ Select \/ EnqueueReply \/ SettleReplied \/ DeadLetter \/ TurnFailureNotice
Tick == Reconcile \/ PassOver \/ Recover \/ ClaimNone \/ (\E c \in Convs : Claim(c)) \/ TickEnds
FairSpec ==
  /\ Spec
  /\ WF_vars(Worker) /\ WF_vars(Tick) /\ WF_vars(pump.ctl = "halted" /\ Close) /\ WF_vars(Restart)
  /\ SF_vars(\E p \in Pieces : Expire(p)) /\ SF_vars(\E p \in Pieces : Send(p) \/ Exhaust(p))

-----------------------------------------------------------------------------
(* Every variable has its type.                                             *)
Items == [Pieces -> [st : {"none", "pending", "sending"} \cup Final, tries : 0..MaxAttempts, seat : 0..(MostParts + 1)]]
States == {"durable", "authorized", "rejected", "routed", "queued", "running", "replied", "delivered", "undelivered"} \cup Terminal
TypeOK ==
  /\ ing \in [disk : Seq([msg : Msgs, st : States]), mem : Seq([msg : Msgs, st : States]), blocked : BOOLEAN]
  /\ Len(ing.mem) <= Len(ing.disk) /\ Len(ing.disk) <= Cardinality(Mails)
  /\ \A c \in Convs : inbox[c] \in Seq(Sids) /\ Len(inbox[c]) <= MaxPending
  /\ bound \in [disk : SUBSET Sids, mem : SUBSET Sids, broken : BOOLEAN]
  /\ v3 \in [Sids -> {"none", "answered", "selected"}]
  /\ box.disk \in Items /\ box.mem \in Items /\ box.broken \in BOOLEAN
  /\ flying \in [Pieces -> {"no", "out", "taken"}]
  /\ acked \subseteq Mails
  /\ pump.ctl \in {"open", "halted", "closing"} /\ pump.phase \in {"pump", "sweep", "drive"}
  /\ pump.view \subseteq Sids /\ Active <= MaxActive
  /\ turn \in [sid : Sids \cup {0}, at : {"idle", "taken", "bound", "answered", "selected", "boxed", "failed", "dead"}]

(* What the sidecar need not send again is on the books, for good.          *)
AckedIsKept == \A m \in acked : \E s \in DOMAIN ing.disk : ing.disk[s].msg = Msg[m]

(* A message is given to the model once, however often it is delivered and  *)
(* whatever dies in between.                                                *)
RunsOnce == \A i \in Msgs : runs[i] <= 1

(* No piece of a reply is shown twice, however often it was sent, and what  *)
(* the outbox calls sent was shown: the platform did not take it for a copy *)
(* of another piece.                                                        *)
ShownOnce ==
  \A p \in Pieces : LET shown == Cardinality({t \in taken : t[1] = p})
                    IN shown <= 1 /\ (box.disk[p].st = "sent" => shown = 1)

(* A message the ingress ledger calls delivered has its whole reply sent,   *)
(* unless the box broke within the reply.                                   *)
DeliveredIsWhole ==
  \A s \in DOMAIN ing.disk : ing.disk[s].st = "delivered" /\ s \notin half =>
    \A p \in {s} \X (1..Parts[ing.disk[s].msg]) : box.disk[p].st = "sent"

(* The user gets a reply or a notice of failure, never both, as long as the *)
(* binding was written and the sweep met the message while it was running.  *)
HasReply(s) == InBox({s} \X (1..MostParts), box.disk) # {}
HasNotice(s) == box.disk[<<s, 0>>].st # "none"
OneVerdict == \A s \in bound.disk \ raced : ~(HasReply(s) /\ HasNotice(s))

(* The pump halts because a ledger broke, or because the sweep came late.   *)
Halts == pump.ctl # "halted" /\ pump'.ctl = "halted"
HaltsOnlyBroken == [][Halts => ing'.blocked \/ box'.broken \/ raced' # raced]_vars

(* A claimed message is settled, whatever breaks or dies.                   *)
ClaimedSettles == \A s \in Sids : (s \in Running) ~> (s \notin Running)

(* A piece in the box comes to an end: sent, failed or unknown.             *)
Waits(p) == Item(p).st \in {"pending", "sending"}
BoxedSettles == \A p \in Pieces : Waits(p) ~> ~Waits(p)

-----------------------------------------------------------------------------
(* What the comments say and the code does not keep.                        *)

(* What was let in is run, or taken up again when there is room.            *)
Parked(s) == s \in DOMAIN ing.disk /\ ing.disk[s].st \in {"queued", "limited"}
AcceptedIsRun == \A s \in Sids : Parked(s) ~> ~Parked(s)

(* Nothing is sent of a reply after a segment that failed.                  *)
NothingAfterGap == \A p, q \in Pieces : p[1] = q[1] /\ 0 < p[2] /\ p[2] < q[2] /\ Item(q).tries > 0 => Item(p).st = "sent"

(* A reply that is not in the box to its end is not called a reply.         *)
RepliedIsWhole ==
  \A s \in DOMAIN ing.disk : ing.disk[s].st \in {"replied", "delivered"} =>
    \A p \in {s} \X (1..Parts[ing.disk[s].msg]) : box.disk[p].st # "none"

(* The pump halts only when a ledger cannot be written.                     *)
HaltsUnwritable == [][Halts => ing'.blocked \/ box'.broken]_vars

(* Reply or notice, never both.                                             *)
OneVerdictEver == \A s \in Sids : ~(HasReply(s) /\ HasNotice(s))

(* The user hears of a message that was given up.                           *)
Given(s) == s \in DOMAIN ing.disk /\ ing.disk[s].st = "dead"
DeadIsTold == \A s \in Sids : Given(s) ~> HasNotice(s)
=============================================================================
