-------------------------- MODULE ChannelWorkProofs --------------------------
(* Proofs about ChannelWork for any deliveries, messages, conversations and   *)
(* replies, any number of faults and deaths. The inductive invariant says how *)
(* far disk may be ahead of memory, where a message can wait, what the        *)
(* session's ledger says at each stage of a turn, and what the outbox knows   *)
(* of the numbers the platform has seen.                                      *)
EXTENDS ChannelWork, SequenceTheorems, FiniteSetTheorems, WellFoundedInduction, TLAPS

(* The ingress ledger: disk is memory, or memory and the one line whose       *)
(* append failed; a message has one number.                                   *)
Entry == [msg : Msgs, st : States]
Ahead(from, to) == from = to \/ CanTransition(from, to) \/ (from \notin Terminal /\ to = "dead")
LedgerOrdered ==
  /\ ing \in [disk : Seq(Entry), mem : Seq(Entry), blocked : BOOLEAN]
  /\ Len(ing.mem) <= Len(ing.disk)
  /\ ~ing.blocked => ing.disk = ing.mem
  /\ \A s \in DOMAIN ing.mem :
       ing.disk[s].msg = ing.mem[s].msg /\ Ahead(ing.mem[s].st, ing.disk[s].st)
  /\ \A s \in DOMAIN ing.disk \ DOMAIN ing.mem : ing.disk[s].st = "durable"
  /\ \A s, t \in DOMAIN ing.disk : ing.disk[s].msg = ing.disk[t].msg => s = t

(* The sids that wait in the inbox and those that wait for the worker.        *)
Elems(seq) == {seq[i] : i \in DOMAIN seq}
Queued == UNION {Elems(inbox[c]) : c \in Convs}
Hired == Elems(pump.jobs)
Once(seq) == \A i, j \in DOMAIN seq : seq[i] = seq[j] => i = j

(* A message waits in one place at a time, in the inbox of its conversation.  *)
ThreadsType ==
  /\ inbox \in [Convs -> Seq(Nat)]
  /\ pump \in [ctl : {"open", "halted", "closing"}, phase : {"pump", "sweep", "drive"},
               view : SUBSET Nat, jobs : Seq(Nat)]
  /\ turn \in [sid : Nat, at : {"idle", "taken", "bound", "answered", "selected", "boxed", "failed",
                                "dead"}]
  /\ turn.sid = 0 <=> turn.at = "idle"
OnePlace ==
  /\ \A c \in Convs : Once(inbox[c]) /\ \A s \in Elems(inbox[c]) : Conv[ing.mem[s].msg] = c
  /\ Once(pump.jobs)
  /\ Queued \cap InFlight = {} /\ turn.sid \notin Hired
  /\ Queued \subseteq DOMAIN ing.mem
  /\ InFlight \subseteq DOMAIN ing.mem
  /\ pump.view \subseteq DOMAIN ing.mem
  /\ pump.view # {} => pump.ctl = "open" /\ pump.phase = "sweep"

(* What the ledger says of a message by the place where it is: one that waits *)
(* has not begun, one in flight is not replied to, one the sweep listed has   *)
(* left the inbox and is not delivered.                                       *)
Replied == {"replied", "delivered", "undelivered"}
StagesRight ==
  /\ \A s \in Queued :
       /\ {ing.mem[s].st, ing.disk[s].st} \subseteq {"durable", "authorized", "routed", "queued"}
       /\ s \notin pump.view
  /\ \A s \in InFlight : ing.disk[s].st \notin Replied
  /\ \A s \in pump.view : ing.disk[s].st \notin {"delivered", "undelivered"}
  /\ turn.at = "dead" => ing.mem[turn.sid].st = "dead"

(* A message that waits was not begun; one that was begun is on the books.    *)
Unbegun == Queued \cup Hired \cup (IF turn.at = "taken" THEN {turn.sid} ELSE {})
RunsRight ==
  /\ runs \in [Msgs -> 0..1]
  /\ \A s \in Unbegun : runs[ing.mem[s].msg] = 0 /\ s \notin bound.disk
  /\ \A i \in Msgs : runs[i] = 1 => \E s \in DOMAIN ing.disk : ing.disk[s].msg = i

(* The work ledger: a binding that is on disk alone belongs to a turn that    *)
(* goes on, or to a message that runs no more, unless nothing can be written. *)
BoundRight ==
  /\ bound \in [disk : SUBSET DOMAIN ing.mem, mem : SUBSET DOMAIN ing.mem, broken : BOOLEAN]
  /\ bound.mem \subseteq bound.disk
  /\ ~bound.broken => bound.disk = bound.mem
  /\ \A s \in bound.disk \ bound.mem : s = turn.sid \/ ing.mem[s].st # "running" \/ ing.blocked

(* The session's ledger by the stage of the turn.                             *)
AnswersRight ==
  /\ v3 \in [Sids -> {"none", "answered", "selected"}]
  /\ \A s \in Sids \ DOMAIN ing.mem : v3[s] = "none"
  /\ \A s \in Unbegun : v3[s] = "none"
  /\ turn.at \in {"bound", "answered", "failed", "dead"} => v3[turn.sid] # "selected"
  /\ turn.at \in {"selected", "boxed"} => v3[turn.sid] = "selected"

(* The outbox: memory is disk until the box breaks; numbers are of one piece. *)
BoxItem == [st : {"none", "pending", "sending"} \cup Final, tries : Nat, seat : Nat]
BoxOrdered ==
  /\ box \in [disk : [Pieces -> BoxItem], mem : [Pieces -> BoxItem], broken : BOOLEAN]
  /\ ~box.broken => box.disk = box.mem
  /\ \A p \in Pieces : box.mem[p].st # "none" => box.disk[p].st # "none"
  /\ \A p \in Pieces : box.disk[p].st = "none" => box.disk[p].seat = 0
  /\ \A p, q \in Pieces : p[1] = q[1] /\ box.disk[p].seat = box.disk[q].seat /\ box.disk[p].seat # 0 => p = q

(* What is on the bridge or was shown has its number, and what is called sent *)
(* was shown.                                                                 *)
ShownRight ==
  /\ flying \in [Pieces -> {"no", "out", "taken"}]
  /\ taken \subseteq Pieces \X Nat
  /\ \A p \in Pieces : flying[p] # "no" =>
       box.mem[p].st = "sending" /\ box.mem[p].seat = box.disk[p].seat /\ box.disk[p].seat # 0
  /\ \A p \in Pieces : flying[p] = "taken" \/ box.disk[p].st = "sent" =>
       <<p, box.disk[p].seat>> \in taken
  /\ \A t \in taken : t[2] = box.disk[t[1]].seat /\ t[2] # 0

(* A reply that is called one is in the box, but for those that broke.        *)
Whole(s) == \A p \in Reply(s) : box.mem[p].st # "none"
RepliesRight ==
  /\ half \subseteq Sids
  /\ \A s \in DOMAIN ing.mem : ing.disk[s].st \in Replied /\ s \notin half => Whole(s)
  /\ turn.at = "boxed" /\ turn.sid \notin half => Whole(turn.sid)

(* Who has a notice is dead and nowhere; who has a reply selected it.         *)
VerdictsRight ==
  /\ raced \subseteq Sids
  /\ \A s \in Sids : HasReply(s) => v3[s] = "selected"
  /\ \A s \in Sids : HasNotice(s) =>
       /\ s \in DOMAIN ing.mem /\ ing.mem[s].st = "dead" /\ ing.disk[s].st = "dead"
       /\ s \notin Queued /\ s \notin InFlight

IInv ==
  /\ LedgerOrdered
  /\ ThreadsType
  /\ OnePlace
  /\ StagesRight
  /\ RunsRight
  /\ BoundRight
  /\ AnswersRight
  /\ BoxOrdered /\ ShownRight /\ RepliesRight /\ VerdictsRight
  /\ AckedIsKept /\ DeliveredIsWhole /\ OneVerdict

-----------------------------------------------------------------------------
(* Numbers.                                                                   *)

(* Of the sids that were listed there is a least one.                         *)
LEMMA MinIsLeast ==
  ASSUME NEW S \in SUBSET Nat, S # {}
  PROVE  Min(S) \in S
<1> DEFINE R == OpToRel(<, Nat)
<1>1. IsWellFoundedOn(R, Nat)
  BY NatLessThanWellFounded
<1>2. ASSUME NEW x \in Nat, NEW y \in Nat, x < y PROVE <<x, y>> \in R
  BY <1>2 DEF OpToRel
<1> HIDE DEF R
<1>3. PICK m \in S : \A y \in S : ~ (<<y, m>> \in R)
  BY <1>1, WFMin
<1>4. ASSUME NEW y \in S PROVE m <= y
  <2>1. m \in Nat /\ y \in Nat /\ ~(y < m)
    BY <1>2, <1>3
  <2> QED BY <2>1
<1>5. \E x \in S : \A y \in S : x =< y
  BY <1>4
<1> QED BY <1>5 DEF Min

(* A finite set of numbers has a greatest one.                                *)
LEMMA MaxIsGreatest ==
  ASSUME NEW S \in SUBSET Nat, S # {}, IsFiniteSet(S)
  PROVE  /\ Max(S) \in S
         /\ \A k \in S : k <= Max(S)
<1> DEFINE Above(x) == {y \in S : y > x}
           All == {Above(x) : x \in S}
<1>1. IsWellFoundedOn(StrictSubsetOrdering(S), SUBSET S)
  BY FS_StrictSubsetOrderingWellFounded, FS_FiniteSubsetsOfFinite
<1>2. All \subseteq SUBSET S /\ All # {}
  OBVIOUS
<1> HIDE DEF All
<1>3. PICK T \in All : \A U \in All : ~ (<<U, T>> \in StrictSubsetOrdering(S))
  BY <1>1, <1>2, WFMin
<1> USE DEF All
<1>4. PICK m \in S : T = Above(m)
  OBVIOUS
<1>5. ASSUME NEW y \in S, y > m PROVE FALSE
  <2>1. m \in Nat /\ y \in Nat
    OBVIOUS
  <2>2. y \in Above(m) /\ y \notin Above(y)
    BY <1>5, <2>1
  <2>3. ASSUME NEW z \in Above(y) PROVE z \in Above(m)
    BY <1>5, <2>1, <2>3
  <2>4. <<Above(y), T>> \in StrictSubsetOrdering(S)
    BY <1>4, <2>2, <2>3 DEF StrictSubsetOrdering
  <2> QED BY <1>3, <2>4
<1>6. \A y \in S : m >= y
  BY <1>5
<1>7. \E x \in S : \A y \in S : x >= y
  BY <1>6
<1> QED BY <1>7 DEF Max

(* A function on a finite set has finitely many values.                       *)
LEMMA ValuesFinite ==
  ASSUME NEW S, IsFiniteSet(S), NEW f, f \in [S -> {f[x] : x \in S}]
  PROVE  /\ IsFiniteSet({f[x] : x \in S})
         /\ Cardinality({f[x] : x \in S}) <= Cardinality(S)
<1>1. f \in Surjection(S, {f[x] : x \in S})
  BY DEF Surjection
<1> QED BY <1>1, FS_Surjection

(* There are no more messages than deliveries.                                *)
LEMMA MsgsFinite ==
  /\ IsFiniteSet(Msgs) /\ Cardinality(Msgs) \in Nat
  /\ Cardinality(Mails) \in Nat /\ Cardinality(Msgs) <= Cardinality(Mails)
<1>1. IsFiniteSet(Mails) /\ Msg \in [Mails -> {Msg[m] : m \in Mails}]
  BY ChannelAssumption DEF Msgs
<1>2. IsFiniteSet(Msgs) /\ Cardinality(Msgs) <= Cardinality(Mails)
  BY <1>1, ValuesFinite DEF Msgs
<1> QED BY <1>1, <1>2, FS_CardinalityType

(* No reply has more segments than the longest.                               *)
LEMMA PartsBounded ==
  ASSUME NEW i \in Msgs
  PROVE  /\ MostParts \in Nat /\ Parts[i] \in Nat \ {0}
         /\ Parts[i] <= MostParts
<1>1. Parts \in [Msgs -> {Parts[x] : x \in Msgs}] /\ {Parts[x] : x \in Msgs} \in SUBSET Nat
  BY ChannelAssumption
<1>2. IsFiniteSet({Parts[x] : x \in Msgs})
  BY <1>1, MsgsFinite, ValuesFinite
<1>3. /\ MostParts \in {Parts[x] : x \in Msgs}
      /\ Parts[i] <= MostParts
  BY <1>1, <1>2, MaxIsGreatest DEF MostParts
<1> QED BY <1>1, <1>3, ChannelAssumption

(* The ledger has a number for every message it can hold.                     *)
LEMMA EnoughSids ==
  ASSUME NEW seq \in Seq(Entry),
         \A s, t \in DOMAIN seq : seq[s].msg = seq[t].msg => s = t
  PROVE  Len(seq) <= Cardinality(Mails) /\ DOMAIN seq \subseteq Sids
<1> DEFINE n == Len(seq)
           f == [s \in 1..n |-> seq[s].msg]
<1>1. n \in Nat /\ DOMAIN seq = 1..n /\ \A s \in 1..n : seq[s] \in Entry
  BY LenProperties, ElementOfSeq
<1>2. f \in Injection(1..n, Msgs)
  BY <1>1 DEF Injection, IsInjective, Entry
<1> HIDE DEF f
<1>3. Cardinality(1..n) <= Cardinality(Msgs)
  BY <1>2, MsgsFinite, FS_Injection
<1>4. Cardinality(1..n) = n
  BY <1>1, FS_Interval
<1> QED BY <1>1, <1>3, <1>4, MsgsFinite DEF Sids

-----------------------------------------------------------------------------
(* The ingress ledger.                                                        *)

(* What the conjuncts on the ledger say of its lines.                         *)
LEMMA LedgerFacts ==
  ASSUME LedgerOrdered
  PROVE  /\ ing.disk \in Seq(Entry) /\ ing.mem \in Seq(Entry) /\ ing.blocked \in BOOLEAN
         /\ Len(ing.disk) \in Nat /\ DOMAIN ing.disk = 1..Len(ing.disk)
         /\ Len(ing.mem) \in Nat /\ DOMAIN ing.mem = 1..Len(ing.mem)
         /\ DOMAIN ing.mem \subseteq DOMAIN ing.disk /\ DOMAIN ing.disk \subseteq Sids
         /\ \A s \in DOMAIN ing.disk : ing.disk[s].msg \in Msgs /\ ing.disk[s].st \in States
         /\ \A s \in DOMAIN ing.mem : ing.mem[s].msg \in Msgs /\ ing.mem[s].st \in States
         /\ Sids \subseteq Nat /\ 0 \notin Sids
<1>1. ing.disk \in Seq(Entry) /\ ing.mem \in Seq(Entry) /\ ing.blocked \in BOOLEAN
  BY DEF LedgerOrdered
<1>2. /\ Len(ing.disk) \in Nat /\ DOMAIN ing.disk = 1..Len(ing.disk)
      /\ Len(ing.mem) \in Nat /\ DOMAIN ing.mem = 1..Len(ing.mem)
      /\ \A s \in DOMAIN ing.disk : ing.disk[s] \in Entry
      /\ \A s \in DOMAIN ing.mem : ing.mem[s] \in Entry
  BY <1>1, LenProperties, ElementOfSeq
<1>3. DOMAIN ing.mem \subseteq DOMAIN ing.disk
  BY <1>2 DEF LedgerOrdered
<1>4. DOMAIN ing.disk \subseteq Sids
  BY <1>1, EnoughSids DEF LedgerOrdered
<1>5. Sids \subseteq Nat /\ 0 \notin Sids
  BY MsgsFinite DEF Sids
<1> QED BY <1>1, <1>2, <1>3, <1>4, <1>5 DEF Entry

(* Lines change states, nothing else.                                         *)
LEMMA StatedLines ==
  ASSUME NEW seq \in Seq(Entry), NEW f, \A s \in DOMAIN f : f[s] \in States
  PROVE  /\ Stated(seq, f) \in Seq(Entry)
         /\ Len(Stated(seq, f)) = Len(seq) /\ DOMAIN Stated(seq, f) = DOMAIN seq
         /\ \A s \in DOMAIN seq :
              /\ Stated(seq, f)[s].msg = seq[s].msg
              /\ Stated(seq, f)[s].st = IF s \in DOMAIN f THEN f[s] ELSE seq[s].st
<1>1. Len(seq) \in Nat /\ DOMAIN seq = 1..Len(seq) /\ \A s \in DOMAIN seq : seq[s] \in Entry
  BY LenProperties, ElementOfSeq
<1>2. \A s \in DOMAIN seq :
        /\ Stated(seq, f)[s] \in Entry
        /\ Stated(seq, f)[s].msg = seq[s].msg
        /\ Stated(seq, f)[s].st = IF s \in DOMAIN f THEN f[s] ELSE seq[s].st
  BY <1>1 DEF Stated, Entry
<1>3. DOMAIN Stated(seq, f) = 1..Len(seq) /\ Stated(seq, f) \in [1..Len(seq) -> Entry]
  BY <1>1, <1>2 DEF Stated
<1>4. Stated(seq, f) \in Seq(Entry)
  BY <1>1, <1>3, SeqDef
<1>5. Len(Stated(seq, f)) \in Nat /\ DOMAIN Stated(seq, f) = 1..Len(Stated(seq, f))
  BY <1>4, LenProperties
<1>6. Len(Stated(seq, f)) = Len(seq)
  BY <1>1, <1>3, <1>5
<1> QED BY <1>1, <1>2, <1>3, <1>4, <1>6

(* New states that the ledger takes.                                          *)
Legal(f) ==
  \A s \in DOMAIN f : s \in DOMAIN ing.mem /\ f[s] \in States /\ Ahead(ing.mem[s].st, f[s])

(* What lines for f may do: memory moves only with disk, and everything moved *)
(* unless the ledger is blocked now.                                          *)
Moved(f) ==
  /\ DOMAIN ing'.mem = DOMAIN ing.mem /\ DOMAIN ing'.disk = DOMAIN ing.disk
  /\ ing.blocked => ing' = ing
  /\ \A s \in DOMAIN ing.disk :
       /\ ing'.disk[s].msg = ing.disk[s].msg
       /\ ing'.disk[s].st = ing.disk[s].st \/ (s \in DOMAIN f /\ ing'.disk[s].st = f[s])
  /\ \A s \in DOMAIN ing.mem :
       /\ ing'.mem[s].msg = ing.mem[s].msg
       /\ \/ ing'.mem[s].st = ing.mem[s].st
          \/ s \in DOMAIN f /\ ing'.mem[s].st = f[s] /\ ing'.disk[s].st = f[s]
  /\ ~ing'.blocked => \A s \in DOMAIN f : ing'.mem[s].st = f[s]

(* Some lines are written on disk, as many or one less are in memory.         *)
LEMMA WrittenStep ==
  ASSUME LedgerOrdered, NEW f, Legal(f), ~ing.blocked,
         NEW T \in SUBSET DOMAIN f, NEW U \in SUBSET DOMAIN f, T \subseteq U,
         ing'.disk = Stated(ing.disk, Only(f, U)), ing'.mem = Stated(ing.mem, Only(f, T)),
         ing' \in [disk : Seq(Entry), mem : Seq(Entry), blocked : BOOLEAN],
         ~ing'.blocked => T = DOMAIN f
  PROVE  LedgerOrdered' /\ Moved(f)
<1>1. /\ ing.disk \in Seq(Entry) /\ ing.mem = ing.disk
      /\ DOMAIN ing.disk = 1..Len(ing.disk) /\ Len(ing.disk) \in Nat
  BY LedgerFacts DEF LedgerOrdered
<1>2. /\ DOMAIN Only(f, U) = U /\ DOMAIN Only(f, T) = T
      /\ \A s \in U : Only(f, U)[s] = f[s]
      /\ \A s \in T : Only(f, T)[s] = f[s]
      /\ \A s \in DOMAIN f : f[s] \in States
  BY DEF Only, Legal
<1>3. /\ Len(ing'.disk) = Len(ing.disk) /\ DOMAIN ing'.disk = DOMAIN ing.disk
      /\ \A s \in DOMAIN ing.disk :
           /\ ing'.disk[s].msg = ing.disk[s].msg
           /\ ing'.disk[s].st = IF s \in U THEN f[s] ELSE ing.disk[s].st
  BY <1>1, <1>2, StatedLines
<1>4. /\ Len(ing'.mem) = Len(ing.disk) /\ DOMAIN ing'.mem = DOMAIN ing.disk
      /\ \A s \in DOMAIN ing.disk :
           /\ ing'.mem[s].msg = ing.disk[s].msg
           /\ ing'.mem[s].st = IF s \in T THEN f[s] ELSE ing.disk[s].st
  BY <1>1, <1>2, StatedLines
<1>5. Moved(f)
  BY <1>1, <1>3, <1>4 DEF Moved
<1>6. ~ing'.blocked => ing'.disk = ing'.mem
  BY <1>1
<1>7. \A s \in DOMAIN ing.disk : Ahead(ing'.mem[s].st, ing'.disk[s].st)
  BY <1>1, <1>3, <1>4 DEF Legal, Ahead
<1> QED BY <1>1, <1>3, <1>4, <1>5, <1>6, <1>7 DEF LedgerOrdered

(* The same of all ways in which lines for f can come to disk.                *)
LEMMA LinesStep ==
  ASSUME LedgerOrdered, NEW f, Legal(f), ing' \in Lines(f)
  PROVE  LedgerOrdered' /\ Moved(f)
<1>1. CASE ing.blocked
  <2>1. ing' = ing
    BY <1>1 DEF Lines
  <2> QED BY <1>1, <2>1 DEF LedgerOrdered, Moved, Ahead
<1>2. CASE ~ing.blocked
  <2>1. ing \in [disk : Seq(Entry), mem : Seq(Entry), blocked : BOOLEAN]
    BY DEF LedgerOrdered
  <2>2. \A T \in SUBSET DOMAIN f :
           Stated(ing.disk, Only(f, T)) \in Seq(Entry) /\ Stated(ing.mem, Only(f, T)) \in Seq(Entry)
    BY <2>1, StatedLines DEF Only, Legal
  <2>3. \A s \in DOMAIN f : s \in DOMAIN Only(f, DOMAIN f) /\ Only(f, DOMAIN f)[s] = f[s]
    BY DEF Only
  <2>4. CASE ing' = [ing EXCEPT !.disk = Stated(@, f), !.mem = Stated(@, f)]
    <3>1. /\ Stated(ing.disk, Only(f, DOMAIN f)) = Stated(ing.disk, f)
          /\ Stated(ing.mem, Only(f, DOMAIN f)) = Stated(ing.mem, f)
      BY DEF Stated, Only
    <3> QED BY <1>2, <2>1, <2>2, <2>4, <3>1, WrittenStep
  <2>5. CASE \E T \in (SUBSET DOMAIN f) \ {DOMAIN f} :
               \/ ing' = Written(f, T, T)
               \/ \E s \in DOMAIN f \ T : ing' = Written(f, T, T \cup {s})
    <3>1. PICK T \in SUBSET DOMAIN f, U \in SUBSET DOMAIN f :
                 T \subseteq U /\ ing' = Written(f, T, U)
      BY <2>5
    <3> QED BY <1>2, <2>2, <3>1, WrittenStep DEF Written
  <2> QED BY <1>2, <2>4, <2>5 DEF Lines
<1> QED BY <1>1, <1>2

(* The states an arrival goes through.                                        *)
Fresh == {"durable", "authorized", "routed", "queued"}
Arriving == Fresh \cup {"rejected", "limited"}

(* Each of them follows the one before it, and the first is on the books.     *)
LEMMA WaysRight ==
  ASSUME NEW way \in Ways
  PROVE  /\ Len(way) \in Nat /\ Len(way) > 0
         /\ \A n \in 1..Len(way) : way[n] \in Arriving
         /\ way[1] = "durable"
         /\ \A n \in 1..Len(way) : n > 1 => CanTransition(way[n - 1], way[n])
         /\ way[Len(way)] = "queued" => \A n \in 1..Len(way) : way[n] \in Fresh
<1>1. CASE way = <<"durable", "rejected">>
  BY <1>1 DEF Arriving, Fresh, CanTransition
<1>2. CASE way = <<"durable", "authorized", "routed", "limited">>
  <2>1. /\ Len(way) = 4
        /\ way[1] = "durable"
        /\ way[2] = "authorized"
        /\ way[3] = "routed"
        /\ way[4] = "limited"
    BY <1>2
  <2>2. \A n \in 1..Len(way) : n = 1 \/ n = 2 \/ n = 3 \/ n = 4
    BY <2>1
  <2> QED BY <2>1, <2>2 DEF Arriving, Fresh, CanTransition
<1>3. CASE way = <<"durable", "authorized", "routed", "queued">>
  <2>1. /\ Len(way) = 4
        /\ way[1] = "durable"
        /\ way[2] = "authorized"
        /\ way[3] = "routed"
        /\ way[4] = "queued"
    BY <1>3
  <2>2. \A n \in 1..Len(way) : n = 1 \/ n = 2 \/ n = 3 \/ n = 4
    BY <2>1
  <2> QED BY <2>1, <2>2 DEF Arriving, Fresh, CanTransition
<1> QED BY <1>1, <1>2, <1>3 DEF Ways

(* A line on the books, or none.                                              *)
LEMMA LineAdded ==
  ASSUME NEW seq \in Seq(Entry), NEW m \in Mails, NEW way \in Ways, NEW n \in 0..Len(way)
  PROVE  /\ Line(seq, m, way, n) \in Seq(Entry)
         /\ n = 0 => Line(seq, m, way, n) = seq
         /\ n # 0 => /\ Len(Line(seq, m, way, n)) = Len(seq) + 1
                     /\ \A s \in DOMAIN seq : Line(seq, m, way, n)[s] = seq[s]
                     /\ Line(seq, m, way, n)[Len(seq) + 1] = [msg |-> Msg[m], st |-> way[n]]
<1>1. CASE n # 0
  <2>1. [msg |-> Msg[m], st |-> way[n]] \in Entry
    BY <1>1, WaysRight, ChannelAssumption DEF Entry, Arriving, Fresh, States, Terminal
  <2>2. DOMAIN seq = 1..Len(seq)
    BY LenProperties
  <2>3. PICK e \in Entry : e = [msg |-> Msg[m], st |-> way[n]]
    BY <2>1
  <2>4. Line(seq, m, way, n) = Append(seq, e)
    BY <1>1, <2>3 DEF Line
  <2>5. /\ Append(seq, e) \in Seq(Entry) /\ Len(Append(seq, e)) = Len(seq) + 1
        /\ \A i \in 1..Len(seq) : Append(seq, e)[i] = seq[i]
        /\ Append(seq, e)[Len(seq) + 1] = e
    BY AppendProperties
  <2> QED BY <1>1, <2>2, <2>3, <2>4, <2>5
<1> QED BY <1>1 DEF Line

(* The next number of the books.                                              *)
NextSid == Len(ing.mem) + 1

(* What an arrival may do: a message that has no number gets the next one, on *)
(* disk if in memory.                                                         *)
Extended(m, way) ==
  /\ DOMAIN ing'.mem \subseteq DOMAIN ing.mem \cup {NextSid}
  /\ DOMAIN ing.mem \subseteq DOMAIN ing'.mem
  /\ DOMAIN ing'.disk \subseteq DOMAIN ing.disk \cup {NextSid}
  /\ DOMAIN ing.disk \subseteq DOMAIN ing'.disk
  /\ NextSid \notin DOMAIN ing.disk
  /\ \A s \in DOMAIN ing.disk : ing'.disk[s] = ing.disk[s] /\ ing'.mem[s] = ing.mem[s]
  /\ NextSid \in DOMAIN ing'.disk => ing'.disk[NextSid].msg = Msg[m] /\ ing'.disk[NextSid].st \in Arriving
  /\ NextSid \in DOMAIN ing'.mem => NextSid \in DOMAIN ing'.disk
  /\ Recorded <=> NextSid \in DOMAIN ing'.mem
  /\ Recorded => Len(ing'.mem) = NextSid
  /\ Recorded /\ way[Len(way)] = "queued" => {ing'.mem[NextSid].st,
                                              ing'.disk[NextSid].st} \subseteq Fresh

(* A prefix of the lines is on disk, as many or one less are in memory.       *)
LEMMA IngestedPrefix ==
  ASSUME LedgerOrdered, ~ing.blocked, NEW m \in Mails, NEW way \in Ways, ~Known(m),
         NEW a \in 0..Len(way), NEW b \in 0..Len(way), a = b \/ a = b + 1,
         ing'.disk = Line(ing.disk, m, way, a), ing'.mem = Line(ing.mem, m, way, b),
         ing'.blocked \in BOOLEAN, ~ing'.blocked => a = b,
         ing' = [disk |-> ing'.disk, mem |-> ing'.mem, blocked |-> ing'.blocked]
  PROVE  LedgerOrdered' /\ Extended(m, way)
<1> DEFINE n == Len(ing.disk)
<1>1. /\ ing.disk \in Seq(Entry) /\ ing.mem = ing.disk
      /\ DOMAIN ing.disk = 1..n /\ n \in Nat
  BY LedgerFacts DEF LedgerOrdered
<1>d. /\ ing'.disk \in Seq(Entry)
      /\ Len(ing'.disk) = IF a = 0 THEN n ELSE n + 1
      /\ \A s \in 1..n : ing'.disk[s] = ing.disk[s]
      /\ a # 0 => ing'.disk[n + 1] = [msg |-> Msg[m], st |-> way[a]]
  <2>1. CASE a = 0
    BY <1>1, <2>1 DEF Line
  <2>2. CASE a # 0
    BY <1>1, <2>2, LineAdded
  <2> QED BY <2>1, <2>2
<1>m. /\ ing'.mem \in Seq(Entry)
      /\ Len(ing'.mem) = IF b = 0 THEN n ELSE n + 1
      /\ \A s \in 1..n : ing'.mem[s] = ing.disk[s]
      /\ b # 0 => ing'.mem[n + 1] = [msg |-> Msg[m], st |-> way[b]]
  <2>1. CASE b = 0
    BY <1>1, <2>1 DEF Line
  <2>2. CASE b # 0
    BY <1>1, <2>2, LineAdded
  <2> QED BY <2>1, <2>2
<1>2. /\ ing'.disk \in Seq(Entry) /\ ing'.mem \in Seq(Entry)
      /\ DOMAIN ing'.disk = 1..Len(ing'.disk) /\ DOMAIN ing'.mem = 1..Len(ing'.mem)
  BY <1>d, <1>m, LenProperties
<1>3. \A s \in 1..n : ing'.disk[s] = ing.disk[s] /\ ing'.mem[s] = ing.disk[s]
  BY <1>d, <1>m
<1>4. /\ Len(ing'.disk) = IF a = 0 THEN n ELSE n + 1
      /\ Len(ing'.mem) = IF b = 0 THEN n ELSE n + 1
      /\ a # 0 => ing'.disk[n + 1].msg = Msg[m] /\ ing'.disk[n + 1].st = way[a]
      /\ b # 0 => ing'.mem[n + 1].msg = Msg[m] /\ ing'.mem[n + 1].st = way[b]
  BY <1>d, <1>m
<1>5. \A s \in 1..n : ing.disk[s].msg # Msg[m]
  BY <1>1 DEF Known
<1>6. /\ a # 0 => way[a] \in Arriving
      /\ a # 0 /\ b = 0 => way[a] = "durable"
      /\ b # 0 => Ahead(way[b], way[a])
      /\ way[Len(way)] = "queued" => (a # 0 => way[a] \in Fresh) /\ (b # 0 => way[b] \in Fresh)
  <2>1. a = b + 1 /\ b # 0 => a > 1 /\ a - 1 = b
    OBVIOUS
  <2> QED BY <2>1, WaysRight DEF Ahead
<1>7. LedgerOrdered'
  <2>1. ing' \in [disk : Seq(Entry), mem : Seq(Entry), blocked : BOOLEAN]
    BY <1>2
  <2>2. Len(ing'.mem) <= Len(ing'.disk)
    BY <1>1, <1>4
  <2>3. ~ing'.blocked => ing'.disk = ing'.mem
    BY <1>1
  <2>4. ASSUME NEW s \in DOMAIN ing'.mem
        PROVE  ing'.disk[s].msg = ing'.mem[s].msg /\ Ahead(ing'.mem[s].st, ing'.disk[s].st)
    <3>1. CASE s \in 1..n
      BY <1>3, <3>1 DEF Ahead
    <3>2. CASE s \notin 1..n
      <4>1. s = n + 1 /\ b # 0 /\ a # 0
        BY <1>1, <1>2, <1>4, <3>2
      <4> QED BY <1>4, <1>6, <4>1
    <3> QED BY <3>1, <3>2
  <2>5. ASSUME NEW s \in DOMAIN ing'.disk \ DOMAIN ing'.mem
        PROVE  ing'.disk[s].st = "durable"
    <3>1. s = n + 1 /\ b = 0 /\ a # 0
      BY <1>1, <1>2, <1>4
    <3> QED BY <1>4, <1>6, <3>1
  <2>6. ASSUME NEW s \in DOMAIN ing'.disk, NEW t \in DOMAIN ing'.disk,
               ing'.disk[s].msg = ing'.disk[t].msg
        PROVE  s = t
    <3>1. ASSUME NEW r \in DOMAIN ing'.disk PROVE r \in 1..n \/ (r = n + 1 /\ a # 0)
      BY <1>1, <1>2, <1>4
    <3>2. CASE s \in 1..n /\ t \in 1..n
      BY <1>1, <1>3, <2>6, <3>2 DEF LedgerOrdered
    <3> QED BY <1>3, <1>4, <1>5, <2>6, <3>1, <3>2
  <2> QED BY <2>1, <2>2, <2>3, <2>4, <2>5, <2>6 DEF LedgerOrdered
<1>8. Recorded <=> b # 0
  BY <1>1, <1>4 DEF Recorded
<1>9. Extended(m, way)
  BY <1>1, <1>2, <1>3, <1>4, <1>6, <1>8 DEF Extended, NextSid
<1> QED BY <1>7, <1>9

(* The same of all ways in which an arrival can come to disk.                 *)
LEMMA IngestedStep ==
  ASSUME LedgerOrdered, ~ing.blocked, NEW m \in Mails, NEW way \in Ways, ~Known(m),
         ing' \in Ingested(m, way)
  PROVE  LedgerOrdered' /\ Extended(m, way)
<1>1. Len(way) \in Nat /\ Len(way) > 0
  BY WaysRight
<1>2. CASE ing' = [disk |-> Line(ing.disk, m, way, Len(way)),
                   mem |-> Line(ing.mem, m, way, Len(way)), blocked |-> FALSE]
  BY <1>1, <1>2, IngestedPrefix
<1>3. CASE \E n \in 1..Len(way), last \in BOOLEAN :
             ing' = [disk |-> Line(ing.disk, m, way, IF last THEN n ELSE n - 1),
                     mem |-> Line(ing.mem, m, way, n - 1), blocked |-> TRUE]
  <2>1. PICK n \in 1..Len(way), last \in BOOLEAN :
             ing' = [disk |-> Line(ing.disk, m, way, IF last THEN n ELSE n - 1),
                     mem |-> Line(ing.mem, m, way, n - 1), blocked |-> TRUE]
    BY <1>3
  <2>2. n - 1 \in 0..Len(way) /\ n \in 0..Len(way) /\ n = (n - 1) + 1
    BY <1>1
  <2> QED BY <2>1, <2>2, IngestedPrefix
<1> QED BY <1>2, <1>3 DEF Ingested

-----------------------------------------------------------------------------
(* The outbox.                                                                *)

(* Where there is a number there is a message, and a longest reply.           *)
LEMMA SidPieces ==
  ASSUME NEW s \in Sids
  PROVE  /\ MostParts \in Nat /\ <<s, 0>> \in Pieces
         /\ {s} \X (0..MostParts) \subseteq Pieces /\ {s} \X (1..MostParts) \subseteq Pieces
         /\ \A k \in 0..MostParts : <<s, k>> \in Pieces
<1>1. Cardinality(Mails) # 0
  BY MsgsFinite DEF Sids
<1>2. Mails # {}
  BY <1>1, FS_EmptySet
<1>3. \E i \in Msgs : TRUE
  BY <1>2 DEF Msgs
<1>4. MostParts \in Nat
  BY <1>3, PartsBounded
<1>5. 0 \in 0..MostParts /\ 1..MostParts \subseteq 0..MostParts
  BY <1>4
<1> QED BY <1>4, <1>5 DEF Pieces

(* A piece belongs to a number.                                               *)
LEMMA PiecesRight ==
  ASSUME NEW p \in Pieces
  PROVE  /\ MostParts \in Nat /\ p[1] \in Sids /\ p[2] \in 0..MostParts /\ p = <<p[1], p[2]>>
         /\ \A k \in 0..MostParts : <<p[1], k>> \in Pieces
<1>1. p[1] \in Sids /\ p[2] \in 0..MostParts /\ p = <<p[1], p[2]>>
  BY DEF Pieces
<1> QED BY <1>1, SidPieces

(* The pieces of a reply and of a notice are pieces.                          *)
LEMMA PartsArePieces ==
  ASSUME LedgerOrdered, NEW s \in DOMAIN ing.mem
  PROVE  /\ s \in Sids
         /\ Reply(s) = {s} \X (1..Parts[ing.mem[s].msg])
         /\ Reply(s) \subseteq {s} \X (1..MostParts) /\ Reply(s) \subseteq Pieces
         /\ Notice(s) \subseteq Pieces /\ <<s, 0>> \in Pieces
         /\ Reply(s) # {}
<1>1. s \in Sids /\ ing.mem[s].msg \in Msgs
  BY LedgerFacts
<1>2. MostParts \in Nat /\ Parts[ing.mem[s].msg] \in Nat \ {0} /\ Parts[ing.mem[s].msg] <= MostParts
  BY <1>1, PartsBounded
<1>3. /\ 1..Parts[ing.mem[s].msg] \subseteq 1..MostParts
      /\ 1..MostParts \subseteq 0..MostParts
      /\ 0 \in 0..MostParts
  BY <1>2
<1>4. 1 \in 1..Parts[ing.mem[s].msg]
  BY <1>2
<1>5. Reply(s) = {s} \X (1..Parts[ing.mem[s].msg])
  BY DEF Reply
<1>6. Reply(s) \subseteq {s} \X (1..MostParts) /\ <<s, 1>> \in Reply(s)
  <2> HIDE DEF Reply
  <2>1. \A k \in 1..Parts[ing.mem[s].msg] : k \in 1..MostParts
    BY <1>3
  <2>2. ASSUME NEW p \in Reply(s) PROVE p \in {s} \X (1..MostParts)
    BY <1>5, <2>1
  <2>3. <<s, 1>> \in Reply(s)
    BY <1>4, <1>5
  <2> QED BY <2>2, <2>3
<1>7. {s} \X (1..MostParts) \subseteq Pieces /\ <<s, 0>> \in Pieces
  BY <1>1, <1>3 DEF Pieces
<1> QED BY <1>1, <1>5, <1>6, <1>7 DEF Notice

(* What the conjuncts on the box say of its items.                            *)
LEMMA BoxFacts ==
  ASSUME BoxOrdered
  PROVE  /\ box = [disk |-> box.disk, mem |-> box.mem, broken |-> box.broken]
         /\ DOMAIN box.disk = Pieces /\ DOMAIN box.mem = Pieces /\ box.broken \in BOOLEAN
         /\ box.disk \in [Pieces -> BoxItem] /\ box.mem \in [Pieces -> BoxItem]
         /\ \A p \in Pieces : box.disk[p] \in BoxItem /\ box.mem[p] \in BoxItem
         /\ ~box.broken => box.disk = box.mem
BY DEF BoxOrdered

(* What may become of the items while the process lives: none leaves the box, *)
(* what was sent stays sent, a number is for good, and what is new is of S.   *)
Grown(S) ==
  \A p \in Pieces :
    /\ box.mem[p].st # "none" => box'.mem[p].st # "none"
    /\ box.disk[p].st # "none" => box'.disk[p].st # "none"
    /\ box'.disk[p].st # "none" => box.disk[p].st # "none" \/ p \in S
    /\ box.disk[p].st = "sent" => box'.disk[p].st = "sent"
    /\ box.disk[p].seat # 0 => box'.disk[p].seat = box.disk[p].seat

(* Pieces are entered without a number, and nothing else is touched.          *)
LEMMA EnqueueStep ==
  ASSUME BoxOrdered, NEW S \in SUBSET Pieces, box' \in Enqueue(S)
  PROVE  /\ BoxOrdered' /\ Grown(S)
         /\ \A p \in Pieces : /\ box.mem[p].st # "none" =>
                                   box'.mem[p] = box.mem[p] /\ box'.disk[p] = box.disk[p]
                              /\ box'.disk[p].seat = box.disk[p].seat
                              /\ box'.disk[p].st # box.disk[p].st => box'.disk[p].st = "pending"
<1>1. CASE box.broken \/ New(S) = {}
  <2>1. box' = box
    BY <1>1 DEF Enqueue
  <2> QED BY <2>1 DEF BoxOrdered, Grown
<1>2. CASE ~box.broken
  <2>1. PICK T \in SUBSET New(S), U \in SUBSET New(S) :
          /\ T \subseteq U
          /\ box'.disk = Entered(box.disk, U) /\ box'.mem = Entered(box.mem, T)
          /\ box' = [disk |-> box'.disk, mem |-> box'.mem, broken |-> box'.broken]
          /\ box'.broken \in BOOLEAN
          /\ ~box'.broken => T = U
    <3>1. CASE New(S) = {}
      <4>1. box' = box
        BY <3>1 DEF Enqueue
      <4>2. Entered(box.disk, {}) = box.disk /\ Entered(box.mem, {}) = box.mem
        BY BoxFacts DEF Entered
      <4> QED BY <4>1, <4>2, BoxFacts
    <3>2. CASE /\ New(S) # {}
               /\ box' = [box EXCEPT !.disk = Entered(@, New(S)), !.mem = Entered(@, New(S))]
      BY <3>2, BoxFacts
    <3>3. CASE \E p \in New(S), last \in BOOLEAN :
                 box' = [disk |-> Entered(box.disk, Before(p, S) \cup (IF last THEN {p} ELSE {})),
                         mem |-> Entered(box.mem, Before(p, S)), broken |-> TRUE]
      <4>1. PICK p \in New(S), last \in BOOLEAN :
                 box' = [disk |-> Entered(box.disk, Before(p, S) \cup (IF last THEN {p} ELSE {})),
                         mem |-> Entered(box.mem, Before(p, S)), broken |-> TRUE]
        BY <3>3
      <4>2. Before(p, S) \subseteq New(S)
        BY DEF Before
      <4> QED BY <4>1, <4>2
    <3> QED BY <1>2, <3>1, <3>2, <3>3 DEF Enqueue
  <2>2. New(S) \subseteq Pieces /\ \A p \in New(S) :
          box.mem[p].st = "none" /\ box.disk[p].st = "none" /\ box.disk[p].seat = 0
    BY <1>2, BoxFacts DEF New, Item, BoxOrdered
  <2>3. /\ [NoItem EXCEPT !.st = "pending"] \in BoxItem
        /\ [NoItem EXCEPT !.st = "pending"].st = "pending"
        /\ [NoItem EXCEPT !.st = "pending"].seat = 0
    BY DEF NoItem, BoxItem
  <2>4. /\ \A p \in Pieces : box'.disk[p] = IF p \in U THEN [NoItem EXCEPT !.st = "pending"] ELSE box.disk[p]
        /\ \A p \in Pieces : box'.mem[p] = IF p \in T THEN [NoItem EXCEPT !.st = "pending"] ELSE box.mem[p]
        /\ box'.disk \in [Pieces -> BoxItem] /\ box'.mem \in [Pieces -> BoxItem]
    BY <2>1, <2>3, BoxFacts DEF Entered
  <2>5. \A p \in Pieces : box'.disk[p].seat = box.disk[p].seat
    BY <2>2, <2>3, <2>4
  <2>6. BoxOrdered'
    <3>1. box' \in [disk : [Pieces -> BoxItem], mem : [Pieces -> BoxItem], broken : BOOLEAN]
      BY <2>1, <2>4
    <3>2. ~box'.broken => box'.disk = box'.mem
      BY <1>2, <2>1, BoxFacts
    <3>3. \A p \in Pieces : /\ box'.mem[p].st # "none" => box'.disk[p].st # "none"
                            /\ box'.disk[p].st = "none" => box'.disk[p].seat = 0
      BY <2>1, <2>2, <2>3, <2>4 DEF BoxOrdered
    <3>4. \A p, q \in Pieces : p[1] = q[1] /\ box'.disk[p].seat = box'.disk[q].seat /\ box'.disk[p].seat # 0 => p = q
      BY <2>5 DEF BoxOrdered
    <3> QED BY <3>1, <3>2, <3>3, <3>4 DEF BoxOrdered
  <2>7. Grown(S)
    BY <2>1, <2>2, <2>3, <2>4 DEF Grown, New
  <2> QED BY <2>1, <2>2, <2>3, <2>4, <2>5, <2>6, <2>7
<1> QED BY <1>1, <1>2, BoxFacts

(* One item is written anew with its number and with what it is not to lose.  *)
LEMMA PutStep ==
  ASSUME BoxOrdered, ~box.broken, NEW p \in Pieces, NEW d \in BoxItem, NEW m \in BoxItem,
         box'.disk = [box.disk EXCEPT ![p] = d], box'.mem = [box.mem EXCEPT ![p] = m],
         box' = [disk |-> box'.disk, mem |-> box'.mem, broken |-> box'.broken],
         box'.broken \in BOOLEAN, ~box'.broken => d = m,
         Item(p).st # "none" => d.st # "none" /\ m.st # "none",
         d.st = "none" => d.seat = 0 /\ m.st = "none",
         Item(p).st = "sent" => d.st = "sent", Item(p).st = "none" => d.st = "none",
         d.seat = Item(p).seat \/ (Item(p).seat = 0 /\ \A q \in Pieces : q[1] = p[1] =>
                                   Item(q).seat # d.seat)
  PROVE  /\ BoxOrdered' /\ Grown({})
         /\ box'.disk[p] = d /\ box'.mem[p] = m
         /\ \A q \in Pieces : q # p => box'.disk[q] = box.disk[q] /\ box'.mem[q] = box.mem[q]
<1>1. /\ box.disk = box.mem /\ box.disk \in [Pieces -> BoxItem] /\ box.mem \in [Pieces -> BoxItem]
      /\ \A q \in Pieces : Item(q) = box.disk[q] /\ Item(q) = box.mem[q]
  BY BoxFacts DEF Item
<1>2. /\ box'.disk[p] = d /\ box'.mem[p] = m
      /\ \A q \in Pieces : q # p => box'.disk[q] = box.disk[q] /\ box'.mem[q] = box.mem[q]
      /\ box'.disk \in [Pieces -> BoxItem] /\ box'.mem \in [Pieces -> BoxItem]
  BY <1>1
<1>3. Grown({})
  BY <1>1, <1>2 DEF Grown
<1>4. box' \in [disk : [Pieces -> BoxItem], mem : [Pieces -> BoxItem], broken : BOOLEAN]
  BY <1>2
<1>5. ~box'.broken => box'.disk = box'.mem
  BY <1>1
<1>6. \A q \in Pieces : /\ box'.mem[q].st # "none" => box'.disk[q].st # "none"
                        /\ box'.disk[q].st = "none" => box'.disk[q].seat = 0
  BY <1>2 DEF BoxOrdered
<1>7. ASSUME NEW q \in Pieces, NEW r \in Pieces, q[1] = r[1], box'.disk[q].seat = box'.disk[r].seat,
             box'.disk[q].seat # 0
      PROVE  q = r
  <2>1. CASE q # p /\ r # p
    BY <1>2, <1>7, <2>1 DEF BoxOrdered
  <2>2. CASE d.seat = Item(p).seat
    BY <1>1, <1>2, <1>7, <2>2 DEF BoxOrdered
  <2>3. CASE \A x \in Pieces : x[1] = p[1] => Item(x).seat # d.seat
    <3>1. ASSUME NEW x \in Pieces, x # p, x[1] = p[1] PROVE box'.disk[x].seat # box'.disk[p].seat
      BY <1>1, <1>2, <2>3, <3>1
    <3>2. CASE q = p \/ r = p
      BY <1>7, <3>1, <3>2
    <3> QED BY <2>1, <3>2
  <2> QED BY <2>1, <2>2, <2>3
<1>8. BoxOrdered'
  BY <1>4, <1>5, <1>6, <1>7 DEF BoxOrdered
<1> QED BY <1>2, <1>3, <1>8

(* A verdict on an item: what it is called changes, if anything.              *)
LEMMA MarkStep ==
  ASSUME BoxOrdered, NEW p \in Pieces, NEW st \in Final, box' \in Mark(p, st), Item(p).st # "none"
  PROVE  /\ BoxOrdered' /\ Grown({})
         /\ \A q \in Pieces : /\ q # p => box'.disk[q] = box.disk[q] /\ box'.mem[q] = box.mem[q]
                              /\ box'.disk[q].seat = box.disk[q].seat
                              /\ box'.disk[q].st # box.disk[q].st => q = p /\ box'.disk[q].st = st
<1>1. CASE box' = box
  BY <1>1 DEF BoxOrdered, Grown
<1>2. CASE box' # box
  <2> DEFINE item == [Item(p) EXCEPT !.st = st]
  <2>1. ~box.broken /\ Item(p).st \notin Final /\ box' \in Put(p, item)
    BY <1>2 DEF Mark
  <2>2. Item(p) \in BoxItem /\ Item(p) = box.mem[p]
    BY BoxFacts DEF Item
  <2>3. item \in BoxItem /\ item.st = st /\ item.seat = Item(p).seat
    BY <2>2 DEF BoxItem
  <2>4. PICK d \in {item, Item(p)}, m \in {item, Item(p)} :
          /\ box'.disk = [box.disk EXCEPT ![p] = d] /\ box'.mem = [box.mem EXCEPT ![p] = m]
          /\ box' = [disk |-> box'.disk, mem |-> box'.mem, broken |-> box'.broken]
          /\ box'.broken \in BOOLEAN
          /\ ~box'.broken => d = m
    <3>1. /\ box.disk = box.mem
          /\ [box.disk EXCEPT ![p] = Item(p)] = box.disk
          /\ [box.mem EXCEPT ![p] = Item(p)] = box.mem
      BY <2>1, <2>2, BoxFacts
    <3>2. CASE box' = [box EXCEPT !.disk[p] = item, !.mem[p] = item]
      BY <2>1, <3>2, BoxFacts
    <3>3. CASE box' = [box EXCEPT !.broken = TRUE]
      BY <3>1, <3>3, BoxFacts
    <3>4. CASE box' = [box EXCEPT !.disk[p] = item, !.broken = TRUE]
      BY <3>1, <3>4, BoxFacts
    <3> QED BY <2>1, <3>2, <3>3, <3>4 DEF Put
  <2> HIDE DEF item
  <2>5. "sent" \in Final /\ "none" \notin Final
    BY DEF Final
  <2>6. /\ BoxOrdered' /\ Grown({})
        /\ box'.disk[p] = d /\ box'.mem[p] = m
        /\ \A q \in Pieces : q # p => box'.disk[q] = box.disk[q] /\ box'.mem[q] = box.mem[q]
    BY <2>1, <2>2, <2>3, <2>4, <2>5, PutStep
  <2>7. box.disk[p] = Item(p)
    BY <2>1, <2>2, BoxFacts
  <2> QED BY <2>2, <2>3, <2>4, <2>6, <2>7
<1> QED BY <1>1, <1>2

(* The next number of a message is one that none of its pieces has.           *)
LEMMA SeatIsNew ==
  ASSUME BoxOrdered, NEW p \in Pieces
  PROVE  /\ NextSeat(p[1]) \in Nat \ {0}
         /\ \A q \in Pieces : q[1] = p[1] => Item(q).seat < NextSeat(p[1])
<1> DEFINE s == p[1]
           f == [k \in 0..MostParts |-> Item(<<s, k>>).seat]
           Seats == {Item(q).seat : q \in {s} \X (0..MostParts)}
<1>1. MostParts \in Nat /\ s \in Sids /\ \A k \in 0..MostParts : <<s, k>> \in Pieces
  BY PiecesRight
<1>2. \A q \in Pieces : Item(q).seat \in Nat
  BY BoxFacts DEF Item, BoxItem
<1>3. Seats = {f[k] : k \in 0..MostParts}
  <2>1. ASSUME NEW q \in {s} \X (0..MostParts) PROVE Item(q).seat \in {f[k] : k \in 0..MostParts}
    <3>1. q = <<s, q[2]>> /\ q[2] \in 0..MostParts
      OBVIOUS
    <3>2. f[q[2]] = Item(<<s, q[2]>>).seat
      BY <3>1
    <3> QED BY <3>1, <3>2
  <2>2. ASSUME NEW k \in 0..MostParts PROVE f[k] \in Seats
    <3>1. <<s, k>> \in {s} \X (0..MostParts)
      OBVIOUS
    <3> QED BY <3>1
  <2> QED BY <2>1, <2>2
<1>4. f \in [0..MostParts -> {f[k] : k \in 0..MostParts}]
  OBVIOUS
<1>5. IsFiniteSet({f[k] : k \in 0..MostParts})
  <2>1. IsFiniteSet(0..MostParts)
    <3>1. 0 \in Int /\ MostParts \in Int
      BY <1>1
    <3> QED BY <3>1, FS_Interval
  <2> HIDE DEF f
  <2> QED BY <1>4, <2>1, ValuesFinite
<1>6. Seats \in SUBSET Nat /\ Seats # {}
  <2>1. \A q \in {s} \X (0..MostParts) : q \in Pieces
    BY <1>1 DEF Pieces
  <2>2. <<s, 0>> \in {s} \X (0..MostParts)
    BY <1>1
  <2> QED BY <1>2, <2>1, <2>2
<1>7. /\ Max(Seats) \in Nat
      /\ \A k \in Seats : k <= Max(Seats)
  <2>1. IsFiniteSet(Seats)
    BY <1>3, <1>5
  <2> HIDE DEF Seats
  <2> QED BY <1>6, <2>1, MaxIsGreatest
<1>8. NextSeat(s) = 1 + Max(Seats)
  BY DEF NextSeat
<1>9. ASSUME NEW q \in Pieces, q[1] = s PROVE Item(q).seat \in Seats
  <2>1. q \in {s} \X (0..MostParts)
    BY <1>9 DEF Pieces
  <2> QED BY <2>1
<1> HIDE DEF Seats
<1> QED BY <1>2, <1>7, <1>8, <1>9

-----------------------------------------------------------------------------
(* Sequences of sids that come once.                                          *)

(* The first leaves, the others stay.                                         *)
LEMMA HeadLeaves ==
  ASSUME NEW seq \in Seq(Nat), seq # <<>>, Once(seq)
  PROVE  /\ Head(seq) \in Elems(seq) /\ Head(seq) \in Nat
         /\ Tail(seq) \in Seq(Nat) /\ Once(Tail(seq))
         /\ Elems(Tail(seq)) = Elems(seq) \ {Head(seq)}
<1> DEFINE n == Len(seq)
<1>1. n \in Nat \ {0} /\ DOMAIN seq = 1..n
  BY EmptySeq, LenProperties
<1>2. Head(seq) = seq[1] /\ 1 \in DOMAIN seq /\ seq[1] \in Nat
  BY <1>1, ElementOfSeq
<1>3. /\ Tail(seq) \in Seq(Nat) /\ Len(Tail(seq)) = n - 1
      /\ \A i \in 1..(n - 1) : Tail(seq)[i] = seq[i + 1]
  BY <1>1, HeadTailProperties
<1>4. DOMAIN Tail(seq) = 1..(n - 1)
  BY <1>3, LenProperties
<1>5. \A i \in 1..(n - 1) : i + 1 \in DOMAIN seq /\ i + 1 # 1
  BY <1>1
<1>6. Once(Tail(seq))
  BY <1>3, <1>4, <1>5 DEF Once
<1>7. ASSUME NEW x \in Elems(Tail(seq)) PROVE x \in Elems(seq) /\ x # Head(seq)
  BY <1>2, <1>3, <1>4, <1>5 DEF Once, Elems
<1>8. ASSUME NEW x \in Elems(seq), x # Head(seq) PROVE x \in Elems(Tail(seq))
  <2>1. PICK i \in 1..n : x = seq[i] /\ i # 1
    BY <1>1, <1>2, <1>8 DEF Elems
  <2>2. i - 1 \in 1..(n - 1) /\ (i - 1) + 1 = i
    BY <1>1, <2>1
  <2> QED BY <1>3, <1>4, <2>1, <2>2 DEF Elems
<1> QED BY <1>2, <1>3, <1>6, <1>7, <1>8 DEF Elems

(* One is added that is not there yet.                                        *)
LEMMA OneJoins ==
  ASSUME NEW seq \in Seq(Nat), NEW x \in Nat, x \notin Elems(seq), Once(seq)
  PROVE  /\ Append(seq, x) \in Seq(Nat) /\ Once(Append(seq, x))
         /\ Elems(Append(seq, x)) = Elems(seq) \cup {x}
<1> DEFINE n == Len(seq)
<1>1. n \in Nat /\ DOMAIN seq = 1..n
  BY LenProperties
<1>2. /\ Append(seq, x) \in Seq(Nat) /\ Len(Append(seq, x)) = n + 1
      /\ \A i \in 1..n : Append(seq, x)[i] = seq[i]
      /\ Append(seq, x)[n + 1] = x
  BY AppendProperties
<1>3. DOMAIN Append(seq, x) = 1..(n + 1)
  BY <1>2, LenProperties
<1>4. \A i \in 1..(n + 1) : i \in 1..n \/ i = n + 1
  BY <1>1
<1>5. Once(Append(seq, x))
  BY <1>1, <1>2, <1>3, <1>4 DEF Once, Elems
<1>6. ASSUME NEW y \in Elems(Append(seq, x)) PROVE y \in Elems(seq) \cup {x}
  BY <1>1, <1>2, <1>3, <1>4 DEF Elems
<1>7. ASSUME NEW y \in Elems(seq) \cup {x} PROVE y \in Elems(Append(seq, x))
  <2>1. n + 1 \in 1..(n + 1) /\ \A i \in 1..n : i \in 1..(n + 1)
    BY <1>1
  <2> QED BY <1>1, <1>2, <1>3, <2>1 DEF Elems
<1> QED BY <1>2, <1>5, <1>6, <1>7

(* Where nothing is there is nobody.                                          *)
LEMMA NobodyIn == Elems(<<>>) = {} /\ Once(<<>>) /\ <<>> \in Seq(Nat)
BY DEF Elems, Once

-----------------------------------------------------------------------------
(* What the steps of one process leave right.                                 *)

(* The ledger goes on: nothing on it is lost or changed but states of S.      *)
GoesOn(S) ==
  /\ LedgerOrdered'
  /\ DOMAIN ing.mem \subseteq DOMAIN ing'.mem /\ DOMAIN ing.disk \subseteq DOMAIN ing'.disk
  /\ \A s \in DOMAIN ing.disk : ing'.disk[s].msg = ing.disk[s].msg
  /\ \A s \in DOMAIN ing.mem :
       /\ ing'.mem[s].msg = ing.mem[s].msg
       /\ Ahead(ing.mem[s].st, ing'.mem[s].st)
       /\ ing.mem[s].st = "dead" => ing'.mem[s].st = "dead" /\ ing'.disk[s].st = "dead"
       /\ s \notin S => ing'.mem[s].st = ing.mem[s].st /\ ing'.disk[s].st = ing.disk[s].st
  /\ \A s \in DOMAIN ing'.mem \ DOMAIN ing.mem : ing'.disk[s].st \in Arriving
  /\ ing.blocked => ing'.blocked

(* It goes on when nothing is written, ...                                    *)
LEMMA SameGoesOn ==
  ASSUME LedgerOrdered, ing'.disk = ing.disk, ing'.mem = ing.mem, ing'.blocked \in BOOLEAN,
         ing.blocked => ing'.blocked, ing' = [disk |-> ing'.disk, mem |-> ing'.mem,
                                              blocked |-> ing'.blocked]
  PROVE  GoesOn({})
<1>1. LedgerOrdered'
  BY LedgerFacts DEF LedgerOrdered
<1>2. \A s \in DOMAIN ing.mem : ing.mem[s].st = "dead" => ing.disk[s].st = "dead"
  BY DEF LedgerOrdered, Ahead, CanTransition, Terminal
<1> QED BY <1>1, <1>2 DEF GoesOn, Ahead

(* ... when some messages move, ...                                           *)
LEMMA MovedGoesOn ==
  ASSUME LedgerOrdered, LedgerOrdered', NEW f, Legal(f), Moved(f)
  PROVE  GoesOn(DOMAIN f)
<1>1. \A s \in DOMAIN ing.mem : ing.mem[s].st = "dead" => ing.disk[s].st = "dead"
  BY DEF LedgerOrdered, Ahead, CanTransition, Terminal
<1>2. \A s \in DOMAIN f : ing.mem[s].st = "dead" => f[s] = "dead"
  BY DEF Legal, Ahead, CanTransition, Terminal
<1>3. DOMAIN ing.mem \subseteq DOMAIN ing.disk
  BY LedgerFacts
<1>4. ing.blocked => ing'.blocked
  BY DEF Moved
<1>5. \A s \in DOMAIN ing.mem : Ahead(ing.mem[s].st, ing'.mem[s].st)
  BY DEF Moved, Legal, Ahead
<1> QED BY <1>1, <1>2, <1>3, <1>4, <1>5 DEF GoesOn, Moved

(* ... and when one arrives.                                                  *)
LEMMA ArrivalGoesOn ==
  ASSUME LedgerOrdered, LedgerOrdered', ~ing.blocked, NEW m, NEW way, Extended(m, way)
  PROVE  GoesOn({})
<1>1. \A s \in DOMAIN ing.mem : ing.mem[s].st = "dead" => ing.disk[s].st = "dead"
  BY DEF LedgerOrdered, Ahead, CanTransition, Terminal
<1>2. DOMAIN ing.mem = DOMAIN ing.disk
  BY DEF LedgerOrdered
<1> QED BY <1>1, <1>2 DEF GoesOn, Extended, Ahead

(* What was acknowledged stays on the books.                                  *)
LEMMA AckStays ==
  ASSUME IInv, NEW S, GoesOn(S), acked' = acked
  PROVE  AckedIsKept'
BY DEF IInv, AckedIsKept, GoesOn

(* The sids that wait, or are in flight, are numbers of messages.             *)
LEMMA PlacesFacts ==
  ASSUME IInv
  PROVE  /\ Queued \subseteq DOMAIN ing.mem
         /\ InFlight \subseteq DOMAIN ing.mem
         /\ DOMAIN ing.mem \subseteq Sids
         /\ InFlight = Hired \cup ({turn.sid} \ {0}) /\ Unbegun \subseteq Queued \cup InFlight
         /\ turn.at # "idle" => turn.sid \in InFlight
         /\ 0 \notin Sids /\ Sids \subseteq Nat
<1>1. InFlight = Hired \cup ({turn.sid} \ {0})
  BY DEF InFlight, Hired, Elems
<1>2. turn.at # "idle" => turn.sid # 0
  BY DEF IInv, ThreadsType
<1> QED BY <1>1, <1>2, LedgerFacts DEF IInv, OnePlace, Unbegun

(* Nobody changes place.                                                      *)
LEMMA PlacesStay ==
  ASSUME IInv, NEW S, GoesOn(S), inbox' = inbox, pump'.jobs = pump.jobs,
         turn'.sid \in {turn.sid, 0},
         pump'.view # {} => pump'.view \subseteq DOMAIN ing.mem /\ pump'.ctl = "open" /\ pump'.phase = "sweep"
  PROVE  /\ OnePlace'
         /\ Queued' = Queued /\ Hired' = Hired /\ InFlight' \subseteq InFlight
<1>1. Queued' = Queued /\ Hired' = Hired
  BY DEF Queued, Hired
<1>2. InFlight' \subseteq InFlight
  BY DEF InFlight
<1>3. turn'.sid \notin Hired
  BY PlacesFacts DEF IInv, OnePlace
<1>4. /\ DOMAIN ing.mem \subseteq DOMAIN ing'.mem
      /\ \A s \in DOMAIN ing.mem : ing'.mem[s].msg = ing.mem[s].msg
  BY DEF GoesOn
<1>5. ASSUME NEW c \in Convs
      PROVE  Once(inbox'[c]) /\ \A s \in Elems(inbox'[c]) : Conv[ing'.mem[s].msg] = c
  BY <1>4, <1>5 DEF IInv, OnePlace, Queued
<1> QED BY <1>1, <1>2, <1>3, <1>4, <1>5 DEF IInv, OnePlace

(* Messages that change state are where their new state belongs.              *)
LEMMA StagesStay ==
  ASSUME IInv, NEW S, GoesOn(S), Queued' \subseteq Queued, InFlight' \subseteq InFlight,
         pump'.view \subseteq pump.view \cup Running,
         S \cap Queued' = {},
         \A s \in S \cap InFlight' : ing'.disk[s].st \notin Replied,
         \A s \in pump'.view : s \in S \/ s \notin pump.view =>
           ing'.disk[s].st \notin {"delivered", "undelivered"},
         turn'.at = "dead" => turn'.sid \in DOMAIN ing.mem /\ ing'.mem[turn'.sid].st = "dead"
  PROVE  StagesRight'
<1>1. /\ Queued \subseteq DOMAIN ing.mem
      /\ InFlight \subseteq DOMAIN ing.mem
      /\ pump.view \subseteq DOMAIN ing.mem
  BY DEF IInv, OnePlace
<1>2. \A s \in Queued' : /\ {ing'.mem[s].st, ing'.disk[s].st} \subseteq {"durable", "authorized",
                                                                         "routed", "queued"}
                         /\ s \notin pump'.view
  BY <1>1 DEF IInv, StagesRight, GoesOn, Running
<1>3. \A s \in pump'.view : ing'.disk[s].st \notin {"delivered", "undelivered"}
  BY <1>1 DEF IInv, StagesRight, GoesOn
<1> QED BY <1>1, <1>2, <1>3 DEF IInv, StagesRight, GoesOn

(* Nobody begins.                                                             *)
LEMMA RunsStay ==
  ASSUME IInv, NEW S, GoesOn(S), runs' = runs, bound' = bound, Unbegun' \subseteq Unbegun
  PROVE  RunsRight'
<1>1. Unbegun \subseteq DOMAIN ing.mem
  BY PlacesFacts
<1> QED BY <1>1 DEF IInv, RunsRight, GoesOn

(* Nothing is bound.                                                          *)
LEMMA BoundStay ==
  ASSUME IInv, NEW S, GoesOn(S), bound' = bound,
         \A s \in bound.disk \ bound.mem :
           s \in S \/ s = turn.sid => s = turn'.sid \/ ing'.mem[s].st # "running" \/ ing'.blocked
  PROVE  BoundRight'
<1>1. bound.disk \subseteq DOMAIN ing.mem
  BY DEF IInv, BoundRight
<1> QED BY <1>1 DEF IInv, BoundRight, GoesOn

(* Nothing is answered.                                                       *)
LEMMA AnswersStay ==
  ASSUME IInv, NEW S, GoesOn(S), v3' = v3, Unbegun' \subseteq Unbegun,
         turn' = turn \/ turn'.at = "idle"
  PROVE  AnswersRight'
BY DEF IInv, AnswersRight, GoesOn

(* Replies stay whole.                                                        *)
LEMMA RepliesStay ==
  ASSUME IInv, NEW S, GoesOn(S), NEW T, Grown(T), half' = half, turn' = turn \/ turn'.at # "boxed",
         \A s \in S \cap DOMAIN ing.mem : ing'.disk[s].st \in Replied /\ s \notin half =>
           ing.disk[s].st \in Replied \/ Whole(s)
  PROVE  RepliesRight'
<1>1. \A s \in DOMAIN ing.mem : Reply(s)' = Reply(s) /\ Reply(s) \subseteq Pieces
  BY PartsArePieces DEF IInv, GoesOn, Reply
<1>2. \A s \in DOMAIN ing.mem : Whole(s) => Whole(s)'
  BY <1>1 DEF Whole, Grown
<1>3. turn.at = "boxed" => turn.sid \in DOMAIN ing.mem
  BY PlacesFacts
<1>4. \A s \in DOMAIN ing'.mem \ DOMAIN ing.mem : ing'.disk[s].st \notin Replied
  BY DEF GoesOn, Arriving, Fresh, Replied
<1>5. ASSUME NEW s \in DOMAIN ing'.mem, ing'.disk[s].st \in Replied, s \notin half
      PROVE  Whole(s)'
  <2>1. s \in DOMAIN ing.mem
    BY <1>4, <1>5
  <2>2. ing.disk[s].st \in Replied \/ Whole(s)
    BY <1>5, <2>1 DEF GoesOn
  <2> QED BY <1>2, <1>5, <2>1, <2>2 DEF IInv, RepliesRight
<1>6. (turn.at = "boxed" /\ turn.sid \notin half => Whole(turn.sid))'
  BY <1>2, <1>3 DEF IInv, RepliesRight
<1> QED BY <1>5, <1>6 DEF IInv, RepliesRight

(* What the box has of a message was there, or was entered now.               *)
LEMMA NothingNew ==
  ASSUME NEW T, Grown(T), NEW s \in Sids
  PROVE  /\ HasReply(s)' => HasReply(s) \/ \E p \in T : p \in {s} \X (1..MostParts)
         /\ HasNotice(s)' => HasNotice(s) \/ <<s, 0>> \in T
BY SidPieces DEF Grown, HasReply, HasNotice, InBox

(* Nothing new is entered.                                                    *)
LEMMA NoneNew ==
  ASSUME Grown({})
  PROVE  \A s \in Sids : (HasReply(s)' => HasReply(s)) /\ (HasNotice(s)' => HasNotice(s))
BY SidPieces DEF Grown, HasReply, HasNotice, InBox

(* No verdict is told.                                                        *)
LEMMA VerdictsStay ==
  ASSUME IInv, NEW S, GoesOn(S), Grown({}), raced' \subseteq Sids,
         \A s \in Sids : v3[s] = "selected" => v3'[s] = "selected",
         Queued' \subseteq Queued, InFlight' \subseteq InFlight
  PROVE  VerdictsRight'
<1>1. \A s \in Sids : (HasReply(s)' => HasReply(s)) /\ (HasNotice(s)' => HasNotice(s))
  BY NoneNew
<1> QED BY <1>1 DEF IInv, VerdictsRight, GoesOn

(* Who has one verdict keeps it.                                              *)
LEMMA OneVerdictStays ==
  ASSUME IInv, Grown({}), bound'.disk = bound.disk, raced \subseteq raced'
  PROVE  OneVerdict'
<1>1. bound.disk \subseteq Sids
  BY LedgerFacts DEF IInv, BoundRight
<1>2. \A s \in Sids : (HasReply(s)' => HasReply(s)) /\ (HasNotice(s)' => HasNotice(s))
  BY NoneNew
<1> QED BY <1>1, <1>2 DEF IInv, OneVerdict

(* What was delivered stays whole.                                            *)
LEMMA DeliveredStays ==
  ASSUME IInv, NEW S, GoesOn(S), NEW T, Grown(T), half' = half,
         \A s \in S \cap DOMAIN ing.mem : ing'.disk[s].st = "delivered" /\ s \notin half =>
           \/ ing.disk[s].st = "delivered"
           \/ \A p \in {s} \X (1..Parts[ing.disk[s].msg]) : box.disk[p].st = "sent"
  PROVE  DeliveredIsWhole'
<1> SUFFICES ASSUME NEW s \in DOMAIN ing'.disk, ing'.disk[s].st = "delivered", s \notin half
             PROVE  \A p \in {s} \X (1..Parts[ing'.disk[s].msg]) : box'.disk[p].st = "sent"
  BY DEF DeliveredIsWhole
<1>1. s \in DOMAIN ing.mem
  BY DEF GoesOn, LedgerOrdered, Arriving, Fresh
<1>2. /\ s \in DOMAIN ing.disk
      /\ ing'.disk[s].msg = ing.disk[s].msg
      /\ ing.disk[s].msg = ing.mem[s].msg
  BY <1>1, LedgerFacts DEF GoesOn, IInv, LedgerOrdered
<1>3. \A p \in {s} \X (1..Parts[ing.disk[s].msg]) : p \in Pieces
  BY <1>1, <1>2, PartsArePieces DEF IInv
<1>4. ing.disk[s].st = "delivered" \/ \A p \in {s} \X (1..Parts[ing.disk[s].msg]) :
        box.disk[p].st = "sent"
  BY <1>1 DEF GoesOn
<1>5. \A p \in {s} \X (1..Parts[ing.disk[s].msg]) : box.disk[p].st = "sent"
  BY <1>2, <1>4 DEF IInv, DeliveredIsWhole
<1> QED BY <1>2, <1>3, <1>5 DEF Grown

(* The places and what they promise after a step that changes states of S and *)
(* leaves everyone in place, but that it may end the turn.                    *)
LEMMA PlacesFrame ==
  ASSUME IInv, NEW S, GoesOn(S), UNCHANGED <<inbox, bound, runs>>, pump'.jobs = pump.jobs,
         turn' = turn \/ turn' = Idle,
         pump'.view \subseteq pump.view \cup Running, pump'.view # {} =>
           pump'.ctl = "open" /\ pump'.phase = "sweep",
         S \cap Queued = {}, \A s \in S : ing'.mem[s].st # "running" \/ ing'.blocked,
         turn' = Idle => \A s \in bound.disk \ bound.mem :
                           s = turn.sid => ing'.mem[s].st # "running" \/ ing'.blocked,
         \A s \in S \cap InFlight' : ing'.disk[s].st \notin Replied,
         \A s \in pump'.view : s \in S \/ s \notin pump.view =>
           ing'.disk[s].st \notin {"delivered", "undelivered"}
  PROVE  /\ OnePlace' /\ StagesRight' /\ RunsRight' /\ BoundRight'
         /\ Queued' = Queued
         /\ Hired' = Hired
         /\ InFlight' \subseteq InFlight
         /\ Unbegun' \subseteq Unbegun
<1>1. turn'.sid \in {turn.sid, 0}
  BY DEF Idle
<1>2. pump'.view \subseteq DOMAIN ing.mem
  BY DEF IInv, OnePlace, Running
<1>3. OnePlace' /\ Queued' = Queued /\ Hired' = Hired /\ InFlight' \subseteq InFlight
  BY <1>1, <1>2, PlacesStay
<1>4. Unbegun' \subseteq Unbegun
  BY <1>1, <1>3 DEF Unbegun, Idle
<1>5. StagesRight'
  <2>1. turn'.at = "dead" => turn'.sid \in DOMAIN ing.mem /\ ing'.mem[turn'.sid].st = "dead"
    <3>1. turn'.at = "dead" => turn' = turn
      BY DEF Idle
    <3>2. turn.at = "dead" => turn.sid \in DOMAIN ing.mem /\ ing.mem[turn.sid].st = "dead"
      BY PlacesFacts DEF IInv, StagesRight
    <3> QED BY <3>1, <3>2 DEF GoesOn
  <2> QED BY <1>3, <2>1, StagesStay
<1>6. RunsRight'
  BY <1>4, RunsStay
<1>7. BoundRight'
  BY BoundStay
<1> QED BY <1>3, <1>4, <1>5, <1>6, <1>7

(* A step that changes states of S, and otherwise the box, the bridge, the    *)
(* tick, or ends the turn.                                                    *)
LEMMA TickFrame ==
  ASSUME IInv, NEW S, GoesOn(S), Grown({}), BoxOrdered', ShownRight', ThreadsType', AckedIsKept',
         UNCHANGED <<inbox, bound, v3, runs, half>>, pump'.jobs = pump.jobs,
         turn' = turn \/ turn' = Idle,
         raced \subseteq raced', raced' \subseteq Sids,
         pump'.view \subseteq pump.view \cup Running, pump'.view # {} =>
           pump'.ctl = "open" /\ pump'.phase = "sweep",
         S \cap Queued = {}, \A s \in S : ing'.mem[s].st # "running" \/ ing'.blocked,
         turn' = Idle => \A s \in bound.disk \ bound.mem :
                           s = turn.sid => ing'.mem[s].st # "running" \/ ing'.blocked,
         \A s \in S \cap InFlight' : ing'.disk[s].st \notin Replied,
         \A s \in pump'.view : s \in S \/ s \notin pump.view =>
           ing'.disk[s].st \notin {"delivered", "undelivered"},
         \A s \in S \cap DOMAIN ing.mem : ing'.disk[s].st \in Replied /\ s \notin half =>
           ing.disk[s].st \in Replied \/ Whole(s),
         \A s \in S \cap DOMAIN ing.mem : ing'.disk[s].st = "delivered" /\ s \notin half =>
           \/ ing.disk[s].st = "delivered"
           \/ \A p \in {s} \X (1..Parts[ing.disk[s].msg]) : box.disk[p].st = "sent"
  PROVE  IInv'
<1>1. LedgerOrdered'
  BY DEF GoesOn
<1>2. turn' = turn \/ turn'.at = "idle"
  BY DEF Idle
<1>3. /\ OnePlace' /\ StagesRight' /\ RunsRight' /\ BoundRight'
      /\ Queued' = Queued /\ InFlight' \subseteq InFlight /\ Unbegun' \subseteq Unbegun
  BY PlacesFrame
<1>4. AnswersRight'
  BY <1>2, <1>3, AnswersStay
<1>5. RepliesRight'
  BY <1>2, RepliesStay
<1>6. VerdictsRight' /\ OneVerdict'
  BY <1>3, VerdictsStay, OneVerdictStays
<1>7. DeliveredIsWhole'
  BY DeliveredStays
<1> QED BY <1>1, <1>3, <1>4, <1>5, <1>6, <1>7 DEF IInv

(* A step of the tick that moves no message.                                  *)
LEMMA QuietStep ==
  ASSUME IInv, GoesOn({}), Grown({}), BoxOrdered', ShownRight', ThreadsType', AckedIsKept',
         UNCHANGED <<inbox, turn, bound, v3, runs, half, raced>>, pump'.jobs = pump.jobs,
         pump'.view \subseteq pump.view, pump'.view # {} =>
           pump'.ctl = "open" /\ pump'.phase = "sweep"
  PROVE  IInv'
<1>1. raced \subseteq Sids
  BY DEF IInv, VerdictsRight
<1>2. turn' = Idle => \A s \in bound.disk \ bound.mem :
                           s = turn.sid => ing'.mem[s].st # "running" \/ ing'.blocked
  <2>1. turn' = Idle => turn.sid = 0
    BY DEF Idle
  <2>2. 0 \notin bound.disk
    BY LedgerFacts DEF IInv, BoundRight
  <2> QED BY <2>1, <2>2
<1> QED BY <1>1, <1>2, TickFrame

-----------------------------------------------------------------------------
(* The bridge and the platform.                                               *)

(* The platform shows a request under the number of its piece, if it does not *)
(* take it for a copy; it takes none for the copy of another piece.           *)
LEMMA ShowsRight ==
  ASSUME BoxOrdered, ShownRight, NEW p \in Pieces, flying[p] # "no"
  PROVE  /\ Shows(p, Item(p).seat) \subseteq {<<p, box.disk[p].seat>>}
         /\ <<p, box.disk[p].seat>> \in taken \cup Shows(p, Item(p).seat)
         /\ box.disk[p].seat # 0 /\ box.disk[p].seat \in Nat
<1>1. Item(p).seat = box.disk[p].seat /\ box.disk[p].seat # 0 /\ box.disk[p].seat \in Nat
  BY BoxFacts DEF ShownRight, Item, BoxItem
<1>2. ASSUME NEW q \in Pieces, q[1] = p[1], <<q, Item(p).seat>> \in taken
      PROVE  q = p
  <2>1. Item(p).seat = box.disk[q].seat
    BY <1>2 DEF ShownRight
  <2> QED BY <1>1, <1>2, <2>1 DEF BoxOrdered
<1> QED BY <1>1, <1>2 DEF Shows

(* An answer of the platform, or its absence, ends a request.                 *)
LEMMA AnswerStep ==
  ASSUME BoxOrdered, ShownRight, NEW p \in Pieces, flying[p] # "no",
         box' = box \/ \E st \in Final : box' \in Mark(p, st) /\ (st = "sent" =>
                                                                  flying[p] = "taken"),
         flying' = [flying EXCEPT ![p] = "no"],
         taken' = taken \/ taken' = taken \cup Shows(p, Item(p).seat)
  PROVE  BoxOrdered' /\ Grown({}) /\ ShownRight'
<1>1. Item(p).st # "none" /\ flying \in [Pieces -> {"no", "out", "taken"}]
  BY DEF ShownRight, Item
<1>2. /\ BoxOrdered' /\ Grown({})
      /\ \A q \in Pieces : /\ q # p => box'.disk[q] = box.disk[q] /\ box'.mem[q] = box.mem[q]
                           /\ box'.disk[q].seat = box.disk[q].seat
                           /\ box'.disk[q].st = "sent" /\ box.disk[q].st # "sent" =>
                                q = p /\ flying[p] = "taken"
  <2>1. CASE box' = box
    BY <2>1 DEF BoxOrdered, Grown
  <2>2. CASE \E st \in Final : box' \in Mark(p, st) /\ (st = "sent" => flying[p] = "taken")
    <3>1. PICK st \in Final : box' \in Mark(p, st) /\ (st = "sent" => flying[p] = "taken")
      BY <2>2
    <3>2. /\ BoxOrdered' /\ Grown({})
          /\ \A q \in Pieces : /\ q # p => box'.disk[q] = box.disk[q] /\ box'.mem[q] = box.mem[q]
                               /\ box'.disk[q].seat = box.disk[q].seat
                               /\ box'.disk[q].st # box.disk[q].st => q = p /\ box'.disk[q].st = st
      BY <1>1, <3>1, MarkStep
    <3> QED BY <3>1, <3>2
  <2> QED BY <2>1, <2>2
<1>3. /\ Shows(p, Item(p).seat) \subseteq {<<p, box.disk[p].seat>>}
      /\ box.disk[p].seat # 0 /\ box.disk[p].seat \in Nat
  BY ShowsRight
<1>4. taken \subseteq taken' /\ taken' \subseteq taken \cup {<<p, box.disk[p].seat>>}
  BY <1>3
<1>5. flying' \in [Pieces -> {"no", "out", "taken"}] /\ flying'[p] = "no" /\ \A q \in Pieces :
        q # p => flying'[q] = flying[q]
  BY <1>1
<1>6. taken' \subseteq Pieces \X Nat
  BY <1>3, <1>4 DEF ShownRight
<1>7. \A q \in Pieces : flying'[q] # "no" =>
        box'.mem[q].st = "sending" /\ box'.mem[q].seat = box'.disk[q].seat /\ box'.disk[q].seat # 0
  BY <1>2, <1>5 DEF ShownRight
<1>8. \A q \in Pieces : flying'[q] = "taken" \/ box'.disk[q].st = "sent" =>
        <<q, box'.disk[q].seat>> \in taken'
  BY <1>2, <1>4, <1>5 DEF ShownRight
<1>9. \A t \in taken' : t[2] = box'.disk[t[1]].seat /\ t[2] # 0
  BY <1>2, <1>3, <1>4 DEF ShownRight
<1> QED BY <1>2, <1>5, <1>6, <1>7, <1>8, <1>9 DEF ShownRight

(* What is known of the bridge and the platform holds on when nothing under   *)
(* way or shown is touched, and nothing is called sent.                       *)
LEMMA BridgeStays ==
  ASSUME BoxOrdered, ShownRight, UNCHANGED platform,
         \A q \in Pieces : /\ flying[q] # "no" =>
                                box'.mem[q] = box.mem[q] /\ box'.disk[q] = box.disk[q]
                           /\ box.disk[q].seat # 0 => box'.disk[q].seat = box.disk[q].seat
                           /\ box'.disk[q].st = "sent" => box.disk[q].st = "sent"
  PROVE  ShownRight'
<1>1. flying' = flying /\ taken' = taken
  BY DEF platform
<1>2. \A t \in taken : t[1] \in Pieces /\ box.disk[t[1]].seat # 0
  BY DEF ShownRight
<1>3. \A q \in Pieces : box.disk[q].st = "sent" => box.disk[q].seat # 0
  <2>1. ASSUME NEW q \in Pieces, box.disk[q].st = "sent" PROVE box.disk[q].seat # 0
    <3>1. <<q, box.disk[q].seat>> \in taken
      BY <2>1 DEF ShownRight
    <3>2. <<q, box.disk[q].seat>>[2] # 0
      BY <3>1 DEF ShownRight
    <3> QED BY <3>2
  <2> QED BY <2>1
<1>4. \A q \in Pieces : flying'[q] # "no" =>
        box'.mem[q].st = "sending" /\ box'.mem[q].seat = box'.disk[q].seat /\ box'.disk[q].seat # 0
  BY <1>1 DEF ShownRight
<1>5. \A q \in Pieces : flying'[q] = "taken" \/ box'.disk[q].st = "sent" =>
        <<q, box'.disk[q].seat>> \in taken'
  BY <1>1, <1>3 DEF ShownRight
<1>6. \A t \in taken' : t[2] = box'.disk[t[1]].seat /\ t[2] # 0
  BY <1>1, <1>2 DEF ShownRight
<1>7. flying' \in [Pieces -> {"no", "out", "taken"}] /\ taken' \subseteq Pieces \X Nat
  BY <1>1 DEF ShownRight
<1> QED BY <1>4, <1>5, <1>6, <1>7 DEF ShownRight

(* A piece that is open is not on the bridge.                                 *)
LEMMA OpenIsHere ==
  ASSUME BoxOrdered, ShownRight, NEW p \in Pieces, Open(p)
  PROVE  flying[p] = "no" /\ Item(p).st \in {"pending", "sending"}
BY DEF Open, ShownRight, Item

(* The box after a number or an attempt was written.                          *)
LEMMA SeatedRight ==
  ASSUME BoxOrdered, NEW p \in Pieces, Item(p).st \in {"pending", "sending"}
  PROVE  /\ Item(p) \in BoxItem /\ Seated(p) \in BoxItem /\ Attempted(p) \in BoxItem
         /\ Seated(p).st = Item(p).st /\ Attempted(p).st = "sending"
         /\ Seated(p).seat = Attempted(p).seat /\ Seated(p).seat # 0
         /\ Item(p).seat # 0 => Seated(p).seat = Item(p).seat
         /\ Item(p).seat = 0 => \A q \in Pieces : q[1] = p[1] => Item(q).seat # Seated(p).seat
<1>1. Item(p) \in BoxItem
  BY BoxFacts DEF Item
<1>2. /\ NextSeat(p[1]) \in Nat \ {0}
      /\ \A q \in Pieces : q[1] = p[1] => Item(q).seat # NextSeat(p[1])
  <2>1. \A q \in Pieces : Item(q).seat \in Nat
    BY BoxFacts DEF Item, BoxItem
  <2> QED BY <2>1, SeatIsNew
<1>3. /\ Seated(p) \in BoxItem /\ Seated(p).st = Item(p).st
      /\ Seated(p).seat = IF Item(p).seat # 0 THEN Item(p).seat ELSE NextSeat(p[1])
  BY <1>1, <1>2 DEF Seated, BoxItem
<1>4. Attempted(p) \in BoxItem /\ Attempted(p).st = "sending" /\ Attempted(p).seat = Seated(p).seat
  <2>1. PICK x \in BoxItem : x = Seated(p)
    BY <1>3
  <2>2. [x EXCEPT !.st = "sending", !.tries = @ + 1] \in BoxItem
    <3>1. x.tries + 1 \in Nat
      BY DEF BoxItem
    <3>2. PICK n \in Nat : n = x.tries + 1
      BY <3>1
    <3>0. [x EXCEPT !.st = "sending"] \in BoxItem /\ [x EXCEPT !.st = "sending"].tries = x.tries
      BY DEF BoxItem
    <3>3. PICK y \in BoxItem : y = [x EXCEPT !.st = "sending"] /\ y.tries = x.tries
      BY <3>0
    <3>4. [y EXCEPT !.tries = n] \in BoxItem
      BY DEF BoxItem
    <3>5. [x EXCEPT !.st = "sending", !.tries = n] = [y EXCEPT !.tries = n]
      BY <3>3 DEF BoxItem
    <3> QED BY <3>2, <3>4, <3>5
  <2>3. Attempted(p) = [x EXCEPT !.st = "sending", !.tries = @ + 1]
    BY <2>1 DEF Attempted
  <2>4. Attempted(p).st = "sending" /\ Attempted(p).seat = x.seat
    BY <2>3 DEF BoxItem
  <2> QED BY <2>1, <2>2, <2>3, <2>4
<1> QED BY <1>1, <1>2, <1>3, <1>4

(* A segment is sent, and reaches the bridge or not.                          *)
LEMMA SendStep ==
  ASSUME BoxOrdered, ShownRight, NEW p \in Pieces, Send(p)
  PROVE  BoxOrdered' /\ Grown({}) /\ ShownRight'
<1>1. flying[p] = "no" /\ Item(p).st \in {"pending", "sending"} /\ ~box.broken
  BY OpenIsHere DEF Send
<1>2. Item(p) = box.mem[p] /\ Item(p) = box.disk[p] /\ box.disk = box.mem
  BY <1>1, BoxFacts DEF Item
<1>3. /\ box'.disk = [box.disk EXCEPT ![p] = Attempted(p)]
      /\ box'.mem = [box.mem EXCEPT ![p] = Attempted(p)]
      /\ box' = [disk |-> box'.disk, mem |-> box'.mem, broken |-> box'.broken]
      /\ box'.broken = box.broken /\ box'.broken \in BOOLEAN
  BY BoxFacts DEF Send
<1>4. /\ BoxOrdered' /\ Grown({})
      /\ box'.disk[p] = Attempted(p) /\ box'.mem[p] = Attempted(p)
      /\ \A q \in Pieces : q # p => box'.disk[q] = box.disk[q] /\ box'.mem[q] = box.mem[q]
  <2>1. Attempted(p).st # "none"
    BY <1>1, SeatedRight
  <2> QED BY <1>1, <1>3, <2>1, SeatedRight, PutStep
<1>5. \A q \in Pieces : flying'[q] \in {"no", "out", "taken"} /\ (q # p =>
                                                                  flying'[q] = flying[q]) /\ flying'[p] # "taken"
  BY <1>1 DEF Send, ShownRight
<1>6. flying' \in [Pieces -> {"no", "out", "taken"}] /\ taken' = taken
  BY DEF Send, ShownRight
<1>7. box'.mem[p].st = "sending" /\ box'.mem[p].seat = box'.disk[p].seat /\ box'.disk[p].seat # 0
  BY <1>1, <1>4, SeatedRight
<1>8. \A q \in Pieces : flying'[q] # "no" =>
        box'.mem[q].st = "sending" /\ box'.mem[q].seat = box'.disk[q].seat /\ box'.disk[q].seat # 0
  BY <1>4, <1>5, <1>7 DEF ShownRight
<1>9. \A q \in Pieces : flying'[q] = "taken" \/ box'.disk[q].st = "sent" =>
        <<q, box'.disk[q].seat>> \in taken'
  BY <1>4, <1>5, <1>6, <1>7, <1>1, SeatedRight DEF ShownRight
<1>10. \A t \in taken' : t[2] = box'.disk[t[1]].seat /\ t[2] # 0
  <2>1. \A t \in taken : t[1] \in Pieces /\ box.disk[t[1]].seat # 0 /\ t[2] = box.disk[t[1]].seat
    BY DEF ShownRight
  <2> QED BY <1>4, <1>6, <2>1 DEF Grown
<1> QED BY <1>4, <1>6, <1>8, <1>9, <1>10 DEF ShownRight

(* The box breaks with a number or an attempt on disk or not.                 *)
LEMMA SendBreaksStep ==
  ASSUME BoxOrdered, ShownRight, NEW p \in Pieces, SendBreaks(p)
  PROVE  BoxOrdered' /\ Grown({}) /\ ShownRight'
<1>1. flying[p] = "no" /\ Item(p).st \in {"pending", "sending"} /\ ~box.broken
  BY OpenIsHere DEF SendBreaks
<1>2. Item(p) = box.mem[p] /\ Item(p) = box.disk[p] /\ box.disk = box.mem
  BY <1>1, BoxFacts DEF Item
<1>3. PICK d \in {Item(p), Seated(p), Attempted(p)}, m \in {Item(p), Seated(p)} :
        /\ box'.disk = [box.disk EXCEPT ![p] = d] /\ box'.mem = [box.mem EXCEPT ![p] = m]
        /\ box' = [disk |-> box'.disk, mem |-> box'.mem, broken |-> box'.broken]
        /\ box'.broken = TRUE
  <2>0. [box.mem EXCEPT ![p] = Item(p)] = box.mem
    BY <1>2, BoxFacts
  <2>1. CASE /\ Item(p).seat = 0
             /\ \E item \in {Item(p), Seated(p)} : box' = [box EXCEPT !.disk[p] = item, !.broken = TRUE]
    BY <2>0, <2>1, BoxFacts
  <2>2. CASE \E item \in {Seated(p), Attempted(p)} :
               box' = [disk |-> [box.disk EXCEPT ![p] = item],
                       mem |-> [box.mem EXCEPT ![p] = Seated(p)], broken |-> TRUE]
    BY <2>2
  <2> QED BY <2>1, <2>2 DEF SendBreaks
<1>4. /\ BoxOrdered' /\ Grown({})
      /\ box'.disk[p] = d /\ box'.mem[p] = m
      /\ \A q \in Pieces : q # p => box'.disk[q] = box.disk[q] /\ box'.mem[q] = box.mem[q]
  <2>1. /\ d \in BoxItem
        /\ m \in BoxItem
        /\ d.st \in {"pending", "sending"}
        /\ m.st \in {"pending", "sending"}
    BY <1>1, SeatedRight
  <2>2. d.seat = Item(p).seat \/ (Item(p).seat = 0 /\ \A q \in Pieces : q[1] = p[1] =>
                                  Item(q).seat # d.seat)
    BY <1>1, SeatedRight
  <2>3. /\ d.st # "none" /\ m.st # "none" /\ Item(p).st # "sent" /\ Item(p).st # "none"
        /\ box'.broken \in BOOLEAN /\ box'.broken
    BY <1>1, <1>3, <2>1
  <2> HIDE DEF SendBreaks
  <2> QED BY <1>1, <1>3, <2>1, <2>2, <2>3, PutStep
<1>5. \A q \in Pieces : flying[q] # "no" => q # p
  BY <1>1
<1>6. d.st # "sent"
  BY <1>1, SeatedRight
<1>7. UNCHANGED platform
  BY DEF SendBreaks
<1> QED BY <1>4, <1>5, <1>6, <1>7, BridgeStays DEF Grown

(* The steps of the bridge, the platform and the sender keep the invariant.   *)
LEMMA PlatformKeeps ==
  ASSUME IInv, NEW p \in Pieces,
         \/ Accepted(p) \/ RateLimited(p) \/ Rejected(p) \/ Expire(p)
         \/ Exhaust(p) \/ Send(p) \/ SendBreaks(p) \/ Take(p)
  PROVE  IInv'
<1>1. BoxOrdered /\ ShownRight /\ LedgerOrdered /\ ThreadsType /\ AckedIsKept
  BY DEF IInv
<1>2. UNCHANGED <<ing, bound, v3, inbox, turn, runs, half, raced, acked>> /\ pump' \in {pump, Halt}
  BY DEF Accepted, RateLimited, Rejected, Expire, Exhaust, Send, SendBreaks, Take, threads,
     history, books
<1>3. "sent" \in Final /\ "failed" \in Final /\ "unknown" \in Final
  BY DEF Final
<1>4. BoxOrdered' /\ Grown({}) /\ ShownRight'
  <2>1. CASE Accepted(p)
    BY <1>1, <1>3, <2>1, AnswerStep DEF Accepted
  <2>2. CASE RateLimited(p)
    <3>1. box' = box \/ box' \in Mark(p, "failed")
      BY <2>2 DEF RateLimited
    <3> QED BY <1>1, <1>3, <2>2, <3>1, AnswerStep DEF RateLimited
  <2>3. CASE Rejected(p)
    BY <1>1, <1>3, <2>3, AnswerStep DEF Rejected
  <2>4. CASE Expire(p)
    BY <1>1, <1>3, <2>4, AnswerStep DEF Expire
  <2>5. CASE Exhaust(p)
    <3>1. flying[p] = "no" /\ Item(p).st # "none"
      BY <1>1, <2>5, OpenIsHere DEF Exhaust
    <3>2. /\ BoxOrdered' /\ Grown({})
          /\ \A q \in Pieces : /\ q # p => box'.disk[q] = box.disk[q] /\ box'.mem[q] = box.mem[q]
                               /\ box'.disk[q].seat = box.disk[q].seat
                               /\ box'.disk[q].st # box.disk[q].st =>
                                    q = p /\ box'.disk[q].st = "failed"
      BY <1>1, <1>3, <2>5, <3>1, MarkStep DEF Exhaust
    <3>3. UNCHANGED platform
      BY <2>5 DEF Exhaust
    <3> QED BY <1>1, <3>1, <3>2, <3>3, BridgeStays
  <2>6. CASE Send(p) \/ SendBreaks(p)
    BY <1>1, <2>6, SendStep, SendBreaksStep
  <2>7. CASE Take(p)
    <3>1. /\ box' = box
          /\ flying' = [flying EXCEPT ![p] = "taken"]
          /\ taken' = taken \cup Shows(p, Item(p).seat)
          /\ flying[p] # "no"
      BY <2>7 DEF Take, books
    <3>2. /\ Shows(p, Item(p).seat) \subseteq {<<p, box.disk[p].seat>>}
          /\ <<p, box.disk[p].seat>> \in taken'
          /\ box.disk[p].seat # 0 /\ box.disk[p].seat \in Nat
      BY <1>1, <3>1, ShowsRight
    <3>3. \A t \in taken' : t \in taken \/ t = <<p, box.disk[p].seat>>
      BY <3>1, <3>2
    <3>4. BoxOrdered' /\ Grown({})
      BY <1>1, <3>1 DEF BoxOrdered, Grown
    <3>5. /\ flying' \in [Pieces -> {"no", "out", "taken"}] /\ \A q \in Pieces : q # p =>
               flying'[q] = flying[q]
          /\ taken' \subseteq Pieces \X Nat
      BY <1>1, <3>1, <3>2 DEF ShownRight
    <3>6. \A q \in Pieces : flying'[q] # "no" =>
            box'.mem[q].st = "sending" /\ box'.mem[q].seat = box'.disk[q].seat /\ box'.disk[q].seat # 0
      BY <1>1, <3>1, <3>5 DEF ShownRight
    <3>7. \A q \in Pieces : flying'[q] = "taken" \/ box'.disk[q].st = "sent" =>
            <<q, box'.disk[q].seat>> \in taken'
      BY <1>1, <3>1, <3>2, <3>5 DEF ShownRight
    <3>8. \A t \in taken' : t[2] = box'.disk[t[1]].seat /\ t[2] # 0
      BY <1>1, <3>1, <3>2, <3>3 DEF ShownRight
    <3> QED BY <3>4, <3>5, <3>6, <3>7, <3>8 DEF ShownRight
  <2> QED BY <2>1, <2>2, <2>3, <2>4, <2>5, <2>6, <2>7
<1>5. GoesOn({}) /\ AckedIsKept'
  <2>1. /\ ing = [disk |-> ing.disk, mem |-> ing.mem, blocked |-> ing.blocked]
        /\ ing.blocked \in BOOLEAN
    BY <1>1 DEF LedgerOrdered
  <2>2. GoesOn({})
    BY <1>1, <1>2, <2>1, SameGoesOn
  <2> QED BY <1>2, <2>2, AckStays
<1>6. ThreadsType'
  BY <1>1, <1>2 DEF ThreadsType, Halt
<1>7. pump'.jobs = pump.jobs /\ (pump' = pump \/ pump'.view = {})
  BY <1>1, <1>2 DEF ThreadsType, Halt
<1>8. /\ pump'.view \subseteq pump.view
      /\ (pump'.view # {} => pump'.ctl = "open" /\ pump'.phase = "sweep")
  BY <1>7 DEF IInv, OnePlace
<1> QED BY <1>2, <1>4, <1>5, <1>6, <1>7, <1>8, QuietStep

-----------------------------------------------------------------------------
(* The pump's other steps that move no message.                               *)

(* A box and a platform that nobody touches stay right.                       *)
LEMMA BoxStays ==
  ASSUME BoxOrdered, ShownRight, box' = box, UNCHANGED platform
  PROVE  BoxOrdered' /\ ShownRight' /\ \A S : Grown(S)
<1>1. BoxOrdered' /\ \A S : Grown(S)
  BY DEF BoxOrdered, Grown
<1> QED BY <1>1, BridgeStays

(* Nor does the ledger change by itself.                                      *)
LEMMA LedgerStays ==
  ASSUME LedgerOrdered, ing' = ing
  PROVE  GoesOn({})
<1>1. ing = [disk |-> ing.disk, mem |-> ing.mem, blocked |-> ing.blocked] /\ ing.blocked \in BOOLEAN
  BY DEF LedgerOrdered
<1> QED BY <1>1, SameGoesOn

(* Those that only take the pump one step on.                                 *)
LEMMA PumpKeeps ==
  ASSUME IInv, PassOver \/ ClaimNone \/ TickEnds
  PROVE  IInv'
<1>1. LedgerOrdered /\ BoxOrdered /\ ShownRight /\ ThreadsType
  BY DEF IInv
<1>2. UNCHANGED <<ing, bound, v3, box, platform, inbox, turn, runs, half, raced, acked>>
  BY DEF PassOver, ClaimNone, TickEnds, books, history
<1>3. /\ pump' \in [ctl : {"open", "halted", "closing"}, phase : {"pump", "sweep", "drive"},
                    view : SUBSET Nat, jobs : Seq(Nat)]
      /\ pump'.jobs = pump.jobs /\ pump'.view \subseteq pump.view
      /\ pump'.view # {} => pump'.ctl = "open" /\ pump'.phase = "sweep"
  <2>1. CASE PassOver
    BY <1>1, <2>1 DEF PassOver, Swept, Ticking, ThreadsType
  <2>2. CASE ClaimNone
    BY <1>1, <2>2 DEF ClaimNone, To, ThreadsType
  <2>3. CASE TickEnds
    <3>1. pump.view = {}
      BY <2>3 DEF TickEnds, Ticking, IInv, OnePlace
    <3> QED BY <1>1, <2>3, <3>1 DEF TickEnds, To, Halt, ThreadsType
  <2> QED BY <2>1, <2>2, <2>3
<1>4. ThreadsType'
  BY <1>1, <1>2, <1>3 DEF ThreadsType
<1>5. GoesOn({})
  BY <1>1, <1>2, LedgerStays
<1>6. BoxOrdered' /\ ShownRight' /\ Grown({})
  BY <1>1, <1>2, BoxStays
<1>7. AckedIsKept'
  BY <1>2, <1>5, AckStays
<1> QED BY <1>2, <1>3, <1>4, <1>5, <1>6, <1>7, QuietStep

(* A delivery that is known.                                                  *)
LEMMA DuplicateKeeps ==
  ASSUME IInv, NEW m \in Mails, Duplicate(m)
  PROVE  IInv'
<1>1. LedgerOrdered /\ BoxOrdered /\ ShownRight /\ ThreadsType /\ AckedIsKept
  BY DEF IInv
<1>2. UNCHANGED <<bound, v3, box, platform, inbox, pump, turn, runs, half, raced>>
  BY DEF Duplicate, threads, history
<1>3. /\ ing'.disk = ing.disk /\ ing'.mem = ing.mem /\ ing'.blocked \in BOOLEAN
      /\ ing.blocked => ing'.blocked
      /\ ing' = [disk |-> ing'.disk, mem |-> ing'.mem, blocked |-> ing'.blocked]
  BY <1>1 DEF Duplicate, LedgerOrdered
<1>4. GoesOn({})
  BY <1>1, <1>3, SameGoesOn
<1>5. AckedIsKept'
  <2>1. acked' \subseteq acked \cup {m}
    BY DEF Duplicate
  <2>2. \E s \in DOMAIN ing.disk : ing.disk[s].msg = Msg[m]
    BY <1>1, LedgerFacts DEF Duplicate, Known, LedgerOrdered
  <2> QED BY <1>1, <1>3, <2>1, <2>2 DEF AckedIsKept
<1>6. BoxOrdered' /\ ShownRight' /\ Grown({})
  BY <1>1, <1>2, BoxStays
<1>7. ThreadsType' /\ (pump'.view # {} => pump'.ctl = "open" /\ pump'.phase = "sweep")
  BY <1>1, <1>2 DEF ThreadsType, IInv, OnePlace
<1> QED BY <1>2, <1>4, <1>5, <1>6, <1>7, QuietStep

-----------------------------------------------------------------------------
(* Arrivals.                                                                  *)

(* What an arrival leaves alone.                                              *)
LEMMA InboundFacts ==
  ASSUME IInv, NEW m \in Mails, Inbound(m)
  PROVE  /\ UNCHANGED <<bound, v3, box, platform, pump, turn, runs, half, raced>>
         /\ GoesOn({}) /\ NextSid \notin DOMAIN ing.disk /\ NextSid \notin DOMAIN ing.mem
         /\ NextSid \in DOMAIN ing'.mem => NextSid \in Sids
         /\ runs[Msg[m]] = 0
         /\ \/ inbox' = inbox
            \/ /\ inbox' = [inbox EXCEPT ![Conv[Msg[m]]] = Append(@, NextSid)]
               /\ NextSid \in DOMAIN ing'.mem /\ ing'.mem[NextSid].msg = Msg[m]
               /\ {ing'.mem[NextSid].st, ing'.disk[NextSid].st} \subseteq Fresh
         /\ acked' = acked \/ (acked' = acked \cup {m} /\ NextSid \in DOMAIN ing'.disk /\ ing'.disk[NextSid].msg = Msg[m])
<1>1. LedgerOrdered /\ ~ing.blocked /\ ~Known(m)
  BY DEF IInv, Inbound
<1>2. PICK way \in Ways :
        /\ ing' \in Ingested(m, way)
        /\ inbox' = IF Recorded /\ way[Len(way)] = "queued" THEN [inbox EXCEPT ![Conv[Msg[m]]] = Append(@, Len(ing'.mem))] ELSE inbox
  BY DEF Inbound
<1>3. LedgerOrdered' /\ Extended(m, way)
  BY <1>1, <1>2, IngestedStep
<1>4. GoesOn({})
  BY <1>1, <1>3, ArrivalGoesOn
<1>5. ing.disk = ing.mem
  BY <1>1 DEF LedgerOrdered
<1>6. NextSid \notin DOMAIN ing.disk /\ NextSid \notin DOMAIN ing.mem
  BY <1>3, <1>5 DEF Extended
<1>7. runs[Msg[m]] = 0
  <2>1. Msg[m] \in Msgs /\ \A s \in DOMAIN ing.disk : ing.disk[s].msg # Msg[m]
    BY <1>1, <1>5 DEF Known, Msgs
  <2> QED BY <2>1 DEF IInv, RunsRight
<1>8. NextSid \in DOMAIN ing'.mem => ing'.mem[NextSid].msg = Msg[m]
  BY <1>3 DEF Extended, LedgerOrdered
<1>9. UNCHANGED <<bound, v3, box, platform, pump, turn, runs, half, raced>>
  BY DEF Inbound, history
<1>10. \/ inbox' = inbox
       \/ /\ inbox' = [inbox EXCEPT ![Conv[Msg[m]]] = Append(@, NextSid)]
          /\ NextSid \in DOMAIN ing'.mem /\ ing'.mem[NextSid].msg = Msg[m]
          /\ {ing'.mem[NextSid].st, ing'.disk[NextSid].st} \subseteq Fresh
  BY <1>2, <1>3, <1>8 DEF Extended
<1>11. acked' = acked \/ (acked' = acked \cup {m} /\ NextSid \in DOMAIN ing'.disk /\ ing'.disk[NextSid].msg = Msg[m])
  BY <1>3 DEF Inbound, Extended
<1>12. NextSid \in DOMAIN ing'.mem => NextSid \in Sids
  <2>1. DOMAIN ing'.disk \subseteq Sids
    BY <1>3, EnoughSids DEF LedgerOrdered
  <2> QED BY <1>3, <2>1 DEF Extended
<1> QED BY <1>4, <1>6, <1>7, <1>9, <1>10, <1>11, <1>12

(* Who arrives waits at the end of the line of the conversation, if anywhere. *)
LEMMA InboundPlaces ==
  ASSUME IInv, NEW m \in Mails, Inbound(m)
  PROVE  /\ OnePlace' /\ ThreadsType'
         /\ Hired' = Hired /\ InFlight' = InFlight
         /\ \A s \in Queued' : s \in Queued \/ (inbox' # inbox /\ s = NextSid)
<1> DEFINE c == Conv[Msg[m]]
<1>1. UNCHANGED <<pump, turn>> /\ Hired' = Hired /\ InFlight' = InFlight
  BY InboundFacts DEF Hired, InFlight
<1>2. /\ DOMAIN ing.mem \subseteq DOMAIN ing'.mem
      /\ \A s \in DOMAIN ing.mem : ing'.mem[s].msg = ing.mem[s].msg
  BY InboundFacts DEF GoesOn
<1>3. inbox \in [Convs -> Seq(Nat)] /\ ThreadsType /\ OnePlace
  BY DEF IInv, ThreadsType
<1>4. NextSid \in Nat /\ NextSid \notin DOMAIN ing.mem
  BY LedgerFacts, InboundFacts DEF NextSid, IInv
<1>5. CASE inbox' = inbox
  <2>1. Queued' = Queued
    BY <1>5 DEF Queued
  <2>2. \A d \in Convs : Once(inbox'[d]) /\ \A s \in Elems(inbox'[d]) : Conv[ing'.mem[s].msg] = d
    BY <1>2, <1>3, <1>5 DEF OnePlace, Queued
  <2> QED BY <1>1, <1>2, <1>3, <1>5, <2>1, <2>2 DEF OnePlace, ThreadsType
<1>6. CASE inbox' # inbox
  <2>1. /\ inbox' = [inbox EXCEPT ![c] = Append(@, NextSid)]
        /\ NextSid \in DOMAIN ing'.mem /\ ing'.mem[NextSid].msg = Msg[m]
    BY <1>6, InboundFacts
  <2>2. c \in Convs /\ inbox[c] \in Seq(Nat)
    BY <1>3 DEF Convs, Msgs
  <2>3. Once(inbox[c]) /\ NextSid \notin Elems(inbox[c])
    BY <1>3, <1>4, <2>2 DEF OnePlace, Queued
  <2>4. /\ inbox'[c] \in Seq(Nat)
        /\ Once(inbox'[c])
        /\ Elems(inbox'[c]) = Elems(inbox[c]) \cup {NextSid}
        /\ \A d \in Convs : d # c => inbox'[d] = inbox[d]
        /\ inbox' \in [Convs -> Seq(Nat)]
    <3>1. PICK q \in Seq(Nat) : q = Append(inbox[c],
                                           NextSid) /\ Once(q) /\ Elems(q) = Elems(inbox[c]) \cup {NextSid}
      BY <1>4, <2>2, <2>3, OneJoins
    <3> QED BY <1>3, <2>1, <2>2, <3>1
  <2>5. Queued' = Queued \cup {NextSid}
    BY <2>2, <2>4 DEF Queued
  <2>6. ASSUME NEW d \in Convs
        PROVE  Once(inbox'[d]) /\ \A s \in Elems(inbox'[d]) : Conv[ing'.mem[s].msg] = d
    <3>1. Elems(inbox[d]) \subseteq DOMAIN ing.mem
      BY <1>3 DEF OnePlace, Queued
    <3>2. Once(inbox[d]) /\ \A s \in Elems(inbox[d]) : Conv[ing'.mem[s].msg] = d
      BY <1>2, <1>3, <3>1 DEF OnePlace
    <3>3. CASE d = c
      BY <2>1, <2>4, <3>2, <3>3
    <3>4. CASE d # c
      BY <2>4, <3>2, <3>4
    <3> QED BY <3>3, <3>4
  <2>7. OnePlace'
    BY <1>1, <1>2, <1>3, <1>4, <2>1, <2>5, <2>6 DEF OnePlace
  <2> QED BY <1>1, <1>3, <1>6, <2>4, <2>5, <2>7 DEF ThreadsType
<1> QED BY <1>5, <1>6

(* An arrival keeps the invariant.                                            *)
LEMMA InboundKeeps ==
  ASSUME IInv, NEW m \in Mails, Inbound(m)
  PROVE  IInv'
<1>1. /\ UNCHANGED <<bound, v3, box, platform, pump, turn, runs, half, raced>>
      /\ GoesOn({}) /\ NextSid \notin DOMAIN ing.disk /\ NextSid \notin DOMAIN ing.mem
      /\ runs[Msg[m]] = 0
      /\ OnePlace' /\ ThreadsType' /\ Hired' = Hired /\ InFlight' = InFlight
      /\ \A s \in Queued' : s \in Queued \/ (inbox' # inbox /\ s = NextSid)
  BY InboundFacts, InboundPlaces
<1>2. inbox' # inbox => /\ NextSid \in DOMAIN ing'.mem /\ ing'.mem[NextSid].msg = Msg[m]
                        /\ {ing'.mem[NextSid].st, ing'.disk[NextSid].st} \subseteq Fresh
  BY InboundFacts
<1>3. LedgerOrdered /\ BoxOrdered /\ ShownRight /\ LedgerOrdered'
  BY <1>1 DEF IInv, GoesOn
<1>4. BoxOrdered' /\ ShownRight' /\ Grown({})
  BY <1>1, <1>3, BoxStays
<1>5. /\ Queued \subseteq DOMAIN ing.mem
      /\ InFlight \subseteq DOMAIN ing.mem
      /\ pump.view \subseteq DOMAIN ing.mem
      /\ bound.disk \subseteq DOMAIN ing.mem
  BY DEF IInv, OnePlace, BoundRight
<1>6. \A s \in Unbegun' : s \in Unbegun \/ (inbox' # inbox /\ s = NextSid)
  BY <1>1 DEF Unbegun
<1>7. StagesRight'
  <2>1. \A s \in Queued' : /\ {ing'.mem[s].st, ing'.disk[s].st} \subseteq {"durable", "authorized",
                                                                           "routed", "queued"}
                           /\ s \notin pump'.view
    BY <1>1, <1>2, <1>5 DEF IInv, StagesRight, GoesOn, Fresh
  <2>2. turn'.at = "dead" => ing'.mem[turn'.sid].st = "dead"
    BY <1>1, PlacesFacts DEF IInv, StagesRight, GoesOn
  <2> QED BY <1>1, <1>5, <2>1, <2>2 DEF IInv, StagesRight, GoesOn
<1>8. RunsRight'
  <2>1. \A s \in Unbegun' : runs[ing'.mem[s].msg] = 0 /\ s \notin bound.disk
    BY <1>1, <1>2, <1>5, <1>6, PlacesFacts DEF IInv, RunsRight, GoesOn
  <2> QED BY <1>1, <2>1 DEF IInv, RunsRight, GoesOn
<1>9. BoundRight'
  BY <1>1, BoundStay
<1>10. AnswersRight'
  <2>1. \A s \in Unbegun' : v3[s] = "none"
    <3>1. inbox' # inbox => v3[NextSid] = "none"
      <4>1. inbox' # inbox => NextSid \in Sids
        BY <1>2, InboundFacts
      <4> QED BY <1>1, <4>1 DEF IInv, AnswersRight
    <3> QED BY <1>6, <3>1 DEF IInv, AnswersRight
  <2> QED BY <1>1, <2>1 DEF IInv, AnswersRight, GoesOn
<1>11. RepliesRight'
  BY <1>1, <1>4, RepliesStay
<1>12. DeliveredIsWhole'
  BY <1>1, <1>4, DeliveredStays
<1>13. VerdictsRight' /\ OneVerdict'
  <2>1. \A s \in Sids : (HasReply(s)' => HasReply(s)) /\ (HasNotice(s)' => HasNotice(s))
    BY <1>4, NoneNew
  <2>2. VerdictsRight'
    BY <1>1, <2>1 DEF IInv, VerdictsRight, GoesOn
  <2> QED BY <1>1, <1>4, <2>2, OneVerdictStays
<1>14. AckedIsKept'
  <2>1. \A x \in acked : \E s \in DOMAIN ing'.disk : ing'.disk[s].msg = Msg[x]
    BY <1>1 DEF IInv, AckedIsKept, GoesOn
  <2>2. acked' = acked \/ (acked' = acked \cup {m} /\ NextSid \in DOMAIN ing'.disk /\ ing'.disk[NextSid].msg = Msg[m])
    BY InboundFacts
  <2> QED BY <2>1, <2>2 DEF AckedIsKept
<1> QED BY <1>1, <1>3, <1>4, <1>7, <1>8, <1>9, <1>10, <1>11, <1>12, <1>13, <1>14 DEF IInv

-----------------------------------------------------------------------------
(* The books of delivered replies.                                            *)

(* Lines on the books leave a message where a line is for it or as it was.    *)
LEMMA WrittenDown ==
  ASSUME IInv, NEW f, Legal(f), ing' \in Lines(f)
  PROVE  /\ GoesOn(DOMAIN f) /\ Moved(f) /\ DOMAIN f \subseteq DOMAIN ing.mem
         /\ DOMAIN ing'.mem = DOMAIN ing.mem
         /\ ing.blocked => ing' = ing
         /\ ~ing.blocked => ing.disk = ing.mem
         /\ \A s \in DOMAIN f :
              /\ ing'.mem[s].st = ing.mem[s].st \/ (ing'.mem[s].st = f[s] /\ ing'.disk[s].st = f[s])
              /\ ing'.disk[s].st = ing.disk[s].st \/ ing'.disk[s].st = f[s]
              /\ ~ing'.blocked => ing'.mem[s].st = f[s]
<1>1. LedgerOrdered
  BY DEF IInv
<1>2. LedgerOrdered' /\ Moved(f)
  BY <1>1, LinesStep
<1>3. GoesOn(DOMAIN f)
  BY <1>1, <1>2, MovedGoesOn
<1>4. DOMAIN f \subseteq DOMAIN ing.mem /\ DOMAIN f \subseteq DOMAIN ing.disk
  BY <1>1, LedgerFacts DEF Legal
<1> QED BY <1>1, <1>2, <1>3, <1>4 DEF Moved, LedgerOrdered

(* A reply of which every segment that is in the box was sent is sent, if all *)
(* of it is in the box.                                                       *)
LEMMA AllSentIsWhole ==
  ASSUME IInv, NEW s \in DOMAIN ing.mem, Whole(s), AllSent(s), ~box.broken
  PROVE  \A p \in {s} \X (1..Parts[ing.disk[s].msg]) : box.disk[p].st = "sent"
<1>1. /\ Reply(s) = {s} \X (1..Parts[ing.disk[s].msg])
      /\ Reply(s) \subseteq {s} \X (1..MostParts)
  BY PartsArePieces DEF IInv, LedgerOrdered
<1>2. box.disk = box.mem
  BY DEF IInv, BoxOrdered
<1>3. ASSUME NEW p \in Reply(s) PROVE box.mem[p].st = "sent"
  <2>1. p \in Source(s)
    BY <1>1, <1>3 DEF Whole, Source, InBox
  <2> QED BY <2>1 DEF AllSent, Item
<1> QED BY <1>1, <1>2, <1>3

(* What is closed was replied to, and is delivered only when all of it was.   *)
LEMMA ClosingFacts ==
  ASSUME IInv
  PROVE  /\ Legal(Closing)
         /\ \A s \in DOMAIN Closing :
              /\ s \in DOMAIN ing.mem /\ ing.mem[s].st = "replied" /\ s \notin Queued
              /\ Closing[s] \in {"delivered", "undelivered"}
              /\ Closing[s] = "delivered" => AllSent(s)
<1>1. \A s \in DOMAIN Closing :
        /\ s \in DOMAIN ing.mem /\ ing.mem[s].st = "replied"
        /\ Closing[s] \in {"delivered", "undelivered"}
        /\ Closing[s] = "delivered" => AllSent(s)
  BY DEF Closing
<1>2. Legal(Closing)
  BY <1>1 DEF Legal, Ahead, CanTransition, States
<1>3. \A s \in DOMAIN Closing : s \notin Queued
  BY <1>1 DEF IInv, StagesRight
<1> QED BY <1>1, <1>2, <1>3

(* The tick's first step keeps the invariant.                                 *)
LEMMA ReconcileKeeps ==
  ASSUME IInv, Reconcile
  PROVE  IInv'
<1>1. LedgerOrdered /\ BoxOrdered /\ ShownRight /\ ThreadsType /\ raced \subseteq Sids
  BY DEF IInv, VerdictsRight
<1>2. UNCHANGED <<bound, v3, box, platform, inbox, turn, runs, half, raced, acked>>
  BY DEF Reconcile, history
<1>3. BoxOrdered' /\ ShownRight' /\ Grown({})
  BY <1>1, <1>2, BoxStays
<1>4. CASE box.broken
  <2>1. ing' = ing /\ pump' = Halt
    BY <1>4 DEF Reconcile
  <2>2. GoesOn({}) /\ AckedIsKept'
    BY <1>1, <1>2, <2>1, LedgerStays, AckStays
  <2>3. ThreadsType' /\ pump'.jobs = pump.jobs /\ pump'.view = {}
    BY <1>1, <1>2, <2>1 DEF ThreadsType, Halt
  <2> QED BY <1>2, <1>3, <2>2, <2>3, QuietStep
<1>5. CASE ~box.broken
  <2>1. /\ ing' \in Lines(Closing)
        /\ pump' = [To("sweep") EXCEPT !.view = Running]
        /\ pump.ctl = "open"
    BY <1>5 DEF Reconcile, Ticking
  <2> DEFINE S == DOMAIN Closing
  <2>2. /\ GoesOn(S) /\ S \subseteq DOMAIN ing.mem
        /\ ing.blocked => ing' = ing
        /\ ~ing.blocked => ing.disk = ing.mem
        /\ \A s \in S :
              /\ ing'.mem[s].st = ing.mem[s].st \/ (ing'.mem[s].st = Closing[s] /\ ing'.disk[s].st = Closing[s])
              /\ ing'.disk[s].st = ing.disk[s].st \/ ing'.disk[s].st = Closing[s]
    BY <2>1, ClosingFacts, WrittenDown
  <2>3. \A s \in S : /\ s \in DOMAIN ing.mem /\ ing.mem[s].st = "replied" /\ s \notin Queued
                     /\ Closing[s] \in {"delivered", "undelivered"}
                     /\ Closing[s] = "delivered" => AllSent(s)
    BY ClosingFacts
  <2> HIDE DEF S
  <2>4. AckedIsKept'
    BY <1>2, <2>2, AckStays
  <2>5. /\ pump'.ctl = "open"
        /\ pump'.phase = "sweep"
        /\ pump'.view = Running
        /\ pump'.jobs = pump.jobs
        /\ pump' = [ctl |-> pump'.ctl, phase |-> pump'.phase, view |-> pump'.view,
                    jobs |-> pump'.jobs]
    BY <1>1, <2>1 DEF To, ThreadsType
  <2>6. ThreadsType'
    <3>1. Running \in SUBSET Nat
      BY <1>1, LedgerFacts DEF Running
    <3> QED BY <1>1, <1>2, <2>5, <3>1 DEF ThreadsType
  <2>7. \A s \in S : ing'.mem[s].st # "running"
    BY <2>2, <2>3
  <2>8. \A s \in S \cap InFlight' : ing'.disk[s].st \notin Replied
    <3>1. InFlight' = InFlight
      BY <1>2, <2>5 DEF InFlight
    <3> QED BY <2>2, <2>3, <3>1 DEF IInv, StagesRight, Replied
  <2>9. \A s \in pump'.view : s \in S \/ s \notin pump.view =>
          ing'.disk[s].st \notin {"delivered", "undelivered"}
    <3>1. \A s \in Running : s \in DOMAIN ing.mem /\ s \notin S /\ ing.disk[s].st \notin {"delivered", "undelivered"}
      BY <1>1, <2>3 DEF Running, LedgerOrdered, Ahead, CanTransition
    <3> QED BY <2>2, <2>5, <3>1 DEF GoesOn
  <2>10. \A s \in S \cap DOMAIN ing.mem :
           ing'.disk[s].st \in Replied /\ s \notin half => ing.disk[s].st \in Replied \/ Whole(s)
    BY <2>2, <2>3 DEF Replied
  <2>11. \A s \in S \cap DOMAIN ing.mem : ing'.disk[s].st = "delivered" /\ s \notin half =>
           \/ ing.disk[s].st = "delivered"
           \/ \A p \in {s} \X (1..Parts[ing.disk[s].msg]) : box.disk[p].st = "sent"
    <3>1. ASSUME NEW s \in S, s \in DOMAIN ing.mem, ing'.disk[s].st = "delivered", s \notin half,
                 ing.disk[s].st # "delivered"
          PROVE  \A p \in {s} \X (1..Parts[ing.disk[s].msg]) : box.disk[p].st = "sent"
      <4>1. Closing[s] = "delivered" /\ AllSent(s) /\ ing.disk[s].st = "replied"
        BY <2>2, <2>3, <3>1
      <4>2. Whole(s)
        BY <3>1, <4>1 DEF IInv, RepliesRight, Replied
      <4> QED BY <1>5, <3>1, <4>1, <4>2, AllSentIsWhole
    <3> QED BY <3>1
  <2>12. turn' = Idle => \A s \in bound.disk \ bound.mem :
                           s = turn.sid => ing'.mem[s].st # "running" \/ ing'.blocked
    <3>1. turn' = Idle => turn.sid = 0
      BY <1>2 DEF Idle
    <3>2. 0 \notin bound.disk
      BY LedgerFacts DEF IInv, BoundRight
    <3> QED BY <3>1, <3>2
  <2>13. /\ pump'.view \subseteq pump.view \cup Running
         /\ pump'.view # {} => pump'.ctl = "open" /\ pump'.phase = "sweep"
    BY <2>5
  <2>14. S \cap Queued = {} /\ raced \subseteq raced' /\ raced' \subseteq Sids
    BY <1>1, <1>2, <2>3
  <2> QED BY <1>2, <1>3, <2>2, <2>4, <2>5, <2>6, <2>7, <2>8, <2>9, <2>10, <2>11, <2>12, <2>13,
             <2>14, TickFrame
<1> QED BY <1>4, <1>5

-----------------------------------------------------------------------------
(* What is entered into the box, and a reply that is entered in part.         *)

(* Pieces that are entered change nothing of what the platform knows.         *)
LEMMA Entering ==
  ASSUME BoxOrdered, ShownRight, NEW S \in SUBSET Pieces, box' \in Enqueue(S), UNCHANGED platform
  PROVE  BoxOrdered' /\ ShownRight' /\ Grown(S)
<1>1. /\ BoxOrdered' /\ Grown(S)
      /\ \A p \in Pieces : /\ box.mem[p].st # "none" =>
                                box'.mem[p] = box.mem[p] /\ box'.disk[p] = box.disk[p]
                           /\ box'.disk[p].seat = box.disk[p].seat
                           /\ box'.disk[p].st # box.disk[p].st => box'.disk[p].st = "pending"
  BY EnqueueStep
<1>2. \A q \in Pieces : flying[q] # "no" => box.mem[q].st # "none"
  BY DEF ShownRight
<1> QED BY <1>1, <1>2, BridgeStays

(* The sids with part of their reply in the box.                              *)
LEMMA HalvedRight ==
  ASSUME IInv, NEW S, GoesOn(S), NEW s \in DOMAIN ing.mem, half' = Halved(s)
  PROVE  /\ half' \subseteq Sids
         /\ \A x : x # s => (x \in half' <=> x \in half)
         /\ s \notin half' => Whole(s)'
<1>1. s \in Sids /\ half \subseteq Sids
  BY LedgerFacts DEF IInv, RepliesRight
<1>2. Reply(s)' = Reply(s)
  BY DEF GoesOn, Reply
<1>3. s \notin half' => \A p \in Reply(s) : box'.mem[p].st # "none"
  BY DEF Halved
<1> QED BY <1>1, <1>2, <1>3 DEF Halved, Whole

(* Replies are whole after one was entered.                                   *)
LEMMA RepliesHalved ==
  ASSUME IInv, NEW s \in DOMAIN ing.mem, NEW S \in SUBSET {s}, GoesOn(S), NEW T, Grown(T),
         half' = Halved(s),
         turn' = turn \/ turn'.sid = s
  PROVE  RepliesRight'
<1>1. \A x \in DOMAIN ing.mem : Whole(x) => Whole(x)'
  <2>1. \A x \in DOMAIN ing.mem : Reply(x)' = Reply(x) /\ Reply(x) \subseteq Pieces
    BY PartsArePieces DEF IInv, GoesOn, Reply
  <2> QED BY <2>1 DEF Whole, Grown
<1>2. /\ half' \subseteq Sids
      /\ \A x : x # s => (x \in half' <=> x \in half)
      /\ s \notin half' => Whole(s)'
  BY HalvedRight
<1>3. \A x \in DOMAIN ing'.mem \ DOMAIN ing.mem : ing'.disk[x].st \notin Replied
  BY DEF GoesOn, Arriving, Fresh, Replied
<1>4. ASSUME NEW x \in DOMAIN ing'.mem, ing'.disk[x].st \in Replied, x \notin half'
      PROVE  Whole(x)'
  <2>1. CASE x = s
    BY <1>2, <1>4, <2>1
  <2>2. CASE x # s
    <3>1. x \in DOMAIN ing.mem /\ x \notin half
      BY <1>2, <1>3, <1>4, <2>2
    <3>2. ing.disk[x].st \in Replied
      BY <1>4, <2>2, <3>1 DEF GoesOn
    <3> QED BY <1>1, <3>1, <3>2 DEF IInv, RepliesRight
  <2> QED BY <2>1, <2>2
<1>5. (turn.at = "boxed" /\ turn.sid \notin half => Whole(turn.sid))'
  <2>1. CASE turn'.sid = s
    BY <1>2, <2>1
  <2>2. CASE turn' = turn /\ turn.sid # s
    <3>1. turn.at = "boxed" => turn.sid \in DOMAIN ing.mem
      BY PlacesFacts
    <3> QED BY <1>1, <1>2, <2>2, <3>1 DEF IInv, RepliesRight
  <2> QED BY <2>1, <2>2
<1> QED BY <1>2, <1>4, <1>5 DEF RepliesRight

(* And nothing is called delivered for it.                                    *)
LEMMA DeliveredHalved ==
  ASSUME IInv, NEW s \in DOMAIN ing.mem, NEW S \in SUBSET {s}, GoesOn(S), NEW T, Grown(T),
         half' = Halved(s),
         ing'.disk[s].st # "delivered"
  PROVE  DeliveredIsWhole'
<1> SUFFICES ASSUME NEW x \in DOMAIN ing'.disk, ing'.disk[x].st = "delivered", x \notin half'
             PROVE  \A p \in {x} \X (1..Parts[ing'.disk[x].msg]) : box'.disk[p].st = "sent"
  BY DEF DeliveredIsWhole
<1>1. x # s /\ x \notin half
  BY HalvedRight
<1>2. x \in DOMAIN ing.mem
  BY DEF GoesOn, LedgerOrdered, Arriving, Fresh
<1>3. /\ x \in DOMAIN ing.disk
      /\ ing'.disk[x].msg = ing.disk[x].msg
      /\ ing.disk[x].msg = ing.mem[x].msg
      /\ ing.disk[x].st = "delivered"
  BY <1>1, <1>2, LedgerFacts DEF GoesOn, IInv, LedgerOrdered
<1>4. \A p \in {x} \X (1..Parts[ing.disk[x].msg]) : p \in Pieces
  BY <1>2, <1>3, PartsArePieces DEF IInv
<1>5. \A p \in {x} \X (1..Parts[ing.disk[x].msg]) : box.disk[p].st = "sent"
  BY <1>1, <1>3 DEF IInv, DeliveredIsWhole
<1> QED BY <1>3, <1>4, <1>5 DEF Grown

(* A reply is told of whoever selected one, if there is no notice, or he is   *)
(* met late.                                                                  *)
LEMMA ReplyTold ==
  ASSUME IInv, NEW s \in DOMAIN ing.mem, NEW S, GoesOn(S), Grown(Reply(s)),
         raced \subseteq raced', raced' \subseteq Sids, bound'.disk = bound.disk,
         \A x \in Sids : v3[x] = "selected" => v3'[x] = "selected", v3'[s] = "selected",
         HasNotice(s) => s \in raced',
         Queued' \subseteq Queued, InFlight' \subseteq InFlight
  PROVE  VerdictsRight' /\ OneVerdict'
<1>1. Reply(s) \subseteq {s} \X (1..MostParts) /\ Reply(s) \subseteq Pieces
  BY PartsArePieces DEF IInv
<1>2. ASSUME NEW x \in Sids
      PROVE  (HasReply(x)' => HasReply(x) \/ x = s) /\ (HasNotice(x)' => HasNotice(x))
  <2>1. /\ HasReply(x)' => HasReply(x) \/ \E p \in Reply(s) : p \in {x} \X (1..MostParts)
        /\ HasNotice(x)' => HasNotice(x) \/ <<x, 0>> \in Reply(s)
    BY NothingNew
  <2>2. ASSUME NEW p \in Reply(s), p \in {x} \X (1..MostParts) PROVE x = s
    BY <1>1, <2>2
  <2>3. <<x, 0>> \notin Reply(s)
    <3>1. MostParts \in Nat
      BY SidPieces
    <3>2. ASSUME NEW k \in 1..MostParts PROVE <<x, 0>> # <<s, k>>
      BY <3>1, <3>2
    <3> QED BY <1>1, <3>2
  <2> QED BY <2>1, <2>2, <2>3
<1>3. VerdictsRight'
  BY <1>2 DEF IInv, VerdictsRight, GoesOn
<1>4. OneVerdict'
  <2>1. bound.disk \subseteq Sids
    BY LedgerFacts DEF IInv, BoundRight
  <2> QED BY <1>2, <2>1 DEF IInv, OneVerdict
<1> QED BY <1>3, <1>4

(* A notice is told of whoever is dead and nowhere; he has no reply, or is    *)
(* met late, or is not bound.                                                 *)
LEMMA NoticeTold ==
  ASSUME IInv, NEW s \in DOMAIN ing.mem, NEW S, GoesOn(S), Grown(Notice(s)),
         raced \subseteq raced', raced' \subseteq Sids, bound'.disk = bound.disk, v3' = v3,
         ing'.mem[s].st = "dead", ing'.disk[s].st = "dead",
         HasReply(s) => s \in raced' \/ s \notin bound.disk,
         Queued' \subseteq Queued, InFlight' \subseteq InFlight, s \notin Queued',
         s \notin InFlight'
  PROVE  VerdictsRight' /\ OneVerdict'
<1>1. \A x \in Sids : \A p \in Notice(s) : p \notin {x} \X (1..MostParts)
  BY DEF Notice
<1>2. \A x \in Sids : (HasReply(x)' => HasReply(x)) /\ (HasNotice(x)' => HasNotice(x) \/ x = s)
  <2>1. \A x \in Sids : <<x, 0>> \in Notice(s) => x = s
    BY DEF Notice
  <2> QED BY <1>1, <2>1, NothingNew
<1>3. VerdictsRight'
  BY <1>2 DEF IInv, VerdictsRight, GoesOn
<1>4. OneVerdict'
  <2>1. bound.disk \subseteq Sids
    BY LedgerFacts DEF IInv, BoundRight
  <2> QED BY <1>2, <2>1 DEF IInv, OneVerdict
<1> QED BY <1>3, <1>4

-----------------------------------------------------------------------------
(* The sweep.                                                                 *)

(* Dead letters: who is one is dead, and no running message is left unless    *)
(* the ledger is blocked.                                                     *)
LEMMA DeadLetters ==
  ASSUME IInv, NEW S \in SUBSET DOMAIN ing.mem, ing' \in MoveToDeadLetter(S)
  PROVE  /\ GoesOn(S) /\ DOMAIN ing'.mem = DOMAIN ing.mem
         /\ ing.blocked => ing' = ing
         /\ \A s \in S :
              /\ ing'.mem[s].st = ing.mem[s].st \/ (ing'.mem[s].st = "dead" /\ ing'.disk[s].st = "dead")
              /\ ing'.disk[s].st = ing.disk[s].st \/ ing'.disk[s].st = "dead"
              /\ ing'.mem[s].st # "running" \/ ing'.blocked
<1> DEFINE f == [s \in {x \in S : ing.mem[x].st \notin Terminal} |-> "dead"]
<1>1. Legal(f)
  BY DEF Legal, Ahead, States, Terminal
<1>2. ing' \in Lines(f)
  BY DEF MoveToDeadLetter
<1>3. /\ DOMAIN f \subseteq S
      /\ (\A s \in DOMAIN f : f[s] = "dead")
      /\ \A s \in S \ DOMAIN f : ing.mem[s].st \in Terminal
  OBVIOUS
<1> HIDE DEF f
<1>4. /\ GoesOn(DOMAIN f) /\ DOMAIN ing'.mem = DOMAIN ing.mem
      /\ ing.blocked => ing' = ing
      /\ \A s \in DOMAIN f :
           /\ ing'.mem[s].st = ing.mem[s].st \/ (ing'.mem[s].st = f[s] /\ ing'.disk[s].st = f[s])
           /\ ing'.disk[s].st = ing.disk[s].st \/ ing'.disk[s].st = f[s]
           /\ ~ing'.blocked => ing'.mem[s].st = f[s]
  BY <1>1, <1>2, WrittenDown
<1>5. GoesOn(S)
  BY <1>3, <1>4 DEF GoesOn
<1>6. ASSUME NEW s \in S
      PROVE  /\ ing'.mem[s].st = ing.mem[s].st \/ (ing'.mem[s].st = "dead" /\ ing'.disk[s].st = "dead")
             /\ ing'.disk[s].st = ing.disk[s].st \/ ing'.disk[s].st = "dead"
             /\ ing'.mem[s].st # "running" \/ ing'.blocked
  <2>1. CASE s \in DOMAIN f
    BY <1>3, <1>4, <2>1
  <2>2. CASE s \notin DOMAIN f
    BY <1>3, <1>4, <2>2 DEF GoesOn, Terminal
  <2> QED BY <2>1, <2>2
<1> QED BY <1>4, <1>5, <1>6

(* The one the sweep looks at is listed, on the books, neither in the inbox   *)
(* nor, by the step's guard, in flight.                                       *)
LEMMA ListedFacts ==
  ASSUME IInv, Recover
  PROVE  /\ Listed \in pump.view /\ Listed \in DOMAIN ing.mem /\ Listed \in Sids
         /\ Listed \notin InFlight /\ Listed \notin Queued /\ Listed # turn.sid
         /\ pump.ctl = "open" /\ pump.phase = "sweep"
         /\ ing.disk[Listed].st \notin {"delivered", "undelivered"}
         /\ raced \subseteq raced' /\ raced' \subseteq Sids
         /\ ing.mem[Listed].st # "running" => Listed \in raced'
         /\ UNCHANGED <<bound, flying, taken, inbox, turn, runs, acked>>
<1>1. /\ Listed \in pump.view /\ Listed \notin InFlight
      /\ raced' = Stale(Listed) /\ Ticking("sweep")
      /\ UNCHANGED <<bound, flying, taken, inbox, turn, runs, acked>>
  <2>1. pump.view \in SUBSET Nat /\ pump.view # {}
    BY DEF Recover, IInv, ThreadsType
  <2> QED BY <2>1, MinIsLeast DEF Recover, Listed, platform
<1>2. Listed \in DOMAIN ing.mem /\ Listed \in Sids
  BY <1>1, LedgerFacts DEF IInv, OnePlace
<1>3. Listed \notin Queued /\ ing.disk[Listed].st \notin {"delivered", "undelivered"}
  BY <1>1 DEF IInv, StagesRight
<1>4. Listed # turn.sid
  BY <1>1, <1>2, PlacesFacts
<1>5. /\ raced \subseteq raced'
      /\ raced' \subseteq Sids
      /\ (ing.mem[Listed].st # "running" => Listed \in raced')
  BY <1>1, <1>2 DEF Stale, IInv, VerdictsRight
<1> QED BY <1>1, <1>2, <1>3, <1>4, <1>5 DEF Ticking

(* The listed one is swept off, or the pump halts.                            *)
LEMMA SweptRight ==
  ASSUME IInv, Recover, pump' \in {Swept, Halt}
  PROVE  /\ ThreadsType'
         /\ pump'.jobs = pump.jobs
         /\ pump'.view \subseteq pump.view
         /\ Listed \notin pump'.view
         /\ pump'.view # {} => pump'.ctl = "open" /\ pump'.phase = "sweep"
<1>1. ThreadsType /\ UNCHANGED <<inbox, turn>>
  BY ListedFacts DEF IInv
<1>2. CASE pump' = Swept
  <2>1. /\ pump'.ctl = pump.ctl
        /\ pump'.phase = pump.phase
        /\ pump'.jobs = pump.jobs
        /\ pump'.view = pump.view \ {Listed}
        /\ pump' \in [ctl : {"open", "halted", "closing"}, phase : {"pump", "sweep", "drive"},
                      view : SUBSET Nat, jobs : Seq(Nat)]
    BY <1>1, <1>2 DEF Swept, ThreadsType
  <2> QED BY <1>1, <2>1, ListedFacts DEF ThreadsType
<1>3. CASE pump' = Halt
  <2>1. /\ pump'.jobs = pump.jobs /\ pump'.view = {}
        /\ pump' \in [ctl : {"open", "halted", "closing"}, phase : {"pump", "sweep", "drive"},
                      view : SUBSET Nat, jobs : Seq(Nat)]
    BY <1>1, <1>3 DEF Halt, ThreadsType
  <2> QED BY <1>1, <2>1 DEF ThreadsType
<1> QED BY <1>2, <1>3

(* The places after the listed one was swept or the pump halted.              *)
LEMMA SweptFrame ==
  ASSUME IInv, Recover, pump' \in {Swept, Halt}, NEW S \in SUBSET {Listed}, GoesOn(S),
         \A s \in S : ing'.mem[s].st # "running" \/ ing'.blocked
  PROVE  /\ ThreadsType' /\ OnePlace' /\ StagesRight' /\ RunsRight' /\ BoundRight'
         /\ Queued' = Queued /\ InFlight' = InFlight /\ Unbegun' \subseteq Unbegun
<1>1. /\ ThreadsType'
      /\ pump'.jobs = pump.jobs
      /\ pump'.view \subseteq pump.view
      /\ Listed \notin pump'.view
      /\ pump'.view # {} => pump'.ctl = "open" /\ pump'.phase = "sweep"
  BY SweptRight
<1>2. /\ Listed \notin Queued /\ Listed \notin InFlight
      /\ UNCHANGED <<inbox, bound, runs>> /\ turn' = turn
  BY ListedFacts
<1>3. InFlight' = InFlight
  BY <1>1, <1>2 DEF InFlight
<1>4. turn' = Idle => turn.sid = 0 /\ 0 \notin bound.disk
  BY <1>2, LedgerFacts DEF Idle, IInv, BoundRight
<1>5. /\ S \cap Queued = {} /\ S \cap InFlight' = {} /\ S \cap pump'.view = {}
  BY <1>1, <1>2, <1>3
<1>6. /\ OnePlace'
      /\ StagesRight'
      /\ RunsRight'
      /\ BoundRight'
      /\ Queued' = Queued
      /\ Unbegun' \subseteq Unbegun
  BY <1>1, <1>2, <1>4, <1>5, PlacesFrame
<1> QED BY <1>1, <1>3, <1>6

(* Giving up keeps the invariant.                                             *)
LEMMA GiveUpKeeps ==
  ASSUME IInv, Recover, Listed \notin bound.mem \/ v3[Listed] = "none", GiveUp(Listed)
  PROVE  IInv'
<1> DEFINE s == Listed
<1>1. /\ s \in DOMAIN ing.mem /\ s \in Sids /\ s # turn.sid /\ s \notin Queued /\ s \notin InFlight
      /\ raced \subseteq raced' /\ raced' \subseteq Sids
      /\ ing.mem[s].st # "running" => s \in raced'
      /\ UNCHANGED <<bound, flying, taken, inbox, turn, runs, acked>>
  BY ListedFacts
<1>2. BoxOrdered /\ ShownRight /\ UNCHANGED <<v3, half>> /\ UNCHANGED platform
  BY <1>1 DEF GiveUp, IInv, platform
<1>3. /\ GoesOn({s})
      /\ ing.blocked => ing' = ing
      /\ ing'.mem[s].st = ing.mem[s].st \/ (ing'.mem[s].st = "dead" /\ ing'.disk[s].st = "dead")
      /\ ing'.disk[s].st = ing.disk[s].st \/ ing'.disk[s].st = "dead"
      /\ ing'.mem[s].st # "running" \/ ing'.blocked
  <2>1. {s} \in SUBSET DOMAIN ing.mem /\ ing' \in MoveToDeadLetter({s})
    BY <1>1 DEF GiveUp
  <2> QED BY <2>1, DeadLetters
<1>4. CASE Buried(s)
  <2>1. box' \in Enqueue(Notice(s)) /\ pump' = Swept
    BY <1>4 DEF GiveUp
  <2>2. ~ing.blocked /\ ing'.mem[s].st = "dead" /\ ing'.disk[s].st = "dead"
    BY <1>3, <1>4 DEF Buried
  <2>3. BoxOrdered' /\ ShownRight' /\ Grown(Notice(s))
    <3>1. Notice(s) \in SUBSET Pieces
      BY <1>1, PartsArePieces DEF IInv
    <3> QED BY <1>2, <2>1, <3>1, Entering
  <2> HIDE DEF s
  <2>4. /\ ThreadsType' /\ OnePlace' /\ StagesRight' /\ RunsRight' /\ BoundRight'
        /\ Queued' = Queued /\ InFlight' = InFlight /\ Unbegun' \subseteq Unbegun
    BY <1>3, <2>1, SweptFrame DEF s
  <2>5. HasReply(s) => s \in raced' \/ s \notin bound.disk
    <3>1. HasReply(s) => v3[s] = "selected"
      BY <1>1 DEF IInv, VerdictsRight
    <3>2. s \in bound.disk \ bound.mem => ing.mem[s].st # "running"
      BY <1>1, <2>2 DEF IInv, BoundRight
    <3> QED BY <1>1, <3>1, <3>2 DEF s
  <2>6. VerdictsRight' /\ OneVerdict'
    BY <1>1, <1>2, <1>3, <2>2, <2>3, <2>4, <2>5, NoticeTold
  <2>7. AnswersRight'
    BY <1>1, <1>2, <1>3, <2>4, AnswersStay
  <2>8. RepliesRight' /\ DeliveredIsWhole'
    BY <1>1, <1>2, <1>3, <2>2, <2>3, RepliesStay, DeliveredStays DEF Replied
  <2>9. LedgerOrdered' /\ AckedIsKept'
    BY <1>1, <1>3, AckStays DEF GoesOn
  <2> QED BY <2>3, <2>4, <2>6, <2>7, <2>8, <2>9 DEF IInv
<1>5. CASE ~Buried(s)
  <2>1. box' = box /\ pump' = Halt
    BY <1>5 DEF GiveUp
  <2>2. BoxOrdered' /\ ShownRight' /\ Grown({})
    BY <1>2, <2>1, BoxStays
  <2> HIDE DEF s
  <2>3. /\ ThreadsType' /\ OnePlace' /\ StagesRight' /\ RunsRight' /\ BoundRight'
        /\ Queued' = Queued /\ InFlight' = InFlight /\ Unbegun' \subseteq Unbegun
    BY <1>3, <2>1, SweptFrame DEF s
  <2>4. VerdictsRight' /\ OneVerdict'
    BY <1>1, <1>2, <1>3, <2>2, <2>3, VerdictsStay, OneVerdictStays
  <2>5. AnswersRight'
    BY <1>1, <1>2, <1>3, <2>3, AnswersStay
  <2>6. RepliesRight' /\ DeliveredIsWhole'
    BY <1>1, <1>2, <1>3, <2>2, RepliesStay, DeliveredStays DEF Replied
  <2>7. LedgerOrdered' /\ AckedIsKept'
    BY <1>1, <1>3, AckStays DEF GoesOn
  <2> QED BY <2>2, <2>3, <2>4, <2>5, <2>6, <2>7 DEF IInv
<1> QED BY <1>4, <1>5

(* A transition is of one message, and is written in full or not at all.      *)
LEMMA TransitionStep ==
  ASSUME IInv, NEW s \in DOMAIN ing.mem, NEW st \in States, ing' \in Transition(s, st)
  PROVE  /\ GoesOn({s}) /\ DOMAIN ing'.mem = DOMAIN ing.mem
         /\ ing.blocked => ing' = ing
         /\ ing'.mem[s].st = ing.mem[s].st \/ (ing'.mem[s].st = st /\ ing'.disk[s].st = st)
         /\ ing'.disk[s].st = ing.disk[s].st \/ (ing'.disk[s].st = st /\ CanTransition(ing.disk[s].st, st))
         /\ CanTransition(ing.mem[s].st, st) => ing'.blocked \/ ing'.mem[s].st = st
<1>1. LedgerOrdered
  BY DEF IInv
<1>2. CASE CanTransition(ing.mem[s].st, st)
  <2> DEFINE f == [x \in {s} |-> st]
  <2>1. Legal(f)
    BY <1>2 DEF Legal, Ahead
  <2>2. ing' \in Lines(f)
    BY <1>2 DEF Transition
  <2>3. DOMAIN f = {s} /\ f[s] = st
    OBVIOUS
  <2> HIDE DEF f
  <2>4. /\ GoesOn({s}) /\ DOMAIN ing'.mem = DOMAIN ing.mem
        /\ ing.blocked => ing' = ing
        /\ ~ing.blocked => ing.disk = ing.mem
        /\ ing'.mem[s].st = ing.mem[s].st \/ (ing'.mem[s].st = st /\ ing'.disk[s].st = st)
        /\ ing'.disk[s].st = ing.disk[s].st \/ ing'.disk[s].st = st
        /\ ~ing'.blocked => ing'.mem[s].st = st
    BY <2>1, <2>2, <2>3, WrittenDown
  <2>5. ing'.blocked \in BOOLEAN
    BY <2>4 DEF GoesOn, LedgerOrdered
  <2> QED BY <1>2, <2>4, <2>5
<1>3. CASE ~CanTransition(ing.mem[s].st, st)
  <2>1. ing' = ing
    BY <1>3 DEF Transition
  <2>2. GoesOn({})
    BY <1>1, <2>1, LedgerStays
  <2>3. GoesOn({s})
    BY <2>2 DEF GoesOn
  <2> QED BY <1>3, <2>1, <2>3
<1> QED BY <1>2, <1>3

(* Completing keeps the invariant.                                            *)
LEMMA CompleteKeeps ==
  ASSUME IInv, Recover, Listed \in bound.mem, v3[Listed] # "none", Complete(Listed)
  PROVE  IInv'
<1> DEFINE s == Listed
<1>1. /\ s \in DOMAIN ing.mem /\ s \in Sids /\ s # turn.sid /\ s \notin Queued /\ s \notin InFlight
      /\ ing.disk[s].st \notin {"delivered", "undelivered"}
      /\ raced \subseteq raced' /\ raced' \subseteq Sids
      /\ ing.mem[s].st # "running" => s \in raced'
      /\ UNCHANGED <<bound, flying, taken, inbox, turn, runs, acked>>
  BY ListedFacts
<1>2. /\ BoxOrdered /\ ShownRight /\ LedgerOrdered /\ UNCHANGED platform
      /\ v3' = [v3 EXCEPT ![s] = "selected"]
      /\ box' \in Enqueue(Reply(s))
  BY <1>1 DEF Complete, IInv, platform
<1>3. BoxOrdered' /\ ShownRight' /\ Grown(Reply(s))
  <2>1. Reply(s) \in SUBSET Pieces
    BY <1>1, <1>2, PartsArePieces
  <2> QED BY <1>2, <2>1, Entering
<1>4. PICK S \in SUBSET {s} :
        /\ GoesOn(S)
        /\ \A x \in S : ing'.mem[x].st # "running" \/ ing'.blocked
        /\ ing'.disk[s].st \notin {"delivered", "undelivered"}
        /\ half' = Halved(s) \/ (half' = half /\ S = {})
        /\ pump' \in {Swept, Halt}
  <2>1. CASE Refused(Reply(s))
    <3>1. ing' = ing /\ half' = half /\ pump' = Halt
      BY <2>1 DEF Complete
    <3>2. GoesOn({})
      BY <1>2, <3>1, LedgerStays
    <3> QED BY <1>1, <3>1, <3>2
  <2>2. CASE ~Refused(Reply(s))
    <3>1. ing' \in Transition(s, "replied") /\ half' = Halved(s) /\ pump' \in {Swept, Halt}
      BY <2>2 DEF Complete
    <3>2. "replied" \in States
      BY DEF States
    <3>3. /\ GoesOn({s})
          /\ ing'.mem[s].st = ing.mem[s].st \/ (ing'.mem[s].st = "replied" /\ ing'.disk[s].st = "replied")
          /\ ing'.disk[s].st = ing.disk[s].st \/ ing'.disk[s].st = "replied"
          /\ CanTransition(ing.mem[s].st, "replied") => ing'.blocked \/ ing'.mem[s].st = "replied"
      BY <1>1, <3>1, <3>2, TransitionStep
    <3>4. ing'.mem[s].st # "running" \/ ing'.blocked
      BY <3>3 DEF CanTransition
    <3> QED BY <1>1, <3>1, <3>3, <3>4
  <2> QED BY <2>1, <2>2
<1>5. /\ ThreadsType' /\ OnePlace' /\ StagesRight' /\ RunsRight' /\ BoundRight'
      /\ Queued' = Queued /\ InFlight' = InFlight /\ Unbegun' \subseteq Unbegun
  BY <1>4, SweptFrame
<1> HIDE DEF s
<1>6. v3' \in [Sids -> {"none", "answered", "selected"}] /\ v3'[s] = "selected" /\ \A x \in Sids :
        x # s => v3'[x] = v3[x]
  BY <1>1, <1>2 DEF IInv, AnswersRight
<1>7. AnswersRight'
  <2>1. DOMAIN ing.mem \subseteq DOMAIN ing'.mem
    BY <1>4 DEF GoesOn
  <2>2. s \notin Unbegun /\ Unbegun \subseteq Sids /\ (turn.at # "idle" => turn.sid \in Sids)
    BY <1>1, PlacesFacts
  <2>3. \A x \in Sids \ DOMAIN ing'.mem : v3'[x] = "none"
    BY <1>1, <1>6, <2>1 DEF IInv, AnswersRight
  <2>4. \A x \in Unbegun' : v3'[x] = "none"
    BY <1>5, <1>6, <2>2 DEF IInv, AnswersRight
  <2> QED BY <1>1, <1>6, <2>2, <2>3, <2>4 DEF IInv, AnswersRight
<1>8. HasNotice(s) => s \in raced'
  BY <1>1 DEF IInv, VerdictsRight
<1>9. VerdictsRight' /\ OneVerdict'
  BY <1>1, <1>3, <1>4, <1>5, <1>6, <1>8, ReplyTold
<1>10. RepliesRight' /\ DeliveredIsWhole'
  <2>1. CASE half' = Halved(s)
    BY <1>1, <1>3, <1>4, <2>1, RepliesHalved, DeliveredHalved
  <2>2. CASE half' = half /\ S = {}
    BY <1>1, <1>3, <1>4, <2>2, RepliesStay, DeliveredStays
  <2> QED BY <1>4, <2>1, <2>2
<1>11. LedgerOrdered' /\ AckedIsKept'
  BY <1>1, <1>4, AckStays DEF GoesOn
<1> QED BY <1>3, <1>5, <1>7, <1>9, <1>10, <1>11 DEF IInv

(* So does the sweep's step.                                                  *)
LEMMA RecoverKeeps ==
  ASSUME IInv, Recover
  PROVE  IInv'
BY GiveUpKeeps, CompleteKeeps DEF Recover

-----------------------------------------------------------------------------
(* Who leaves the inbox.                                                      *)

(* The first of a conversation leaves it, and was nowhere else.               *)
LEMMA InboxHead ==
  ASSUME IInv, NEW c \in Convs, inbox[c] # <<>>, inbox' = [inbox EXCEPT ![c] = Tail(@)]
  PROVE  /\ Head(inbox[c]) \in Queued
         /\ Head(inbox[c]) \in DOMAIN ing.mem
         /\ Head(inbox[c]) \in Sids
         /\ Head(inbox[c]) \notin InFlight
         /\ Head(inbox[c]) \notin bound.disk
         /\ Head(inbox[c]) \notin pump.view
         /\ Queued' = Queued \ {Head(inbox[c])}
         /\ inbox' \in [Convs -> Seq(Nat)]
         /\ \A d \in Convs : Once(inbox'[d]) /\ Elems(inbox'[d]) \subseteq Elems(inbox[d])
<1> DEFINE h == Head(inbox[c])
<1>1. OnePlace /\ inbox \in [Convs -> Seq(Nat)]
  BY DEF IInv, ThreadsType
<1>2. /\ h \in Elems(inbox[c]) /\ h \in Nat
      /\ Tail(inbox[c]) \in Seq(Nat)
      /\ Once(Tail(inbox[c]))
      /\ Elems(Tail(inbox[c])) = Elems(inbox[c]) \ {h}
  BY <1>1, HeadLeaves DEF OnePlace
<1>3. PICK q \in Seq(Nat) : q = Tail(inbox[c]) /\ Once(q) /\ Elems(q) = Elems(inbox[c]) \ {h}
  BY <1>2
<1>4. /\ inbox'[c] = q
      /\ (\A d \in Convs : d # c => inbox'[d] = inbox[d])
      /\ inbox' \in [Convs -> Seq(Nat)]
  BY <1>1, <1>3
<1> HIDE DEF h
<1>5. h \in Queued /\ h \in DOMAIN ing.mem /\ h \in Sids
  BY <1>1, <1>2, PlacesFacts DEF Queued
<1>6. h \notin InFlight /\ h \notin bound.disk /\ h \notin pump.view
  BY <1>1, <1>5 DEF OnePlace, IInv, StagesRight, RunsRight, Unbegun
<1>7. \A d \in Convs : Once(inbox'[d]) /\ Elems(inbox'[d]) \subseteq Elems(inbox[d])
  BY <1>1, <1>3, <1>4 DEF OnePlace
<1>8. \A d \in Convs : d # c => h \notin Elems(inbox[d])
  BY <1>1, <1>2 DEF OnePlace
<1>9. Queued' = Queued \ {h}
  <2>1. ASSUME NEW d \in Convs PROVE Elems(inbox'[d]) = Elems(inbox[d]) \ {h}
    <3>1. CASE d = c
      BY <1>3, <1>4, <3>1
    <3>2. CASE d # c
      BY <1>4, <1>8, <3>2
    <3> QED BY <3>1, <3>2
  <2>2. \A x : x \in Queued' <=> \E d \in Convs : x \in Elems(inbox'[d])
    BY DEF Queued
  <2>3. \A x : x \in Queued <=> \E d \in Convs : x \in Elems(inbox[d])
    BY DEF Queued
  <2>4. ASSUME NEW x PROVE x \in Queued' <=> x \in Queued /\ x # h
    <3>1. \A d \in Convs : x \in Elems(inbox'[d]) <=> x \in Elems(inbox[d]) /\ x # h
      BY <2>1
    <3> QED BY <2>2, <2>3, <3>1
  <2> QED BY <2>4
<1> QED BY <1>4, <1>5, <1>6, <1>7, <1>9 DEF h

(* Who stays is in the inbox of his conversation.                             *)
LEMMA InboxStays ==
  ASSUME IInv, NEW S, GoesOn(S), NEW c \in Convs, Elems(inbox'[c]) \subseteq Elems(inbox[c])
  PROVE  \A s \in Elems(inbox'[c]) : Conv[ing'.mem[s].msg] = c
<1>1. Elems(inbox[c]) \subseteq DOMAIN ing.mem
  BY DEF IInv, OnePlace, Queued
<1>2. \A s \in Elems(inbox[c]) : ing'.mem[s].msg = ing.mem[s].msg /\ Conv[ing.mem[s].msg] = c
  BY <1>1 DEF GoesOn, IInv, OnePlace
<1> QED BY <1>2

(* A message that is let in no more keeps the invariant.                      *)
LEMMA RevokeKeeps ==
  ASSUME IInv, NEW c \in Convs, Revoke(c)
  PROVE  IInv'
<1> DEFINE h == Head(inbox[c])
<1>1. /\ h \in Queued
      /\ h \in DOMAIN ing.mem
      /\ h \notin InFlight
      /\ h \notin bound.disk
      /\ h \notin pump.view
      /\ Queued' = Queued \ {h}
      /\ inbox' \in [Convs -> Seq(Nat)]
      /\ \A d \in Convs : Once(inbox'[d]) /\ Elems(inbox'[d]) \subseteq Elems(inbox[d])
  BY InboxHead DEF Revoke
<1>2. UNCHANGED <<bound, v3, box, platform, pump, turn, runs, half, raced, acked>>
  BY DEF Revoke, history
<1>3. /\ GoesOn({h})
      /\ ing'.disk[h].st = ing.disk[h].st \/ ing'.disk[h].st = "rejected"
  <2>1. ing' \in Transition(h, "rejected") /\ "rejected" \in States
    BY DEF Revoke, States
  <2> HIDE DEF h
  <2> QED BY <1>1, <2>1, TransitionStep
<1> HIDE DEF h
<1>4. LedgerOrdered' /\ BoxOrdered' /\ ShownRight' /\ Grown({}) /\ ThreadsType'
  BY <1>1, <1>2, <1>3, BoxStays DEF GoesOn, IInv, ThreadsType
<1>5. Hired' = Hired /\ InFlight' = InFlight /\ Unbegun' \subseteq Unbegun
  BY <1>1, <1>2 DEF Hired, InFlight, Unbegun
<1>6. OnePlace'
  <2>1. /\ DOMAIN ing.mem \subseteq DOMAIN ing'.mem
        /\ \A s \in DOMAIN ing.mem : ing'.mem[s].msg = ing.mem[s].msg
    BY <1>3 DEF GoesOn
  <2>2. ASSUME NEW d \in Convs
        PROVE  \A s \in Elems(inbox'[d]) : Conv[ing'.mem[s].msg] = d
    BY <1>1, <1>3, InboxStays
  <2> QED BY <1>1, <1>2, <1>5, <2>1, <2>2 DEF IInv, OnePlace
<1>7. StagesRight'
  <2>1. turn'.at = "dead" => turn'.sid \in DOMAIN ing.mem /\ ing'.mem[turn'.sid].st = "dead"
    BY <1>2, <1>3, PlacesFacts DEF IInv, StagesRight, GoesOn
  <2>2. {h} \cap Queued' = {} /\ {h} \cap InFlight' = {} /\ {h} \cap pump'.view = {}
    BY <1>1, <1>2, <1>5
  <2> QED BY <1>1, <1>2, <1>3, <1>5, <2>1, <2>2, StagesStay
<1>8. RunsRight'
  BY <1>2, <1>3, <1>5, RunsStay
<1>9. BoundRight'
  BY <1>1, <1>2, <1>3, BoundStay
<1>10. AnswersRight'
  BY <1>2, <1>3, <1>5, AnswersStay
<1>11. RepliesRight' /\ DeliveredIsWhole'
  BY <1>2, <1>3, <1>4, RepliesStay, DeliveredStays DEF Replied
<1>12. VerdictsRight' /\ OneVerdict'
  <2>1. raced' \subseteq Sids
    BY <1>2 DEF IInv, VerdictsRight
  <2> QED BY <1>1, <1>2, <1>3, <1>4, <1>5, <2>1, VerdictsStay, OneVerdictStays
<1>13. AckedIsKept'
  BY <1>2, <1>3, AckStays
<1> QED BY <1>4, <1>6, <1>7, <1>8, <1>9, <1>10, <1>11, <1>12, <1>13 DEF IInv

(* A message that is claimed keeps the invariant.                             *)
LEMMA ClaimKeeps ==
  ASSUME IInv, NEW c \in Convs, Claim(c)
  PROVE  IInv'
<1> DEFINE h == Head(inbox[c])
<1>1. /\ h \in Queued
      /\ h \in DOMAIN ing.mem
      /\ h \notin InFlight
      /\ h \notin bound.disk
      /\ h \notin pump.view
      /\ Queued' = Queued \ {h}
      /\ inbox' \in [Convs -> Seq(Nat)]
      /\ \A d \in Convs : Once(inbox'[d]) /\ Elems(inbox'[d]) \subseteq Elems(inbox[d])
      /\ h \in Sids
  BY InboxHead DEF Claim
<1>2. /\ UNCHANGED <<bound, v3, box, platform, turn, runs, half, raced, acked>>
      /\ pump.view = {} /\ pump' = [To("drive") EXCEPT !.jobs = Append(@, h)]
  BY DEF Claim, history, MayClaim
<1>3. /\ GoesOn({h})
      /\ ing'.disk[h].st = ing.disk[h].st \/ ing'.disk[h].st = "running"
  <2>1. ing' \in Transition(h, "running") /\ "running" \in States
    BY DEF Claim, States
  <2> HIDE DEF h
  <2> QED BY <1>1, <2>1, TransitionStep
<1> HIDE DEF h
<1>4. LedgerOrdered' /\ BoxOrdered' /\ ShownRight' /\ Grown({})
  BY <1>2, <1>3, BoxStays DEF GoesOn, IInv
<1>5. /\ pump'.view = {} /\ ThreadsType' /\ Once(pump'.jobs)
      /\ Hired' = Hired \cup {h}
  <2>1. pump.jobs \in Seq(Nat) /\ Once(pump.jobs) /\ h \notin Hired /\ h \in Nat /\ ThreadsType
    BY <1>1, PlacesFacts DEF IInv, ThreadsType, OnePlace
  <2>2. PICK q \in Seq(Nat) : q = Append(pump.jobs, h) /\ Once(q) /\ Elems(q) = Hired \cup {h}
    BY <2>1, OneJoins DEF Hired
  <2>3. /\ pump'.view = {} /\ pump'.jobs = q
        /\ pump' \in [ctl : {"open", "halted", "closing"}, phase : {"pump", "sweep", "drive"},
                      view : SUBSET Nat, jobs : Seq(Nat)]
    BY <1>2, <2>1, <2>2 DEF To, ThreadsType
  <2> QED BY <1>1, <1>2, <2>1, <2>2, <2>3 DEF ThreadsType, Hired
<1>6. InFlight' = InFlight \cup {h} /\ Unbegun' \subseteq Unbegun
  <2>1. InFlight' = Hired' \cup ({turn'.sid} \ {0}) /\ InFlight = Hired \cup ({turn.sid} \ {0})
    BY DEF InFlight, Hired, Elems
  <2> QED BY <1>1, <1>2, <1>5, <2>1 DEF Unbegun
<1>7. /\ DOMAIN ing.mem \subseteq DOMAIN ing'.mem
      /\ \A s \in DOMAIN ing.mem : ing'.mem[s].msg = ing.mem[s].msg
  BY <1>3 DEF GoesOn
<1>8. OnePlace'
  <2>1. ASSUME NEW d \in Convs
        PROVE  \A s \in Elems(inbox'[d]) : Conv[ing'.mem[s].msg] = d
    BY <1>1, <1>3, InboxStays
  <2>2. turn'.sid \notin Hired'
    <3>1. turn.sid # h
      BY <1>1, PlacesFacts
    <3> QED BY <1>2, <1>5, <3>1 DEF IInv, OnePlace
  <2> QED BY <1>1, <1>2, <1>5, <1>6, <1>7, <2>1, <2>2 DEF IInv, OnePlace
<1>9. StagesRight'
  <2>1. \A s \in Queued' : {ing'.mem[s].st, ing'.disk[s].st} \subseteq {"durable", "authorized",
                                                                        "routed",
                                                                        "queued"} /\ s \notin pump'.view
    BY <1>1, <1>3, <1>5, PlacesFacts DEF IInv, StagesRight, GoesOn
  <2>2. \A s \in InFlight' : ing'.disk[s].st \notin Replied
    <3>1. ing'.disk[h].st \notin Replied
      BY <1>1, <1>3 DEF IInv, StagesRight, Replied
    <3>2. \A s \in InFlight : s # h /\ ing'.disk[s].st = ing.disk[s].st
      BY <1>1, <1>3, PlacesFacts DEF GoesOn
    <3> QED BY <1>6, <3>1, <3>2 DEF IInv, StagesRight
  <2>3. turn'.at = "dead" => ing'.mem[turn'.sid].st = "dead"
    BY <1>2, <1>3, PlacesFacts DEF IInv, StagesRight, GoesOn
  <2> QED BY <1>5, <2>1, <2>2, <2>3 DEF StagesRight
<1>10. RunsRight'
  BY <1>2, <1>3, <1>6, RunsStay
<1>11. BoundRight'
  BY <1>1, <1>2, <1>3, BoundStay
<1>12. AnswersRight'
  BY <1>2, <1>3, <1>6, AnswersStay
<1>13. RepliesRight' /\ DeliveredIsWhole'
  BY <1>2, <1>3, <1>4, RepliesStay, DeliveredStays DEF Replied
<1>14. VerdictsRight' /\ OneVerdict'
  <2>1. \A s \in Sids : (HasReply(s)' => HasReply(s)) /\ (HasNotice(s)' => HasNotice(s))
    BY <1>4, NoneNew
  <2>2. VerdictsRight'
    BY <1>1, <1>2, <1>3, <1>6, <2>1 DEF IInv, VerdictsRight, GoesOn
  <2> QED BY <1>2, <1>4, <2>2, OneVerdictStays
<1>15. AckedIsKept'
  BY <1>2, <1>3, AckStays
<1> QED BY <1>4, <1>5, <1>8, <1>9, <1>10, <1>11, <1>12, <1>13, <1>14, <1>15 DEF IInv

-----------------------------------------------------------------------------
(* The worker's turn.                                                         *)

(* The worker takes up the first job.                                         *)
LEMMA StartKeeps ==
  ASSUME IInv, Start
  PROVE  IInv'
<1> DEFINE h == Head(pump.jobs)
<1>1. /\ UNCHANGED <<ing, bound, v3, box, platform, inbox, runs, half, raced, acked>>
      /\ turn.at = "idle" /\ turn' = [sid |-> h, at |-> "taken"]
      /\ pump' = [pump EXCEPT !.jobs = Tail(@)] /\ pump.jobs # <<>>
  BY DEF Start, TurnAt, books, history
<1>2. /\ LedgerOrdered /\ BoxOrdered /\ ShownRight /\ ThreadsType /\ OnePlace
      /\ turn.sid = 0 /\ pump.jobs \in Seq(Nat)
  BY <1>1 DEF IInv, ThreadsType
<1>3. /\ h \in Hired /\ h \in Nat
      /\ Tail(pump.jobs) \in Seq(Nat)
      /\ Once(Tail(pump.jobs))
      /\ Elems(Tail(pump.jobs)) = Hired \ {h}
  BY <1>1, <1>2, HeadLeaves DEF OnePlace, Hired
<1>4. GoesOn({}) /\ BoxOrdered' /\ ShownRight' /\ Grown({})
  BY <1>1, <1>2, LedgerStays, BoxStays
<1>5. PICK q \in Seq(Nat) : q = Tail(pump.jobs) /\ Once(q) /\ Elems(q) = Hired \ {h}
  BY <1>3
<1>6. h \in DOMAIN ing.mem /\ h # 0 /\ h \in InFlight /\ h \in Unbegun
  <2>1. h \in InFlight /\ h \in Unbegun
    BY <1>3, PlacesFacts DEF Unbegun
  <2>2. h \in DOMAIN ing.mem /\ h \in Sids
    BY <2>1, PlacesFacts
  <2> QED BY <2>1, <2>2, PlacesFacts
<1> HIDE DEF h
<1>7. /\ pump'.jobs = q
      /\ pump'.view = pump.view
      /\ pump'.ctl = pump.ctl
      /\ pump'.phase = pump.phase
      /\ pump' \in [ctl : {"open", "halted", "closing"}, phase : {"pump", "sweep", "drive"},
                    view : SUBSET Nat, jobs : Seq(Nat)]
  BY <1>1, <1>2, <1>5 DEF ThreadsType
<1>8. turn'.sid = h /\ turn'.at = "taken" /\ Hired' = Hired \ {h}
  BY <1>1, <1>5, <1>7 DEF Hired
<1>9. Queued' = Queued /\ InFlight' = InFlight /\ Unbegun' = Unbegun
  <2>1. Queued' = Queued
    BY <1>1 DEF Queued
  <2>2. InFlight' = Hired' \cup ({turn'.sid} \ {0}) /\ InFlight = Hired \cup ({turn.sid} \ {0})
    BY DEF InFlight, Hired, Elems
  <2> QED BY <1>1, <1>2, <1>3, <1>6, <1>8, <2>1, <2>2 DEF Unbegun
<1>10. ThreadsType'
  BY <1>1, <1>2, <1>3, <1>6, <1>7 DEF ThreadsType
<1>11. OnePlace'
  <2>1. Once(pump'.jobs) /\ turn'.sid \notin Hired'
    BY <1>5, <1>7, <1>8
  <2> QED BY <1>1, <1>2, <1>7, <1>9, <2>1 DEF OnePlace
<1>12. StagesRight'
  BY <1>1, <1>4, <1>7, <1>8, <1>9, StagesStay
<1>13. RunsRight' /\ BoundRight'
  <2>1. 0 \notin bound.disk
    BY <1>2, LedgerFacts DEF IInv, BoundRight
  <2> QED BY <1>1, <1>2, <1>4, <1>9, <2>1, RunsStay, BoundStay
<1>14. AnswersRight'
  BY <1>1, <1>8, <1>9 DEF IInv, AnswersRight
<1>15. RepliesRight' /\ DeliveredIsWhole'
  BY <1>1, <1>4, <1>8, RepliesStay, DeliveredStays
<1>16. VerdictsRight' /\ OneVerdict'
  <2>1. raced' \subseteq Sids
    BY <1>1 DEF IInv, VerdictsRight
  <2> QED BY <1>1, <1>4, <1>9, <2>1, VerdictsStay, OneVerdictStays
<1>17. AckedIsKept' /\ LedgerOrdered'
  BY <1>1, <1>4, AckStays DEF GoesOn
<1> QED BY <1>4, <1>10, <1>11, <1>12, <1>13, <1>14, <1>15, <1>16, <1>17 DEF IInv

(* The worker goes on with the turn that it has.                              *)
LEMMA TurnFrame ==
  ASSUME IInv, UNCHANGED <<ing, platform, inbox, pump, acked>>, turn.at # "idle",
         NEW at \in {"bound", "answered", "selected", "boxed", "failed"}, Goes(at)
  PROVE  /\ GoesOn({})
         /\ LedgerOrdered'
         /\ ThreadsType'
         /\ OnePlace'
         /\ StagesRight'
         /\ AckedIsKept'
         /\ turn'.sid = turn.sid
         /\ turn'.at = at
         /\ turn.sid \in DOMAIN ing.mem
         /\ turn.sid \in Sids
         /\ Queued' = Queued /\ Hired' = Hired /\ InFlight' = InFlight
         /\ Unbegun' \subseteq Unbegun /\ turn.sid \notin Unbegun'
         /\ turn.sid \in InFlight /\ turn.sid \notin Queued /\ ~HasNotice(turn.sid)
         /\ ing.disk[turn.sid].st \notin Replied
         /\ raced \subseteq Sids
<1>1. LedgerOrdered /\ ThreadsType /\ OnePlace
  BY DEF IInv
<1>2. GoesOn({}) /\ LedgerOrdered' /\ AckedIsKept'
  BY <1>1, LedgerStays, AckStays DEF GoesOn
<1>3. /\ turn' \in [sid : Nat, at : {"idle", "taken", "bound", "answered", "selected", "boxed", "failed", "dead"}]
      /\ turn'.sid = turn.sid
      /\ turn'.at = at
  BY <1>1 DEF Goes, ThreadsType
<1>4. turn.sid \in InFlight /\ turn.sid \in DOMAIN ing.mem /\ turn.sid \in Sids
  BY PlacesFacts
<1>5. ThreadsType'
  BY <1>1, <1>3 DEF ThreadsType
<1>6. Queued' = Queued /\ Hired' = Hired /\ InFlight' = InFlight
  BY <1>3 DEF Queued, Hired, InFlight
<1>7. OnePlace'
  BY <1>1, <1>3, <1>6 DEF OnePlace
<1>8. StagesRight'
  BY <1>2, <1>3, <1>6, StagesStay
<1>9. Unbegun' \subseteq Unbegun /\ turn.sid \notin Unbegun' /\ turn.sid \notin Queued
  BY <1>1, <1>3, <1>4, <1>6 DEF OnePlace, Unbegun
<1>10. ~HasNotice(turn.sid) /\ ing.disk[turn.sid].st \notin Replied /\ raced \subseteq Sids
  BY <1>4 DEF IInv, VerdictsRight, StagesRight
<1> QED BY <1>2, <1>3, <1>4, <1>5, <1>6, <1>7, <1>8, <1>9, <1>10

(* The turn has its number: it is begun, for the first time.                  *)
LEMMA BeginKeeps ==
  ASSUME IInv, Begin
  PROVE  IInv'
<1> DEFINE s == turn.sid
           i == ing.mem[s].msg
<1>1. /\ UNCHANGED <<ing, v3, box, platform, inbox, pump, half, raced, acked>>
      /\ turn.at = "taken" /\ Goes("bound") /\ bound' \in Bind(s)
      /\ runs' = [runs EXCEPT ![i] = @ + 1]
  BY DEF Begin, TurnAt
<1>2. /\ GoesOn({}) /\ LedgerOrdered' /\ ThreadsType' /\ OnePlace' /\ StagesRight' /\ AckedIsKept'
      /\ turn'.sid = s /\ turn'.at = "bound" /\ s \in DOMAIN ing.mem /\ s \in Sids
      /\ Queued' = Queued /\ Hired' = Hired /\ InFlight' = InFlight
      /\ Unbegun' \subseteq Unbegun /\ s \notin Unbegun'
      /\ ~HasNotice(s) /\ raced \subseteq Sids
  BY <1>1, TurnFrame
<1>3. LedgerOrdered /\ BoxOrdered /\ ShownRight /\ RunsRight /\ BoundRight /\ s \in Unbegun
  BY <1>1 DEF IInv, Unbegun
<1>4. BoxOrdered' /\ ShownRight' /\ Grown({})
  BY <1>1, <1>3, BoxStays
<1> HIDE DEF s
<1>5. i \in Msgs /\ runs[i] = 0 /\ ing.disk[s].msg = i /\ s \in DOMAIN ing.disk
  BY <1>2, <1>3, LedgerFacts DEF RunsRight, LedgerOrdered
<1>6. /\ bound' \in [disk : SUBSET DOMAIN ing.mem, mem : SUBSET DOMAIN ing.mem, broken : BOOLEAN]
      /\ bound'.mem \subseteq bound'.disk /\ bound'.disk \subseteq bound.disk \cup {s}
      /\ bound.mem \subseteq bound'.mem
      /\ ~bound'.broken => bound'.disk = bound'.mem
  <2>1. bound \in [disk : SUBSET DOMAIN ing.mem, mem : SUBSET DOMAIN ing.mem, broken : BOOLEAN]
    BY <1>3 DEF BoundRight
  <2>2. CASE bound' = bound
    BY <1>3, <2>1, <2>2 DEF BoundRight
  <2>3. CASE ~bound.broken /\ bound' = [bound EXCEPT !.disk = @ \cup {s}, !.mem = @ \cup {s}]
    BY <1>2, <1>3, <2>1, <2>3 DEF BoundRight
  <2>4. CASE ~bound.broken /\ bound' = [bound EXCEPT !.broken = TRUE]
    BY <1>2, <1>3, <2>1, <2>4 DEF BoundRight
  <2>5. CASE ~bound.broken /\ bound' = [bound EXCEPT !.disk = @ \cup {s}, !.broken = TRUE]
    BY <1>2, <1>3, <2>1, <2>5 DEF BoundRight
  <2> QED BY <1>1, <2>2, <2>3, <2>4, <2>5 DEF Bind
<1>7. RunsRight'
  <2> HIDE DEF i
  <2>1. runs' \in [Msgs -> 0..1] /\ \A j \in Msgs : j # i => runs'[j] = runs[j]
    BY <1>1, <1>3, <1>5 DEF RunsRight
  <2>2. ASSUME NEW x \in Unbegun' PROVE runs'[ing'.mem[x].msg] = 0 /\ x \notin bound'.disk
    <3>1. x \in Unbegun /\ x # s /\ x \in DOMAIN ing.mem /\ x \in DOMAIN ing.disk
      BY <1>2, <1>3, PlacesFacts, LedgerFacts
    <3>2. ing.mem[x].msg # i /\ ing.mem[x].msg \in Msgs
      BY <1>3, <1>5, <3>1, LedgerFacts DEF LedgerOrdered
    <3>3. runs[ing.mem[x].msg] = 0 /\ x \notin bound.disk
      BY <1>3, <3>1 DEF RunsRight
    <3> QED BY <1>1, <1>6, <2>1, <3>1, <3>2, <3>3
  <2>3. \A j \in Msgs : runs'[j] = 1 => \E x \in DOMAIN ing'.disk : ing'.disk[x].msg = j
    BY <1>1, <1>3, <1>5, <2>1 DEF RunsRight
  <2> QED BY <2>1, <2>2, <2>3 DEF RunsRight
<1>8. BoundRight'
  <2>1. ASSUME NEW x \in bound'.disk \ bound'.mem
        PROVE  x = turn'.sid \/ ing'.mem[x].st # "running" \/ ing'.blocked
    BY <1>1, <1>2, <1>3, <1>6 DEF BoundRight, s
  <2> QED BY <1>1, <1>6, <2>1 DEF BoundRight
<1>9. AnswersRight'
  <2>1. v3[s] = "none"
    BY <1>3 DEF IInv, AnswersRight
  <2> QED BY <1>1, <1>2, <2>1 DEF IInv, AnswersRight
<1>10. RepliesRight' /\ DeliveredIsWhole'
  BY <1>1, <1>2, <1>4, RepliesStay, DeliveredStays
<1>11. VerdictsRight' /\ OneVerdict'
  <2>1. \A x \in Sids : (HasReply(x)' => HasReply(x)) /\ (HasNotice(x)' => HasNotice(x))
    BY <1>4, NoneNew
  <2>2. VerdictsRight'
    BY <1>1, <1>2, <1>4, VerdictsStay
  <2>3. bound.disk \subseteq Sids
    BY LedgerFacts DEF IInv, BoundRight
  <2>4. OneVerdict'
    BY <1>1, <1>2, <1>6, <2>1, <2>3 DEF IInv, OneVerdict
  <2> QED BY <2>2, <2>4
<1> QED BY <1>2, <1>4, <1>7, <1>8, <1>9, <1>10, <1>11 DEF IInv

(* The model answers, the answer is selected, or the turn fails.              *)
LEMMA TurnKeeps ==
  ASSUME IInv, Answer \/ Select \/ Fail
  PROVE  IInv'
<1> DEFINE s == turn.sid
<1>1. /\ UNCHANGED <<ing, bound, box, platform, inbox, pump, runs, half, raced, acked>>
      /\ turn.at \in {"taken", "bound", "answered"}
  BY DEF Answer, Select, Fail, TurnAt, books, history
<1>2. PICK at \in {"answered", "selected", "failed"} :
        /\ Goes(at)
        /\ v3' = v3 \/ v3' = [v3 EXCEPT ![s] = at]
        /\ at = "selected" => v3' = [v3 EXCEPT ![s] = "selected"]
        /\ at = "failed" => v3' = v3
  BY DEF Answer, Select, Fail, TurnAt, books
<1>3. /\ GoesOn({}) /\ LedgerOrdered' /\ ThreadsType' /\ OnePlace' /\ StagesRight' /\ AckedIsKept'
      /\ turn'.sid = s /\ turn'.at = at /\ s \in DOMAIN ing.mem /\ s \in Sids
      /\ Queued' = Queued /\ Hired' = Hired /\ InFlight' = InFlight
      /\ Unbegun' \subseteq Unbegun /\ s \notin Unbegun'
      /\ raced \subseteq Sids
  BY <1>1, <1>2, TurnFrame
<1>4. BoxOrdered /\ ShownRight
  BY DEF IInv
<1>5. BoxOrdered' /\ ShownRight' /\ Grown({})
  BY <1>1, <1>4, BoxStays
<1>6. RunsRight' /\ BoundRight'
  BY <1>1, <1>3, RunsStay, BoundStay
<1>7. v3[s] # "selected" /\ v3 \in [Sids -> {"none", "answered", "selected"}]
  BY <1>1 DEF IInv, AnswersRight, Unbegun
<1> HIDE DEF s
<1>8. /\ v3' \in [Sids -> {"none", "answered", "selected"}]
      /\ \A x \in Sids : x # s => v3'[x] = v3[x]
      /\ at # "selected" => v3'[s] # "selected"
      /\ at = "selected" => v3'[s] = "selected"
  BY <1>2, <1>3, <1>7
<1>9. AnswersRight'
  <2>1. Unbegun \subseteq Sids
    BY PlacesFacts
  <2>2. \A x \in Unbegun' : v3'[x] = "none"
    BY <1>3, <1>8, <2>1 DEF IInv, AnswersRight
  <2>3. \A x \in Sids \ DOMAIN ing'.mem : v3'[x] = "none"
    BY <1>1, <1>3, <1>8 DEF IInv, AnswersRight
  <2> QED BY <1>3, <1>8, <2>2, <2>3 DEF AnswersRight
<1>10. RepliesRight' /\ DeliveredIsWhole'
  BY <1>1, <1>3, <1>5, RepliesStay, DeliveredStays
<1>11. VerdictsRight' /\ OneVerdict'
  <2>1. \A x \in Sids : v3[x] = "selected" => v3'[x] = "selected"
    BY <1>7, <1>8
  <2> QED BY <1>1, <1>3, <1>5, <2>1, VerdictsStay, OneVerdictStays
<1> QED BY <1>3, <1>5, <1>6, <1>9, <1>10, <1>11 DEF IInv

(* The reply is entered, in full or in part.                                  *)
LEMMA EnqueueReplyKeeps ==
  ASSUME IInv, EnqueueReply
  PROVE  IInv'
<1> DEFINE s == turn.sid
<1>1. /\ UNCHANGED <<ing, bound, v3, platform, inbox, pump, runs, raced, acked>>
      /\ turn.at = "selected" /\ Goes("boxed")
      /\ box' \in Enqueue(Reply(s)) /\ half' = Halved(s)
  BY DEF EnqueueReply, TurnAt
<1>2. /\ GoesOn({}) /\ LedgerOrdered' /\ ThreadsType' /\ OnePlace' /\ StagesRight' /\ AckedIsKept'
      /\ turn'.sid = s /\ turn'.at = "boxed" /\ s \in DOMAIN ing.mem /\ s \in Sids
      /\ Queued' = Queued /\ Hired' = Hired /\ InFlight' = InFlight
      /\ Unbegun' \subseteq Unbegun
      /\ ~HasNotice(s) /\ ing.disk[s].st \notin Replied
      /\ raced \subseteq Sids
  BY <1>1, TurnFrame
<1>3. LedgerOrdered /\ BoxOrdered /\ ShownRight /\ v3[s] = "selected"
  BY <1>1 DEF IInv, AnswersRight
<1>4. BoxOrdered' /\ ShownRight' /\ Grown(Reply(s))
  <2>1. Reply(s) \in SUBSET Pieces
    BY <1>2, <1>3, PartsArePieces
  <2> QED BY <1>1, <1>3, <2>1, Entering
<1> HIDE DEF s
<1>5. RunsRight' /\ BoundRight'
  BY <1>1, <1>2, RunsStay, BoundStay DEF s
<1>6. AnswersRight'
  BY <1>1, <1>2, <1>3 DEF IInv, AnswersRight
<1>7. RepliesRight' /\ DeliveredIsWhole'
  <2>1. ing'.disk[s].st # "delivered"
    BY <1>1, <1>2 DEF Replied
  <2>2. {} \in SUBSET {s}
    OBVIOUS
  <2> QED BY <1>1, <1>2, <1>4, <2>1, <2>2, RepliesHalved, DeliveredHalved
<1>8. VerdictsRight' /\ OneVerdict'
  BY <1>1, <1>2, <1>3, <1>4, ReplyTold
<1> QED BY <1>2, <1>4, <1>5, <1>6, <1>7, <1>8 DEF IInv

-----------------------------------------------------------------------------
(* The end of a turn.                                                         *)

(* The turn is over: who had it is in flight no more.                         *)
LEMMA TurnOver ==
  ASSUME IInv, turn.at # "idle", turn' = Idle, UNCHANGED <<inbox, pump>>
  PROVE  /\ turn.sid \in InFlight /\ turn.sid \in DOMAIN ing.mem /\ turn.sid \in Sids
         /\ turn.sid \notin Queued
         /\ turn.sid \notin InFlight'
         /\ ing.disk[turn.sid].st \notin Replied
         /\ ThreadsType' /\ (pump'.view # {} => pump'.ctl = "open" /\ pump'.phase = "sweep")
         /\ ~HasNotice(turn.sid)
<1>1. turn.sid \in InFlight /\ turn.sid \in DOMAIN ing.mem /\ turn.sid \in Sids
  BY PlacesFacts
<1>2. turn.sid \notin InFlight'
  <2>1. InFlight' = Hired' \cup ({turn'.sid} \ {0})
    BY DEF InFlight, Hired, Elems
  <2>2. Hired' = Hired /\ turn'.sid = 0
    BY DEF Hired, Idle
  <2> QED BY <2>1, <2>2 DEF IInv, OnePlace
<1>3. turn.sid \notin Queued /\ ing.disk[turn.sid].st \notin Replied /\ ~HasNotice(turn.sid)
  BY <1>1 DEF IInv, OnePlace, StagesRight, VerdictsRight
<1>4. ThreadsType' /\ (pump'.view # {} => pump'.ctl = "open" /\ pump'.phase = "sweep")
  BY DEF IInv, ThreadsType, OnePlace, Idle
<1> QED BY <1>1, <1>2, <1>3, <1>4

(* A reply that was entered settles its message.                              *)
LEMMA SettleKeeps ==
  ASSUME IInv, SettleReplied
  PROVE  IInv'
<1> DEFINE s == turn.sid
<1>1. /\ UNCHANGED <<bound, v3, box, platform, inbox, pump, runs, half, raced, acked>>
      /\ turn.at = "boxed" /\ turn' = Idle /\ ing' \in Transition(s, "replied")
  BY DEF SettleReplied, TurnAt, history
<1>2. /\ s \in InFlight
      /\ s \in DOMAIN ing.mem
      /\ s \notin Queued
      /\ s \notin InFlight'
      /\ ing.disk[s].st \notin Replied
      /\ ThreadsType' /\ (pump'.view # {} => pump'.ctl = "open" /\ pump'.phase = "sweep")
  BY <1>1, TurnOver
<1> HIDE DEF s
<1>3. /\ GoesOn({s})
      /\ ing'.mem[s].st = ing.mem[s].st \/ ing'.mem[s].st = "replied"
      /\ ing'.disk[s].st = ing.disk[s].st \/ ing'.disk[s].st = "replied"
      /\ CanTransition(ing.mem[s].st, "replied") => ing'.blocked \/ ing'.mem[s].st = "replied"
  <2>1. "replied" \in States
    BY DEF States
  <2> QED BY <1>1, <1>2, <2>1, TransitionStep
<1>4. ing'.mem[s].st # "running" \/ ing'.blocked
  BY <1>3 DEF CanTransition
<1>5. BoxOrdered' /\ ShownRight' /\ Grown({})
  BY <1>1, BoxStays DEF IInv
<1>6. AckedIsKept'
  BY <1>1, <1>3, AckStays
<1>7. ing'.disk[s].st \notin {"delivered", "undelivered"}
  BY <1>2, <1>3 DEF Replied
<1>8. ing'.disk[s].st \in Replied /\ s \notin half => ing.disk[s].st \in Replied \/ Whole(s)
  BY <1>1 DEF IInv, RepliesRight, s
<1>9. /\ raced' \subseteq Sids
      /\ raced \subseteq raced'
      /\ pump'.view \subseteq pump.view \cup Running
      /\ pump'.jobs = pump.jobs
  BY <1>1 DEF IInv, VerdictsRight
<1>10. \A x \in bound.disk \ bound.mem : x = turn.sid => ing'.mem[x].st # "running" \/ ing'.blocked
  BY <1>4 DEF s
<1>11. /\ {s} \cap Queued = {} /\ {s} \cap InFlight' = {}
       /\ \A x \in pump'.view : x \in {s} \/ x \notin pump.view =>
            ing'.disk[x].st \notin {"delivered", "undelivered"}
  BY <1>1, <1>2, <1>7
<1> QED BY <1>1, <1>2, <1>3, <1>4, <1>5, <1>6, <1>7, <1>8, <1>9, <1>10, <1>11, TickFrame

(* A turn that failed leaves a dead letter.                                   *)
LEMMA DeadLetterKeeps ==
  ASSUME IInv, DeadLetter
  PROVE  IInv'
<1> DEFINE s == turn.sid
<1>1. /\ UNCHANGED <<bound, v3, box, platform, inbox, pump, runs, half, raced, acked>>
      /\ turn.at = "failed" /\ ing' \in MoveToDeadLetter({s})
  BY DEF DeadLetter, TurnAt, history
<1>2. s \in InFlight /\ s \in DOMAIN ing.mem /\ s \notin Queued /\ ing.disk[s].st \notin Replied
  <2>1. s \in InFlight /\ s \in DOMAIN ing.mem
    BY <1>1, PlacesFacts
  <2> QED BY <2>1 DEF IInv, OnePlace, StagesRight
<1> HIDE DEF s
<1>3. /\ GoesOn({s})
      /\ ing'.mem[s].st = ing.mem[s].st \/ (ing'.mem[s].st = "dead" /\ ing'.disk[s].st = "dead")
      /\ ing'.disk[s].st = ing.disk[s].st \/ ing'.disk[s].st = "dead"
      /\ ing'.mem[s].st # "running" \/ ing'.blocked
  <2>1. {s} \in SUBSET DOMAIN ing.mem
    BY <1>2
  <2> QED BY <1>1, <2>1, DeadLetters
<1>4. BoxOrdered' /\ ShownRight' /\ Grown({})
  BY <1>1, BoxStays DEF IInv
<1>5. AckedIsKept' /\ LedgerOrdered'
  BY <1>1, <1>3, AckStays DEF GoesOn
<1>6. ing'.disk[s].st \notin Replied
  BY <1>2, <1>3 DEF Replied
<1>7. /\ raced' \subseteq Sids
      /\ raced \subseteq raced'
      /\ pump'.view \subseteq pump.view \cup Running
      /\ pump'.jobs = pump.jobs
  BY <1>1 DEF IInv, VerdictsRight
<1>8. \A x \in pump'.view : x \in {s} \/ x \notin pump.view =>
        ing'.disk[x].st \notin {"delivered", "undelivered"}
  BY <1>1, <1>6 DEF Replied
<1>9. CASE Buried(s)
  <2>1. turn' = [turn EXCEPT !.at = "dead"]
    BY <1>9 DEF DeadLetter, Goes, s
  <2>2. /\ turn' \in [sid : Nat, at : {"idle", "taken", "bound", "answered", "selected", "boxed", "failed", "dead"}]
        /\ turn'.sid = s
        /\ turn'.at = "dead"
    BY <2>1 DEF IInv, ThreadsType, s
  <2>3. ThreadsType'
    BY <1>1, <2>2 DEF IInv, ThreadsType, s
  <2>4. OnePlace' /\ Queued' = Queued /\ Hired' = Hired /\ InFlight' \subseteq InFlight
    <3>1. turn'.sid \in {turn.sid, 0}
      BY <2>2 DEF s
    <3>2. pump'.view # {} => pump'.view \subseteq DOMAIN ing.mem /\ pump'.ctl = "open" /\ pump'.phase = "sweep"
      BY <1>1 DEF IInv, OnePlace
    <3> QED BY <1>1, <1>3, <1>7, <3>1, <3>2, PlacesStay
  <2>5. StagesRight'
    <3>1. turn'.at = "dead" => turn'.sid \in DOMAIN ing.mem /\ ing'.mem[turn'.sid].st = "dead"
      BY <1>2, <1>9, <2>2 DEF Buried
    <3>2. {s} \cap Queued' = {} /\ \A x \in {s} \cap InFlight' : ing'.disk[x].st \notin Replied
      BY <1>2, <1>6, <2>4
    <3> QED BY <1>3, <1>7, <1>8, <2>4, <3>1, <3>2, StagesStay
  <2>6. Unbegun' \subseteq Unbegun
    BY <2>2, <2>4 DEF Unbegun
  <2>7. RunsRight' /\ BoundRight'
    BY <1>1, <1>3, <2>2, <2>6, RunsStay, BoundStay DEF s
  <2>8. AnswersRight'
    <3>1. v3[s] # "selected"
      BY <1>1 DEF IInv, AnswersRight, s
    <3> QED BY <1>1, <1>3, <2>2, <2>6, <3>1 DEF IInv, AnswersRight, GoesOn
  <2>9. RepliesRight' /\ DeliveredIsWhole'
    BY <1>1, <1>3, <1>4, <1>6, <2>2, RepliesStay, DeliveredStays DEF Replied
  <2>10. VerdictsRight' /\ OneVerdict'
    BY <1>1, <1>3, <1>4, <1>7, <2>4, VerdictsStay, OneVerdictStays
  <2> QED BY <1>4, <1>5, <2>3, <2>4, <2>5, <2>7, <2>8, <2>9, <2>10 DEF IInv
<1>10. CASE ~Buried(s)
  <2>1. turn' = Idle
    BY <1>10 DEF DeadLetter, s
  <2>2. /\ s \notin InFlight'
        /\ ThreadsType' /\ (pump'.view # {} => pump'.ctl = "open" /\ pump'.phase = "sweep")
    BY <1>1, <2>1, TurnOver DEF s
  <2>3. {s} \cap Queued = {} /\ {s} \cap InFlight' = {}
    BY <1>2, <2>2
  <2>4. \A x \in bound.disk \ bound.mem : x = turn.sid => ing'.mem[x].st # "running" \/ ing'.blocked
    BY <1>3 DEF s
  <2>5. ing'.disk[s].st # "delivered"
    BY <1>6 DEF Replied
  <2> QED BY <1>1, <1>3, <1>4, <1>5, <1>6, <1>7, <1>8, <2>1, <2>2, <2>3, <2>4, <2>5, TickFrame
<1> QED BY <1>9, <1>10

(* The user is told of it.                                                    *)
LEMMA NoticeKeeps ==
  ASSUME IInv, TurnFailureNotice
  PROVE  IInv'
<1> DEFINE s == turn.sid
<1>1. /\ UNCHANGED <<ing, bound, v3, platform, inbox, pump, runs, half, raced, acked>>
      /\ turn.at = "dead" /\ turn' = Idle /\ box' \in Enqueue(Notice(s))
  BY DEF TurnFailureNotice, TurnAt, history
<1>2. /\ s \in DOMAIN ing.mem /\ s \in Sids /\ s \notin Queued /\ s \notin InFlight'
      /\ ThreadsType' /\ (pump'.view # {} => pump'.ctl = "open" /\ pump'.phase = "sweep")
  BY <1>1, TurnOver
<1>3. LedgerOrdered /\ BoxOrdered /\ ShownRight
  BY DEF IInv
<1>4. ing.mem[s].st = "dead" /\ ing.disk[s].st = "dead"
  BY <1>1, <1>2, <1>3 DEF IInv, StagesRight, LedgerOrdered, Ahead, CanTransition, Terminal
<1>5. ~HasReply(s)
  BY <1>1, <1>2 DEF IInv, AnswersRight, VerdictsRight
<1>6. GoesOn({}) /\ LedgerOrdered' /\ AckedIsKept'
  BY <1>1, <1>3, LedgerStays, AckStays DEF GoesOn
<1>7. BoxOrdered' /\ ShownRight' /\ Grown(Notice(s))
  <2>1. Notice(s) \in SUBSET Pieces
    BY <1>2, <1>3, PartsArePieces
  <2> QED BY <1>1, <1>3, <2>1, Entering
<1>8. /\ OnePlace' /\ StagesRight' /\ RunsRight' /\ BoundRight'
      /\ Queued' = Queued /\ InFlight' \subseteq InFlight /\ Unbegun' \subseteq Unbegun
  <2>1. \A x \in bound.disk \ bound.mem : x = turn.sid => ing'.mem[x].st # "running" \/ ing'.blocked
    BY <1>1, <1>4
  <2>2. /\ pump'.view \subseteq pump.view \cup Running
        /\ pump'.jobs = pump.jobs
        /\ \A x \in pump'.view : x \in pump.view
    BY <1>1
  <2> QED BY <1>1, <1>2, <1>6, <2>1, <2>2, PlacesFrame
<1> HIDE DEF s
<1>9. AnswersRight'
  BY <1>1, <1>6, <1>8, AnswersStay DEF Idle
<1>10. RepliesRight' /\ DeliveredIsWhole'
  BY <1>1, <1>6, <1>7, RepliesStay, DeliveredStays DEF Idle
<1>11. VerdictsRight' /\ OneVerdict'
  <2>1. raced' \subseteq Sids /\ raced \subseteq raced'
    BY <1>1 DEF IInv, VerdictsRight
  <2> QED BY <1>1, <1>2, <1>4, <1>5, <1>6, <1>7, <1>8, <2>1, NoticeTold
<1> QED BY <1>2, <1>6, <1>7, <1>8, <1>9, <1>10, <1>11 DEF IInv

-----------------------------------------------------------------------------
(* The end of a process.                                                      *)

(* A stop buries the jobs that were not begun.                                *)
LEMMA CloseKeeps ==
  ASSUME IInv, Close
  PROVE  IInv'
<1>1. /\ UNCHANGED <<bound, v3, box, platform, inbox, turn, runs, half, raced, acked>>
      /\ pump.ctl = "halted" \/ Ticking("pump")
      /\ ing' \in MoveToDeadLetter(Hired)
      /\ pump' = [pump EXCEPT !.ctl = "closing", !.jobs = <<>>]
  BY DEF Close, history, Hired, Elems
<1>2. ThreadsType /\ OnePlace /\ pump.view = {}
  BY <1>1 DEF IInv, OnePlace, Ticking
<1>3. /\ pump'.jobs = <<>> /\ pump'.view = {}
      /\ pump' \in [ctl : {"open", "halted", "closing"}, phase : {"pump", "sweep", "drive"},
                    view : SUBSET Nat, jobs : Seq(Nat)]
  <2>1. <<>> \in Seq(Nat) /\ {} \in SUBSET Nat
    BY NobodyIn
  <2>2. PICK q \in Seq(Nat) : q = <<>>
    BY <2>1
  <2> QED BY <1>1, <1>2, <2>2 DEF ThreadsType
<1>4. /\ Hired \in SUBSET DOMAIN ing.mem
      /\ Hired \cap Queued = {}
      /\ turn.sid \notin Hired
      /\ \A s \in Hired : s \notin bound.disk
  <2>1. Hired \subseteq InFlight /\ Hired \subseteq Unbegun
    BY PlacesFacts DEF Unbegun
  <2> QED BY <1>2, <2>1 DEF OnePlace, IInv, RunsRight
<1>5. /\ GoesOn(Hired)
      /\ \A s \in Hired : ing'.disk[s].st = ing.disk[s].st \/ ing'.disk[s].st = "dead"
  BY <1>1, <1>4, DeadLetters
<1>6. BoxOrdered' /\ ShownRight' /\ Grown({})
  BY <1>1, BoxStays DEF IInv
<1>7. /\ Queued' = Queued
      /\ Hired' = {}
      /\ InFlight' \subseteq {turn.sid}
      /\ InFlight' \subseteq InFlight
  <2>1. InFlight' = Hired' \cup ({turn'.sid} \ {0}) /\ InFlight = Hired \cup ({turn.sid} \ {0})
    BY DEF InFlight, Hired, Elems
  <2>2. Queued' = Queued /\ Hired' = {}
    BY <1>1, <1>3, NobodyIn DEF Queued, Hired
  <2> QED BY <1>1, <2>1, <2>2
<1>8. Unbegun' \subseteq Unbegun
  BY <1>1, <1>7 DEF Unbegun
<1>9. ThreadsType'
  BY <1>1, <1>2, <1>3 DEF ThreadsType
<1>10. OnePlace'
  <2>1. ASSUME NEW c \in Convs
        PROVE  Once(inbox'[c]) /\ \A s \in Elems(inbox'[c]) : Conv[ing'.mem[s].msg] = c
    BY <1>1, <1>2, <1>5, InboxStays DEF OnePlace
  <2>2. DOMAIN ing.mem \subseteq DOMAIN ing'.mem
    BY <1>5 DEF GoesOn
  <2>3. Once(pump'.jobs)
    BY <1>3, NobodyIn
  <2> QED BY <1>2, <1>3, <1>7, <2>1, <2>2, <2>3 DEF OnePlace
<1>11. StagesRight'
  <2>1. turn'.at = "dead" => turn'.sid \in DOMAIN ing.mem /\ ing'.mem[turn'.sid].st = "dead"
    BY <1>1, <1>5, PlacesFacts DEF IInv, StagesRight, GoesOn
  <2>2. /\ Hired \cap Queued' = {}
        /\ Hired \cap InFlight' = {}
        /\ pump'.view \subseteq pump.view \cup Running
    BY <1>3, <1>4, <1>7
  <2> QED BY <1>3, <1>5, <1>7, <2>1, <2>2, StagesStay
<1>12. RunsRight' /\ BoundRight'
  BY <1>1, <1>4, <1>5, <1>8, RunsStay, BoundStay
<1>13. AnswersRight'
  BY <1>1, <1>5, <1>8, AnswersStay
<1>14. RepliesRight' /\ DeliveredIsWhole'
  BY <1>1, <1>5, <1>6, RepliesStay, DeliveredStays DEF Replied
<1>15. VerdictsRight' /\ OneVerdict'
  <2>1. raced' \subseteq Sids
    BY <1>1 DEF IInv, VerdictsRight
  <2> QED BY <1>1, <1>5, <1>6, <1>7, <2>1, VerdictsStay, OneVerdictStays
<1>16. AckedIsKept' /\ LedgerOrdered'
  BY <1>1, <1>5, AckStays DEF GoesOn
<1> QED BY <1>6, <1>9, <1>10, <1>11, <1>12, <1>13, <1>14, <1>15, <1>16 DEF IInv

(* Nobody is anywhere in a process that has just started.                     *)
LEMMA StartsEmpty ==
  ASSUME IInv, Reloaded
  PROVE  /\ ThreadsType' /\ Queued' = {} /\ Hired' = {} /\ InFlight' = {} /\ Unbegun' = {}
         /\ OnePlace' /\ StagesRight'
<1>1. /\ inbox' = [c \in Convs |-> <<>>] /\ turn' = Idle
      /\ pump' = [ctl |-> "open", phase |-> "pump", view |-> {}, jobs |-> <<>>]
  BY DEF Reloaded
<1>2. /\ \A c \in Convs : inbox'[c] = <<>> /\ Once(inbox'[c]) /\ Elems(inbox'[c]) = {}
      /\ inbox' \in [Convs -> Seq(Nat)]
      /\ pump'.view = {} /\ pump'.jobs = <<>> /\ turn'.sid = 0 /\ turn'.at = "idle"
  BY <1>1, NobodyIn DEF Idle
<1>3. ThreadsType'
  BY <1>1, <1>2 DEF ThreadsType, Idle
<1>4. Queued' = {} /\ Hired' = {}
  BY <1>2, NobodyIn DEF Queued, Hired
<1>5. InFlight' = {} /\ Unbegun' = {}
  <2>1. InFlight' = Hired' \cup ({turn'.sid} \ {0})
    BY DEF InFlight, Hired, Elems
  <2> QED BY <1>2, <1>4, <2>1 DEF Unbegun
<1>6. OnePlace'
  BY <1>2, <1>4, <1>5, NobodyIn DEF OnePlace
<1>7. StagesRight'
  BY <1>2, <1>4, <1>5 DEF StagesRight
<1> QED BY <1>3, <1>4, <1>5, <1>6, <1>7

(* What late requests showed has its number.                                  *)
LEMMA LateShown ==
  ASSUME BoxOrdered, ShownRight, Reloaded
  PROVE  BoxOrdered' /\ ShownRight'
<1>1. /\ box' = [disk |-> box.disk, mem |-> box.disk, broken |-> FALSE]
      /\ flying' = [p \in Pieces |-> "no"]
  BY DEF Reloaded
<1>2. PICK late \in SUBSET {p \in Pieces : flying[p] = "out"} :
        taken' = taken \cup UNION {Shows(p, Item(p).seat) : p \in late}
  BY DEF Reloaded
<1>3. BoxOrdered'
  <2>1. box.disk \in [Pieces -> BoxItem]
    BY DEF BoxOrdered
  <2>2. box' \in [disk : [Pieces -> BoxItem], mem : [Pieces -> BoxItem], broken : BOOLEAN]
    BY <1>1, <2>1
  <2> QED BY <1>1, <2>2 DEF BoxOrdered
<1>4. ASSUME NEW t \in taken', t \notin taken
      PROVE  t \in Pieces \X Nat /\ t[2] = box.disk[t[1]].seat /\ t[2] # 0
  <2>1. PICK p \in late : t \in Shows(p, Item(p).seat)
    BY <1>2, <1>4
  <2>2. p \in Pieces /\ flying[p] # "no"
    OBVIOUS
  <2>3. t = <<p, box.disk[p].seat>> /\ box.disk[p].seat # 0 /\ box.disk[p].seat \in Nat
    BY <2>1, <2>2, ShowsRight
  <2> QED BY <2>2, <2>3
<1>5. taken \subseteq taken' /\ taken' \subseteq Pieces \X Nat
  BY <1>2, <1>4 DEF ShownRight
<1>6. \A t \in taken' : t[2] = box'.disk[t[1]].seat /\ t[2] # 0
  BY <1>1, <1>4 DEF ShownRight
<1>7. \A p \in Pieces : flying'[p] = "no"
  BY <1>1
<1>8. \A p \in Pieces : flying'[p] = "taken" \/ box'.disk[p].st = "sent" =>
        <<p, box'.disk[p].seat>> \in taken'
  BY <1>1, <1>5, <1>7 DEF ShownRight
<1>9. flying' \in [Pieces -> {"no", "out", "taken"}]
  BY <1>1
<1> QED BY <1>3, <1>5, <1>6, <1>7, <1>8, <1>9 DEF ShownRight

(* The next process knows what is on disk.                                    *)
LEMMA ReloadedKeeps ==
  ASSUME IInv, Reloaded
  PROVE  IInv'
<1>1. /\ ing' = [disk |-> ing.disk, mem |-> ing.disk, blocked |-> FALSE]
      /\ bound' = [disk |-> bound.disk, mem |-> bound.disk, broken |-> FALSE]
      /\ box' = [disk |-> box.disk, mem |-> box.disk, broken |-> FALSE]
      /\ UNCHANGED <<v3, runs, half, raced, acked>>
  BY DEF Reloaded, history
<1>2. LedgerOrdered /\ BoxOrdered /\ ShownRight /\ BoundRight
  BY DEF IInv
<1>3. LedgerOrdered'
  BY <1>1, <1>2, LedgerFacts DEF LedgerOrdered, Ahead
<1>4. BoxOrdered' /\ ShownRight'
  BY <1>2, LateShown
<1>5. ThreadsType' /\ Queued' = {} /\ InFlight' = {} /\ Unbegun' = {} /\ OnePlace' /\ StagesRight'
  BY StartsEmpty
<1>6. DOMAIN ing.mem \subseteq DOMAIN ing.disk
  BY <1>2, LedgerFacts
<1>7. RunsRight'
  BY <1>1, <1>5 DEF IInv, RunsRight
<1>8. BoundRight'
  BY <1>1, <1>2, <1>6 DEF BoundRight
<1>9. turn' = Idle
  BY DEF Reloaded
<1>10. AnswersRight'
  BY <1>1, <1>5, <1>6, <1>9 DEF IInv, AnswersRight, Idle
<1>11. RepliesRight'
  <2>1. ASSUME NEW s \in DOMAIN ing.disk, ing.disk[s].st \in Replied, s \notin half
        PROVE  Whole(s)'
    <3>1. s \in DOMAIN ing.mem /\ ing.mem[s].msg = ing.disk[s].msg
      BY <1>2, <2>1 DEF LedgerOrdered, Replied
    <3>2. Reply(s)' = Reply(s) /\ Reply(s) \subseteq Pieces
      BY <1>1, <1>2, <3>1, PartsArePieces DEF Reply
    <3>3. Whole(s)
      BY <2>1, <3>1 DEF IInv, RepliesRight
    <3> QED BY <1>1, <1>2, <3>2, <3>3 DEF Whole, BoxOrdered
  <2> QED BY <1>1, <1>9, <2>1 DEF IInv, RepliesRight, Idle
<1>12. \A s \in Sids : HasReply(s)' = HasReply(s) /\ HasNotice(s)' = HasNotice(s)
  BY <1>1 DEF HasReply, HasNotice
<1>13. VerdictsRight' /\ OneVerdict'
  <2>1. VerdictsRight'
    BY <1>1, <1>5, <1>6, <1>12 DEF IInv, VerdictsRight
  <2>2. bound.disk \subseteq Sids
    BY <1>2, LedgerFacts DEF BoundRight
  <2> QED BY <1>1, <1>12, <2>1, <2>2 DEF IInv, OneVerdict
<1>14. AckedIsKept' /\ DeliveredIsWhole'
  BY <1>1 DEF IInv, AckedIsKept, DeliveredIsWhole
<1> QED BY <1>3, <1>4, <1>5, <1>7, <1>8, <1>10, <1>11, <1>13, <1>14 DEF IInv

-----------------------------------------------------------------------------
(* The invariant and what follows from it.                                    *)

(* It holds at the beginning.                                                 *)
LEMMA InitRight == Init => IInv
<1> SUFFICES ASSUME Init PROVE IInv
  OBVIOUS
<1>1. LedgerOrdered /\ DOMAIN ing.mem = {} /\ DOMAIN ing.disk = {}
  BY DEF Init, LedgerOrdered
<1>2. ThreadsType
  BY DEF Init, ThreadsType, Idle
<1>3. Queued = {} /\ Hired = {} /\ InFlight = {} /\ Unbegun = {}
  <2>1. Queued = {} /\ Hired = {}
    BY NobodyIn DEF Init, Queued, Hired
  <2>2. InFlight = Hired \cup ({turn.sid} \ {0})
    BY DEF InFlight, Hired, Elems
  <2> QED BY <2>1, <2>2 DEF Init, Idle, Unbegun
<1>4. OnePlace /\ StagesRight
  BY <1>3, NobodyIn DEF Init, OnePlace, StagesRight, Idle
<1>5. RunsRight /\ BoundRight /\ AnswersRight
  BY <1>1, <1>3 DEF Init, RunsRight, BoundRight, AnswersRight, Idle
<1>6. BoxOrdered
  <2>1. NoItem \in BoxItem /\ NoItem.st = "none" /\ NoItem.seat = 0
    BY DEF NoItem, BoxItem
  <2> QED BY <2>1 DEF Init, BoxOrdered
<1>7. ShownRight
  BY DEF Init, ShownRight, NoItem
<1>8. RepliesRight
  BY <1>1 DEF Init, RepliesRight, Idle
<1>9. \A s \in Sids : ~HasReply(s) /\ ~HasNotice(s)
  BY SidPieces DEF Init, HasReply, HasNotice, InBox, NoItem
<1>10. VerdictsRight /\ AckedIsKept /\ DeliveredIsWhole /\ OneVerdict
  BY <1>1, <1>9 DEF Init, VerdictsRight, AckedIsKept, DeliveredIsWhole, OneVerdict
<1> QED BY <1>1, <1>2, <1>4, <1>5, <1>6, <1>7, <1>8, <1>10 DEF IInv

(* Every step keeps it.                                                       *)
LEMMA StepKeeps == IInv /\ [Next]_vars => IInv'
<1> SUFFICES ASSUME IInv, [Next]_vars PROVE IInv'
  OBVIOUS
<1>1. CASE UNCHANGED vars
  <2>1. UNCHANGED <<ing, bound, v3, box, platform, inbox, pump, turn, runs, half, raced, acked>>
    BY <1>1 DEF vars, books, threads, history
  <2>2. LedgerOrdered /\ BoxOrdered /\ ShownRight /\ ThreadsType
    BY DEF IInv
  <2>3. GoesOn({}) /\ AckedIsKept'
    BY <2>1, <2>2, LedgerStays, AckStays
  <2>4. BoxOrdered' /\ ShownRight' /\ Grown({})
    BY <2>1, <2>2, BoxStays
  <2>5. ThreadsType' /\ (pump'.view # {} => pump'.ctl = "open" /\ pump'.phase = "sweep")
    BY <2>1 DEF IInv, ThreadsType, OnePlace
  <2> QED BY <2>1, <2>3, <2>4, <2>5, QuietStep
<1>2. CASE \E m \in Mails : Duplicate(m) \/ Inbound(m)
  BY <1>2, DuplicateKeeps, InboundKeeps
<1>3. CASE \E p \in Pieces : \/ Accepted(p) \/ RateLimited(p) \/ Rejected(p) \/ Expire(p)
                             \/ Exhaust(p) \/ Send(p) \/ SendBreaks(p) \/ Take(p)
  BY <1>3, PlatformKeeps
<1>4. CASE Reconcile \/ PassOver \/ Recover \/ ClaimNone \/ TickEnds
  BY <1>4, ReconcileKeeps, RecoverKeeps, PumpKeeps
<1>5. CASE \E c \in Convs : Revoke(c) \/ Claim(c)
  BY <1>5, RevokeKeeps, ClaimKeeps
<1>6. CASE Start \/ Begin \/ Answer \/ Select \/ Fail \/ EnqueueReply
  BY <1>6, StartKeeps, BeginKeeps, TurnKeeps, EnqueueReplyKeeps
<1>7. CASE SettleReplied \/ DeadLetter \/ TurnFailureNotice \/ Close
  BY <1>7, SettleKeeps, DeadLetterKeeps, NoticeKeeps, CloseKeeps
<1>8. CASE Restart \/ Crash
  <2>1. Reloaded
    BY <1>8 DEF Restart, Crash
  <2> QED BY <2>1, ReloadedKeeps
<1> QED BY <1>1, <1>2, <1>3, <1>4, <1>5, <1>6, <1>7, <1>8 DEF Next

(* It holds throughout.                                                       *)
THEOREM InvariantHolds == Spec => []IInv
BY InitRight, StepKeeps, PTL DEF Spec

(* What the sidecar need not send again is on the books, for good.            *)
THEOREM AckedIsKeptHolds == Spec => []AckedIsKept
<1>1. IInv => AckedIsKept
  BY DEF IInv
<1> QED BY <1>1, InvariantHolds, PTL

(* A message is given to the model once, however often it is delivered and    *)
(* whatever dies in between.                                                  *)
THEOREM RunsOnceHolds == Spec => []RunsOnce
<1>1. IInv => RunsOnce
  BY DEF IInv, RunsRight, RunsOnce
<1> QED BY <1>1, InvariantHolds, PTL

(* No piece is shown twice, and what is called sent was shown.                *)
THEOREM ShownOnceHolds == Spec => []ShownOnce
<1>1. ASSUME IInv, NEW p \in Pieces
      PROVE  LET shown == Cardinality({t \in taken : t[1] = p})
             IN shown <= 1 /\ (box.disk[p].st = "sent" => shown = 1)
  <2> DEFINE one == <<p, box.disk[p].seat>>
             T == {t \in taken : t[1] = p}
  <2>1. \A t \in T : t = one
    <3>1. \A t \in taken : t \in Pieces \X Nat /\ t[2] = box.disk[t[1]].seat
      BY <1>1 DEF IInv, ShownRight
    <3> QED BY <3>1
  <2>2. box.disk[p].st = "sent" => one \in T
    BY <1>1 DEF IInv, ShownRight
  <2> HIDE DEF one, T
  <2>3. CASE T = {}
    BY <2>2, <2>3, FS_EmptySet DEF T
  <2>4. CASE T = {one}
    <3>1. Cardinality(T) = 1
      BY <2>4, FS_Singleton
    <3> QED BY <3>1 DEF T
  <2> QED BY <2>1, <2>3, <2>4
<1>2. IInv => ShownOnce
  BY <1>1 DEF ShownOnce
<1> QED BY <1>2, InvariantHolds, PTL

(* A message the ingress ledger calls delivered has its whole reply sent,     *)
(* unless the box broke within the reply.                                     *)
THEOREM DeliveredIsWholeHolds == Spec => []DeliveredIsWhole
<1>1. IInv => DeliveredIsWhole
  BY DEF IInv
<1> QED BY <1>1, InvariantHolds, PTL

(* The user gets a reply or a notice of failure, never both, as long as the   *)
(* binding was written and the sweep met the message while it was running.    *)
THEOREM OneVerdictHolds == Spec => []OneVerdict
<1>1. IInv => OneVerdict
  BY DEF IInv
<1> QED BY <1>1, InvariantHolds, PTL

-----------------------------------------------------------------------------
(* Why the pump halts.                                                        *)

(* Whom the sweep met late is over for good, and is not listed again; who is  *)
(* listed was begun.                                                          *)
Over == {"replied", "delivered", "undelivered", "dead"}
SweepRight ==
  /\ raced \subseteq DOMAIN ing.mem /\ raced \cap pump.view = {}
  /\ \A s \in raced : ing.mem[s].st \in Over
  /\ \A s \in pump.view : ing.mem[s].st \in Over \cup {"running"}

(* While a process lives its ledger goes on.                                  *)
LEMMA LedgerGoesOn ==
  ASSUME IInv, [Next]_vars, ~Reloaded
  PROVE  \E S : GoesOn(S)
<1>1. LedgerOrdered
  BY DEF IInv
<1>2. CASE ing' = ing
  BY <1>1, <1>2, LedgerStays
<1>3. CASE \E m \in Mails : Duplicate(m)
  <2>1. PICK m \in Mails : Duplicate(m)
    BY <1>3
  <2>2. /\ ing'.disk = ing.disk /\ ing'.mem = ing.mem /\ ing'.blocked \in BOOLEAN
        /\ ing.blocked => ing'.blocked
        /\ ing' = [disk |-> ing'.disk, mem |-> ing'.mem, blocked |-> ing'.blocked]
    BY <1>1, <2>1 DEF Duplicate, LedgerOrdered
  <2> QED BY <1>1, <2>2, SameGoesOn
<1>4. CASE \E m \in Mails : Inbound(m)
  BY <1>4, InboundFacts
<1>5. CASE Reconcile
  <2>1. ing' = ing \/ ing' \in Lines(Closing)
    BY <1>5 DEF Reconcile
  <2> QED BY <1>2, <2>1, ClosingFacts, WrittenDown
<1>6. CASE Recover
  <2>1. Listed \in DOMAIN ing.mem
    BY <1>6, ListedFacts
  <2>2. ing' = ing \/ ing' \in MoveToDeadLetter({Listed}) \/ ing' \in Transition(Listed, "replied")
    BY <1>6 DEF Recover, GiveUp, Complete
  <2>3. {Listed} \in SUBSET DOMAIN ing.mem /\ "replied" \in States
    BY <2>1 DEF States
  <2> QED BY <1>2, <2>1, <2>2, <2>3, DeadLetters, TransitionStep
<1>7. CASE \E c \in Convs : Revoke(c) \/ Claim(c)
  <2>1. PICK c \in Convs : Revoke(c) \/ Claim(c)
    BY <1>7
  <2>2. Head(inbox[c]) \in DOMAIN ing.mem /\ "rejected" \in States /\ "running" \in States
    BY <2>1, InboxHead DEF Revoke, Claim, States
  <2>3. ing' \in Transition(Head(inbox[c]), "rejected") \/ ing' \in Transition(Head(inbox[c]),
                                                                               "running")
    BY <2>1 DEF Revoke, Claim
  <2> QED BY <2>2, <2>3, TransitionStep
<1>8. CASE SettleReplied \/ DeadLetter
  <2>1. turn.sid \in DOMAIN ing.mem /\ {turn.sid} \in SUBSET DOMAIN ing.mem /\ "replied" \in States
    BY <1>8, PlacesFacts DEF SettleReplied, DeadLetter, TurnAt, States
  <2>2. ing' \in Transition(turn.sid, "replied") \/ ing' \in MoveToDeadLetter({turn.sid})
    BY <1>8 DEF SettleReplied, DeadLetter
  <2> QED BY <2>1, <2>2, DeadLetters, TransitionStep
<1>9. CASE Close
  <2>1. Hired \in SUBSET DOMAIN ing.mem /\ ing' \in MoveToDeadLetter(Hired)
    BY <1>9, PlacesFacts DEF Close, Hired, Elems
  <2> QED BY <2>1, DeadLetters
<1>10. CASE UNCHANGED vars \/ PassOver \/ ClaimNone \/ TickEnds \/ Start \/ Begin \/ Answer \/ Select \/ Fail
            \/ EnqueueReply \/ TurnFailureNotice
  <2>1. ing' = ing
    BY <1>10 DEF vars, books, PassOver, ClaimNone, TickEnds, Start, Begin, Answer, Select, Fail,
       EnqueueReply, TurnFailureNotice
  <2> QED BY <1>2, <2>1
<1>11. CASE \E p \in Pieces : \/ Accepted(p) \/ RateLimited(p) \/ Rejected(p) \/ Expire(p)
                              \/ Exhaust(p) \/ Send(p) \/ SendBreaks(p) \/ Take(p)
  <2>1. ing' = ing
    BY <1>11 DEF Accepted, RateLimited, Rejected, Expire, Exhaust, Send, SendBreaks, Take, books
  <2> QED BY <1>2, <2>1
<1> QED BY <1>3, <1>4, <1>5, <1>6, <1>7, <1>8, <1>9, <1>10, <1>11 DEF Next, Restart, Crash

(* What is over stays over, and what was begun does not wait again.           *)
LEMMA OverStays ==
  ASSUME LedgerOrdered, NEW S, GoesOn(S), NEW s \in DOMAIN ing.mem
  PROVE  /\ s \in DOMAIN ing'.mem
         /\ ing.mem[s].st \in Over => ing'.mem[s].st \in Over
         /\ ing.mem[s].st \in Over \cup {"running"} => ing'.mem[s].st \in Over \cup {"running"}
<1>1. Ahead(ing.mem[s].st, ing'.mem[s].st) /\ s \in DOMAIN ing'.mem
  BY DEF GoesOn
<1> QED BY <1>1 DEF Ahead, CanTransition, Over, Terminal

(* The sweep lists who runs; else nobody is added to the list or to the late. *)
LEMMA ListsAndLate ==
  ASSUME IInv, [Next]_vars
  PROVE  \/ Recover
         \/ raced' = raced /\ pump'.view \subseteq pump.view
         \/ raced' = raced /\ pump'.view = Running
<1>1. ThreadsType
  BY DEF IInv
<1>2. CASE UNCHANGED vars
  BY <1>2 DEF vars, threads, history
<1>3. CASE \E m \in Mails : Duplicate(m) \/ Inbound(m)
  BY <1>3 DEF Duplicate, Inbound, threads, history
<1>4. CASE \E p \in Pieces : \/ Accepted(p) \/ RateLimited(p) \/ Rejected(p) \/ Expire(p)
                             \/ Exhaust(p) \/ Send(p) \/ Take(p)
  BY <1>4 DEF Accepted, RateLimited, Rejected, Expire, Exhaust, Send, Take, threads, history
<1>5. CASE \E p \in Pieces : SendBreaks(p)
  BY <1>1, <1>5 DEF SendBreaks, history, Halt, ThreadsType
<1>6. CASE Reconcile
  BY <1>1, <1>6 DEF Reconcile, history, Halt, To, ThreadsType
<1>7. CASE PassOver \/ ClaimNone \/ TickEnds
  BY <1>1, <1>7 DEF PassOver, ClaimNone, TickEnds, history, Halt, To, Swept, ThreadsType
<1>8. CASE \E c \in Convs : Revoke(c) \/ Claim(c)
  <2>1. raced' = raced
    BY <1>8 DEF Revoke, Claim, history
  <2>2. pump' = pump \/ \E q : pump' = [To("drive") EXCEPT !.jobs = q]
    BY <1>8 DEF Revoke, Claim
  <2> QED BY <1>1, <2>1, <2>2 DEF To, ThreadsType
<1>9. CASE Start \/ Begin \/ Answer \/ Select \/ Fail \/ EnqueueReply \/ SettleReplied \/ DeadLetter \/ TurnFailureNotice
  <2>1. raced' = raced
    BY <1>9 DEF Start, Begin, Answer, Select, Fail, EnqueueReply, SettleReplied, DeadLetter,
       TurnFailureNotice, history
  <2>2. pump' = pump \/ \E q : pump' = [pump EXCEPT !.jobs = q]
    BY <1>9 DEF Start, Begin, Answer, Select, Fail, EnqueueReply, SettleReplied, DeadLetter,
       TurnFailureNotice
  <2> QED BY <1>1, <2>1, <2>2 DEF ThreadsType
<1>10. CASE Close
  <2>1. raced' = raced /\ \E q : pump' = [pump EXCEPT !.ctl = "closing", !.jobs = q]
    BY <1>10 DEF Close, history
  <2> QED BY <1>1, <2>1 DEF ThreadsType
<1>11. CASE Restart \/ Crash
  BY <1>11 DEF Restart, Crash, Reloaded, history
<1> QED BY <1>2, <1>3, <1>4, <1>5, <1>6, <1>7, <1>8, <1>9, <1>10, <1>11 DEF Next

(* Every step keeps the sweep right.                                          *)
LEMMA SweepKeeps ==
  ASSUME IInv, SweepRight, [Next]_vars
  PROVE  SweepRight'
<1>1. LedgerOrdered /\ pump.view \subseteq DOMAIN ing.mem
  BY DEF IInv, OnePlace
<1>2. CASE Reloaded
  <2>1. ing'.mem = ing.disk /\ raced' = raced /\ pump'.view = {}
    BY <1>2 DEF Reloaded, history
  <2>2. \A s \in raced : s \in DOMAIN ing.disk /\ ing.disk[s].st \in Over
    BY <1>1, LedgerFacts DEF SweepRight, LedgerOrdered, Ahead, CanTransition, Over, Terminal
  <2> QED BY <2>1, <2>2 DEF SweepRight
<1>3. CASE ~Reloaded
  <2>1. \A s \in DOMAIN ing.mem :
          /\ s \in DOMAIN ing'.mem
          /\ ing.mem[s].st \in Over => ing'.mem[s].st \in Over
          /\ ing.mem[s].st \in Over \cup {"running"} => ing'.mem[s].st \in Over \cup {"running"}
    <3>1. PICK S : GoesOn(S)
      BY <1>3, LedgerGoesOn
    <3> QED BY <1>1, <3>1, OverStays
  <2>2. CASE Recover
    <3>1. /\ Listed \in pump.view /\ raced' = Stale(Listed)
          /\ pump' \in {Swept, Halt}
      BY <2>2, ListedFacts DEF Recover, GiveUp, Complete
    <3>2. pump'.view \subseteq pump.view /\ Listed \notin pump'.view
      BY <2>2, <3>1, SweptRight
    <3>3. raced' \subseteq raced \cup {Listed} /\ (Listed \in raced' => ing.mem[Listed].st \in Over)
      BY <3>1 DEF Stale, SweepRight
    <3> QED BY <1>1, <2>1, <3>1, <3>2, <3>3 DEF SweepRight
  <2>3. CASE raced' = raced /\ pump'.view \subseteq pump.view
    BY <1>1, <2>1, <2>3 DEF SweepRight
  <2>4. CASE raced' = raced /\ pump'.view = Running
    <3>1. \A s \in Running : s \in DOMAIN ing.mem /\ ing.mem[s].st = "running"
      BY DEF Running
    <3>2. raced \cap Running = {}
      BY <3>1 DEF SweepRight, Over
    <3> QED BY <2>1, <2>4, <3>1, <3>2 DEF SweepRight
  <2> QED BY <2>2, <2>3, <2>4, ListsAndLate
<1> QED BY <1>2, <1>3

(* The pump halts on a ledger that broke, or on a message it met late.        *)
LEMMA HaltsRight ==
  ASSUME IInv, SweepRight, [Next]_vars, Halts
  PROVE  ing'.blocked \/ box'.broken \/ raced' # raced
<1>1. ThreadsType /\ LedgerOrdered /\ BoxOrdered
  BY DEF IInv
<1>2. CASE Recover
  <2> DEFINE s == Listed
  <2>1. /\ s \in DOMAIN ing.mem /\ s \in pump.view /\ pump.ctl = "open"
        /\ ing.mem[s].st # "running" => s \in raced'
    BY <1>2, ListedFacts
  <2>2. s \notin raced
    BY <2>1 DEF SweepRight
  <2>3. pump' # Swept
    BY <1>1, <2>1 DEF Halts, Swept, ThreadsType
  <2>4. CASE GiveUp(s)
    <3>1. ing' \in MoveToDeadLetter({s}) /\ ~Buried(s) /\ {s} \in SUBSET DOMAIN ing.mem
      BY <2>1, <2>3, <2>4 DEF GiveUp
    <3>2. /\ ing'.mem[s].st = ing.mem[s].st \/ (ing'.mem[s].st = "dead" /\ ing'.disk[s].st = "dead")
          /\ ing'.mem[s].st # "running" \/ ing'.blocked
      BY <3>1, DeadLetters
    <3>3. ing.mem[s].st # "running" \/ ing'.blocked
      BY <3>1, <3>2 DEF Buried
    <3> QED BY <2>1, <2>2, <3>3
  <2>5. CASE Complete(s)
    <3>1. CASE Refused(Reply(s))
      <4>1. box' \in Enqueue(Reply(s)) /\ Reply(s) \subseteq Pieces /\ Reply(s) # {}
        BY <1>1, <2>1, <2>5, PartsArePieces DEF Complete
      <4>2. PICK p \in Reply(s) : box'.mem[p].st = "none" /\ p \in Pieces
        BY <3>1, <4>1 DEF Refused
      <4>3. BoxOrdered' /\ Grown(Reply(s))
        BY <1>1, <4>1, EnqueueStep
      <4>4. p \in New(Reply(s))
        BY <4>2, <4>3 DEF Grown, New, Item
      <4>5. ASSUME ~box.broken, box' = [box EXCEPT !.disk = Entered(@, New(Reply(s))),
                                        !.mem = Entered(@, New(Reply(s)))]
            PROVE  FALSE
        <5>1. box'.mem = Entered(box.mem, New(Reply(s)))
          BY <1>1, <4>5, BoxFacts
        <5>2. box'.mem[p].st = "pending"
          BY <4>2, <4>4, <5>1 DEF Entered, NoItem
        <5> QED BY <4>2, <5>2
      <4>6. CASE box.broken
        <5>1. box' = box
          BY <4>1, <4>6 DEF Enqueue
        <5> QED BY <4>6, <5>1
      <4>7. CASE \E q \in New(Reply(s)), last \in BOOLEAN :
                   box' = [disk |-> Entered(box.disk,
                                            Before(q, Reply(s)) \cup (IF last THEN {q} ELSE {})),
                           mem |-> Entered(box.mem, Before(q, Reply(s))), broken |-> TRUE]
        BY <4>7
      <4> QED BY <4>1, <4>4, <4>5, <4>6, <4>7 DEF Enqueue
    <3>2. CASE ~Refused(Reply(s))
      BY <2>3, <2>5, <3>2 DEF Complete
    <3> QED BY <3>1, <3>2
  <2> QED BY <1>2, <2>4, <2>5 DEF Recover
<1>3. CASE Reconcile \/ TickEnds
  BY <1>1, <1>3 DEF Reconcile, TickEnds, Halts, To, ThreadsType, books
<1>4. CASE \E p \in Pieces : SendBreaks(p)
  <2>1. PICK p \in Pieces : SendBreaks(p)
    BY <1>4
  <2>2. CASE \E item \in {Item(p), Seated(p)} : box' = [box EXCEPT !.disk[p] = item,
                                                        !.broken = TRUE]
    <3>1. box'.broken = TRUE
      BY <1>1, <2>2, BoxFacts
    <3> QED BY <3>1
  <2>3. CASE \E item \in {Seated(p), Attempted(p)} :
               box' = [disk |-> [box.disk EXCEPT ![p] = item],
                       mem |-> [box.mem EXCEPT ![p] = Seated(p)], broken |-> TRUE]
    BY <2>3
  <2> QED BY <2>1, <2>2, <2>3 DEF SendBreaks
<1>5. CASE UNCHANGED vars
  BY <1>5 DEF vars, threads, Halts
<1>6. CASE \E m \in Mails : Duplicate(m) \/ Inbound(m)
  BY <1>6 DEF Duplicate, Inbound, threads, Halts
<1>7. CASE \E p \in Pieces : \/ Accepted(p) \/ RateLimited(p) \/ Rejected(p) \/ Expire(p)
                             \/ Exhaust(p) \/ Send(p) \/ Take(p)
  BY <1>7 DEF Accepted, RateLimited, Rejected, Expire, Exhaust, Send, Take, threads, Halts
<1>8. CASE PassOver \/ ClaimNone
  BY <1>1, <1>8 DEF PassOver, ClaimNone, To, Swept, ThreadsType, Halts
<1>9. CASE \E c \in Convs : Revoke(c) \/ Claim(c)
  <2>1. pump' = pump \/ \E q : pump' = [To("drive") EXCEPT !.jobs = q]
    BY <1>9 DEF Revoke, Claim
  <2> QED BY <1>1, <2>1 DEF To, ThreadsType, Halts
<1>10. CASE Start \/ Begin \/ Answer \/ Select \/ Fail \/ EnqueueReply \/ SettleReplied \/ DeadLetter \/ TurnFailureNotice
  <2>1. pump' = pump \/ \E q : pump' = [pump EXCEPT !.jobs = q]
    BY <1>10 DEF Start, Begin, Answer, Select, Fail, EnqueueReply, SettleReplied, DeadLetter,
       TurnFailureNotice
  <2> QED BY <1>1, <2>1 DEF ThreadsType, Halts
<1>11. CASE Close
  <2>1. \E q : pump' = [pump EXCEPT !.ctl = "closing", !.jobs = q]
    BY <1>11 DEF Close
  <2> QED BY <1>1, <2>1 DEF ThreadsType, Halts
<1>12. CASE Restart \/ Crash
  BY <1>12 DEF Restart, Crash, Reloaded, Halts
<1> QED BY <1>2, <1>3, <1>4, <1>5, <1>6, <1>7, <1>8, <1>9, <1>10, <1>11, <1>12 DEF Next

(* The pump halts because a ledger broke, or because the sweep came late.     *)
THEOREM HaltsOnlyBrokenHolds == Spec => HaltsOnlyBroken
<1>1. Init => SweepRight
  BY DEF Init, SweepRight
<1>2. IInv /\ SweepRight /\ [Next]_vars => SweepRight'
  BY SweepKeeps
<1>3. Spec => []SweepRight
  BY <1>1, <1>2, InvariantHolds, PTL DEF Spec
<1>4. IInv /\ SweepRight /\ [Next]_vars => [Halts =>
                                            ing'.blocked \/ box'.broken \/ raced' # raced]_vars
  BY HaltsRight
<1> QED BY <1>3, <1>4, InvariantHolds, PTL DEF Spec, HaltsOnlyBroken
=============================================================================
