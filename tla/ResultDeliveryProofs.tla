------------------------ MODULE ResultDeliveryProofs --------------------------
(***************************************************************************)
(* Proofs about ResultDelivery for any set of jobs and any bounds.  The    *)
(* inductive invariant says where a call stands: what is in the mailbox    *)
(* has no message yet (or the writer is broken), what is in flight has     *)
(* one, is in the conversation and is not closed for the request it was    *)
(* prepared for, and the request ids on the ledger are those issued.       *)
(***************************************************************************)
EXTENDS ResultDelivery, TLAPS

(* Where a call stands between the mailbox and the tool message.           *)
StagesApart ==
  /\ \A j \in Job: message[j] <= 1
  /\ \A j \in Job: known[j] = "open" =>
       message[j] = 0 /\ j \notin mailbox /\ j \notin flight
  /\ \A j \in mailbox: message[j] = 0 \/ broken

(* The conversation is the context chain, and holds all that is in flight. *)
Conversation ==
  /\ context = admitted
  /\ flight \subseteq context

(* A step under way has an attempt left, and a request that was prepared   *)
(* has its id.                                                             *)
LoopInOrder ==
  /\ pc = "step" => tries < MaxAttempts
  /\ pc \in {"ready", "sent"} \/ tries > 0 => request > 0

(* Requests on the ledger are those issued; the present one is among them. *)
RequestsIssued ==
  /\ \A p \in prepared: p[2] <= issued
  /\ request <= issued

(* A delivery in flight is open for the request it was prepared for.       *)
FlightOpen ==
  \A j \in flight: target[j] # 0 =>
    /\ <<j, target[j]>> \in prepared
    /\ <<j, target[j]>> \notin acked
    /\ <<j, target[j]>> \notin unsure

(* A request that can go out has all deliveries in flight on the books.    *)
BooksReady ==
  pc = "sent" \/ (pc = "ready" /\ ~broken) =>
    \A j \in flight: target[j] # 0

IInv ==
  /\ TypeOK
  /\ StagesApart
  /\ Conversation
  /\ LoopInOrder
  /\ RequestsIssued
  /\ FlightOpen
  /\ BooksReady
  /\ ClosedWerePrepared
  /\ AcknowledgedWasAnswered
  /\ OwedIsKept

-----------------------------------------------------------------------------
(* Types, with what they need to know of the loop.                         *)
TypeInv == TypeOK /\ LoopInOrder

(* What writing the pairing chain does to the types.                       *)
LEMMA DeliverTypes ==
  ASSUME TypeOK,
         NEW S \in SUBSET Job, NEW sel \in SUBSET Job, NEW msg \in SUBSET Job,
         Deliver(S, sel, msg)
  PROVE  /\ selected' \in [Job -> Nat]
         /\ message' \in [Job -> Nat]
         /\ admitted' \subseteq Job
         /\ mailbox' \subseteq Job
         /\ flight' \subseteq Job
         /\ target' \in [Job -> 0..MaxRequest]
         /\ context' \subseteq Job
<1>1. \A n \in Nat: n + 1 \in Nat
  OBVIOUS
<1>2. selected' \in [Job -> Nat] /\ message' \in [Job -> Nat]
  BY <1>1 DEF Deliver, TypeOK
<1>3. target' \in [Job -> 0..MaxRequest]
  BY BoundsAssumption DEF Deliver, TypeOK
<1> QED BY <1>2, <1>3 DEF Deliver, Leaves, Pushed, TypeOK

(* The set of calls whose chain a boundary writes, and the call it breaks  *)
(* at.                                                                     *)
LEMMA SelectDelivers ==
  ASSUME TypeOK, Select \/ SelectBreaks
  PROVE  \E S, sel, msg \in SUBSET Job:
           /\ Deliver(S, sel, msg)
           /\ S \cup sel \cup msg \subseteq mailbox
           /\ S # {} \/ msg # {} => ~broken
           /\ msg # {} => broken'
<1>1. CASE Select
  BY <1>1 DEF Select, Deliverable, TypeOK
<1>2. CASE SelectBreaks
  <2>0. PICK f \in Deliverable: \E S \in SUBSET (Deliverable \ {f}):
          Deliver(S, {}, {}) \/ Deliver(S, {f}, {}) \/ Deliver(S, {f}, {f})
    BY <1>2 DEF SelectBreaks
  <2>1. PICK S \in SUBSET (Deliverable \ {f}):
          Deliver(S, {}, {}) \/ Deliver(S, {f}, {}) \/ Deliver(S, {f}, {f})
    BY <2>0
  <2>2. S \subseteq mailbox /\ f \in mailbox /\ mailbox \subseteq Job
    BY <2>1 DEF Deliverable, TypeOK
  <2>3. ~broken /\ broken'
    BY <1>2 DEF SelectBreaks
  <2> QED BY <2>1, <2>2, <2>3
<1> QED BY <1>1, <1>2

-----------------------------------------------------------------------------
(* The initial state is well typed.                                        *)
LEMMA InitTypes == Init => TypeInv
<1> SUFFICES ASSUME Init PROVE TypeInv
  OBVIOUS
<1>1. 0 \in 0..MaxRequest /\ 0 \in 0..MaxAttempts /\ 0 \in 0..MaxCrashes
  BY BoundsAssumption
<1>2. /\ result \in [Job -> {"running", "done", "bare"}]
      /\ selected \in [Job -> Nat] /\ message \in [Job -> Nat]
      /\ known \in [Job -> {"open", "told", "gone"}]
  BY DEF Init
<1>3. target \in [Job -> 0..MaxRequest]
  BY <1>1 DEF Init
<1>4. LoopInOrder
  BY DEF Init, LoopInOrder
<1> QED BY <1>1, <1>2, <1>3, <1>4 DEF Init, TypeInv, TypeOK

(* Every step keeps the types.                                             *)
LEMMA TypesKept == TypeInv /\ [Next]_vars => TypeInv'
<1> SUFFICES ASSUME TypeInv, [Next]_vars PROVE TypeInv'
  OBVIOUS
<1> USE BoundsAssumption DEF Request
<1>0. 0 \in 0..MaxRequest /\ 0 \in 0..MaxAttempts /\ 0 < MaxAttempts
  OBVIOUS
<1>1. ASSUME NEW j \in Job, Completes(j) PROVE TypeInv'
  BY <1>1 DEF Completes, TypeInv, TypeOK, LoopInOrder, pairing, closing,
              planner, loop
<1>2. CASE Pump
  BY <1>2 DEF Pump, Noticed, Ended, TypeInv, TypeOK, LoopInOrder, ledger, loop
<1>3. CASE Select \/ SelectBreaks
  <2>1. PICK S \in SUBSET Job, sel \in SUBSET Job, msg \in SUBSET Job:
          Deliver(S, sel, msg)
    BY <1>3, SelectDelivers DEF TypeInv
  <2>2. /\ UNCHANGED <<result, closing, answered, known, issued, crashes>>
        /\ pc' = "step" /\ request' = 0 /\ tries' = 0
        /\ broken' \in BOOLEAN
    BY <1>3 DEF Select, SelectBreaks, StepBegins, TypeInv, TypeOK
  <2>3. TypeOK
    BY DEF TypeInv
  <2>4. /\ selected' \in [Job -> Nat] /\ message' \in [Job -> Nat]
        /\ admitted' \subseteq Job /\ mailbox' \subseteq Job
        /\ flight' \subseteq Job /\ target' \in [Job -> 0..MaxRequest]
        /\ context' \subseteq Job
    BY <2>1, <2>3, DeliverTypes
  <2> QED BY <1>0, <2>2, <2>3, <2>4 DEF TypeInv, TypeOK, LoopInOrder, closing
<1>4. CASE Stops
  BY <1>4 DEF Stops, TypeInv, TypeOK, LoopInOrder, ledger, planner
<1>5. CASE Prepare
  <2>1. issued + 1 \in 1..MaxRequest
    BY <1>5 DEF Prepare, TypeInv, TypeOK
  <2>2. tries + 1 \in 0..MaxAttempts
    BY <1>5 DEF Prepare, TypeInv, TypeOK, LoopInOrder
  <2>3. PICK S \in SUBSET Unprepared:
          /\ prepared' = prepared \cup (S \X {issued + 1})
          /\ target' = [j \in Job |-> IF j \in S THEN issued + 1 ELSE target[j]]
          /\ Written(Unprepared, S)
    BY <1>5 DEF Prepare
  <2>4. S \subseteq Job
    BY <2>3 DEF Unprepared, TypeInv, TypeOK
  <2>5. prepared' \subseteq Job \X Request
    BY <2>1, <2>3, <2>4 DEF TypeInv, TypeOK
  <2>6. target' \in [Job -> 0..MaxRequest]
    BY <2>1, <2>3 DEF TypeInv, TypeOK
  <2>7. broken' \in BOOLEAN
    BY <2>3 DEF Written
  <2> QED BY <1>5, <2>1, <2>2, <2>5, <2>6, <2>7
          DEF Prepare, TypeInv, TypeOK, LoopInOrder, pairing
<1>6. CASE Send
  BY <1>6 DEF Send, TypeInv, TypeOK, LoopInOrder, ledger, planner
<1>7. CASE SendFails
  BY <1>7 DEF SendFails, TypeInv, TypeOK, LoopInOrder, ledger, planner
<1>8. CASE Retry
  BY <1>8 DEF Retry, TypeInv, TypeOK, LoopInOrder, ledger, planner
<1>9. CASE Fail
  <2>1. request \in Request
    BY <1>9 DEF Fail, TypeInv, TypeOK, LoopInOrder
  <2>2. PICK S \in SUBSET Carried: /\ Written(Carried, S)
                                   /\ unsure' = unsure \cup (S \X {request})
                                   /\ Closes(S)
    BY <1>9 DEF Fail
  <2>3. S \subseteq Job
    BY <2>2 DEF Carried, TypeInv, TypeOK
  <2>4. unsure' \subseteq Job \X Request
    BY <2>1, <2>2, <2>3 DEF TypeInv, TypeOK
  <2>a. target' \in [Job -> 0..MaxRequest]
    BY <1>0, <2>2 DEF Closes, TypeInv, TypeOK
  <2>b. broken' \in BOOLEAN
    BY <2>2 DEF Written
  <2>5. /\ target' \in [Job -> 0..MaxRequest]
        /\ flight' \subseteq Job /\ mailbox' \subseteq Job
        /\ pc' = "between" /\ broken' \in BOOLEAN
    BY <2>2, <2>a, <2>b DEF Closes, TypeInv, TypeOK
  <2> QED BY <1>9, <2>4, <2>5 DEF Fail, TypeInv, TypeOK, LoopInOrder, pairing
<1>10. CASE Answer
  <2>1. request \in Request
    BY <1>10 DEF Answer, TypeInv, TypeOK, LoopInOrder
  <2>2. PICK S \in SUBSET Carried:
          /\ Written(Carried, S)
          /\ \/ acked' = acked \cup (S \X {request}) /\ UNCHANGED unsure
             \/ unsure' = unsure \cup (S \X {request}) /\ UNCHANGED acked
          /\ Closes(S)
    BY <1>10 DEF Answer
  <2>3. S \subseteq Job
    BY <2>2 DEF Carried, TypeInv, TypeOK
  <2>4. unsure' \subseteq Job \X Request /\ acked' \subseteq Job \X Request
    BY <2>1, <2>2, <2>3 DEF TypeInv, TypeOK
  <2>a. target' \in [Job -> 0..MaxRequest]
    BY <1>0, <2>2 DEF Closes, TypeInv, TypeOK
  <2>b. broken' \in BOOLEAN
    BY <2>2 DEF Written
  <2>5. /\ target' \in [Job -> 0..MaxRequest]
        /\ flight' \subseteq Job /\ mailbox' \subseteq Job
        /\ pc' = "between" /\ broken' \in BOOLEAN
    BY <2>2, <2>a, <2>b DEF Closes, TypeInv, TypeOK
  <2>6. answered' \subseteq Job \X Request
    BY <1>10, <2>1 DEF Answer, TypeInv, TypeOK
  <2> QED BY <1>10, <2>4, <2>5, <2>6
          DEF Answer, TypeInv, TypeOK, LoopInOrder, pairing
<1>11. CASE AnswerUnnoted
  <2>1. request \in Request
    BY <1>11 DEF AnswerUnnoted, TypeInv, TypeOK, LoopInOrder
  <2>2. answered' \subseteq Job \X Request
    BY <1>11, <2>1 DEF AnswerUnnoted, TypeInv, TypeOK
  <2>3. broken' \in BOOLEAN
    BY <1>11 DEF AnswerUnnoted, TypeInv, TypeOK
  <2> QED BY <1>11, <2>2, <2>3
          DEF AnswerUnnoted, TypeInv, TypeOK, LoopInOrder, ledger, planner
<1>12. CASE Restart
  <2>1. crashes' \in 0..MaxCrashes
    BY <1>12 DEF Restart, TypeInv, TypeOK
  <2>2. target' \in [Job -> 0..MaxRequest]
    BY <1>0, <1>12 DEF Restart
  <2>3. known' \in [Job -> {"open", "told", "gone"}]
    BY <1>12 DEF Restart
  <2> QED BY <1>0, <1>12, <2>1, <2>2, <2>3
          DEF Restart, Restored, TypeInv, TypeOK, LoopInOrder, ledger
<1>13. CASE UNCHANGED vars
  BY <1>13 DEF vars, TypeInv, TypeOK, LoopInOrder, ledger, planner, loop
<1> QED BY <1>1, <1>2, <1>3, <1>4, <1>5, <1>6, <1>7, <1>8, <1>9, <1>10,
           <1>11, <1>12, <1>13 DEF Next

(* Every variable stays in its range.                                      *)
THEOREM DeliveryTypeCorrect == Spec => []TypeOK
<1>1. TypeInv => TypeOK
  BY DEF TypeInv
<1> QED BY <1>1, InitTypes, TypesKept, PTL DEF Spec

-----------------------------------------------------------------------------
(* The invariant holds at first.                                           *)
LEMMA InitInv == Init => IInv
  BY InitTypes
     DEF Init, IInv, TypeInv, StagesApart, Conversation, LoopInOrder,
         RequestsIssued, FlightOpen, BooksReady, ClosedWerePrepared,
         AcknowledgedWasAnswered, OwedIsKept

(* Writing pairing chains keeps it: what is delivered had no message.      *)
LEMMA SelectKeeps ==
  ASSUME IInv, TypeOK', LoopInOrder', Select \/ SelectBreaks
  PROVE  IInv'
<1>1. PICK S \in SUBSET Job, sel \in SUBSET Job, msg \in SUBSET Job:
        /\ Deliver(S, sel, msg)
        /\ S \cup sel \cup msg \subseteq mailbox
        /\ S # {} \/ msg # {} => ~broken
        /\ msg # {} => broken'
  BY SelectDelivers DEF IInv
<1>2. /\ UNCHANGED <<result, prepared, acked, unsure, answered, known, issued>>
      /\ pc' = "step" /\ request' = 0 /\ tries' = 0
      /\ broken => broken'
  BY DEF Select, SelectBreaks, StepBegins, closing
<1>3. \A j \in S \cup msg: message[j] = 0
  BY <1>1 DEF IInv, StagesApart
<1>4. \A j \in Job: /\ message'[j] = IF j \in S \cup msg THEN 1 ELSE message[j]
                    /\ target'[j] = IF j \in S THEN 0 ELSE target[j]
  BY <1>1, <1>3 DEF Deliver, IInv, TypeOK
<1>5. /\ mailbox' = mailbox \ S /\ flight' = flight \cup S
      /\ context' = context \cup S /\ admitted' = admitted \cup S
  BY <1>1 DEF Deliver, Leaves, Pushed
<1>6. StagesApart'
  BY <1>1, <1>2, <1>4, <1>5 DEF IInv, StagesApart, TypeOK
<1>7. Conversation'
  BY <1>5 DEF IInv, Conversation
<1>8. RequestsIssued'
  BY <1>2 DEF IInv, RequestsIssued, TypeOK
<1>9. FlightOpen'
  BY <1>2, <1>4, <1>5 DEF IInv, FlightOpen, TypeOK
<1>10. BooksReady'
  BY <1>2 DEF BooksReady
<1>11. ClosedWerePrepared' /\ AcknowledgedWasAnswered'
  BY <1>2 DEF IInv, ClosedWerePrepared, AcknowledgedWasAnswered
<1>12. OwedIsKept'
  BY <1>2, <1>4, <1>5 DEF IInv, OwedIsKept, Unadmitted, Conversation, TypeOK
<1> QED BY <1>6, <1>7, <1>8, <1>9, <1>10, <1>11, <1>12 DEF IInv

(* The new prepared lines carry an id no line had before.                  *)
LEMMA PrepareKeeps ==
  ASSUME IInv, TypeOK', LoopInOrder', Prepare
  PROVE  IInv'
<1>1. PICK S \in SUBSET Unprepared:
        /\ Written(Unprepared, S)
        /\ prepared' = prepared \cup (S \X {issued + 1})
        /\ target' = [j \in Job |-> IF j \in S THEN issued + 1 ELSE target[j]]
  BY DEF Prepare
<1>2. /\ UNCHANGED <<result, message, admitted, acked, unsure, answered, known,
                     mailbox, flight, context>>
      /\ ~broken /\ issued' = issued + 1 /\ request' = issued + 1
      /\ pc' = "ready"
  BY DEF Prepare, pairing
<1>3. issued \in Nat /\ flight \subseteq Job
  BY BoundsAssumption DEF IInv, TypeOK
<1>4. \A j \in Job: target'[j] = IF j \in S THEN issued + 1 ELSE target[j]
  BY <1>1
<1>5. StagesApart' /\ Conversation' /\ OwedIsKept'
  BY <1>2 DEF IInv, StagesApart, Conversation, OwedIsKept, Unadmitted
<1>6. RequestsIssued'
  <2>1. \A p \in prepared: p[2] <= issued + 1
    BY <1>3 DEF IInv, RequestsIssued, TypeOK, Request
  <2>2. \A p \in S \X {issued + 1}: p[2] <= issued + 1
    BY <1>3
  <2> QED BY <1>1, <1>2, <1>3, <2>1, <2>2 DEF RequestsIssued
<1>7. \A j \in Job: <<j, issued + 1>> \notin prepared
  <2> SUFFICES ASSUME NEW j \in Job, <<j, issued + 1>> \in prepared PROVE FALSE
    OBVIOUS
  <2>1. <<j, issued + 1>>[2] <= issued
    BY DEF IInv, RequestsIssued
  <2> QED BY <1>3, <2>1
<1>8. FlightOpen'
  <2> SUFFICES ASSUME NEW j \in flight, target'[j] # 0
               PROVE  /\ <<j, target'[j]>> \in prepared'
                      /\ <<j, target'[j]>> \notin acked
                      /\ <<j, target'[j]>> \notin unsure
    BY <1>2 DEF FlightOpen
  <2>1. CASE j \in S
    BY <1>1, <1>3, <1>4, <1>7, <2>1 DEF IInv, ClosedWerePrepared
  <2>2. CASE j \notin S
    BY <1>1, <1>3, <1>4, <2>2 DEF IInv, FlightOpen
  <2> QED BY <2>1, <2>2
<1>9. BooksReady'
  <2> SUFFICES ASSUME ~broken', NEW j \in flight PROVE target'[j] # 0
    BY <1>2 DEF BooksReady
  <2>1. S = Unprepared
    BY <1>1, <1>2 DEF Written
  <2> QED BY <1>3, <1>4, <2>1 DEF Unprepared
<1>10. ClosedWerePrepared' /\ AcknowledgedWasAnswered'
  BY <1>1, <1>2 DEF IInv, ClosedWerePrepared, AcknowledgedWasAnswered
<1> QED BY <1>5, <1>6, <1>8, <1>9, <1>10 DEF IInv

(* The lines of an outcome, whichever they are, close what was open for    *)
(* the request and in the conversation.                                    *)
LEMMA ClosesKeeps ==
  ASSUME IInv, TypeOK', LoopInOrder', NEW S \in SUBSET Carried,
         Written(Carried, S), Closes(S), request > 0,
         UNCHANGED <<result, message, admitted, prepared, known, context,
                     request, issued>>,
         \/ acked' = acked \cup (S \X {request}) /\ UNCHANGED unsure
         \/ unsure' = unsure \cup (S \X {request}) /\ UNCHANGED acked,
         answered \subseteq answered',
         acked' = acked \/ answered' = answered \cup (context \X {request})
  PROVE  IInv'
<1>1. /\ mailbox' = mailbox /\ flight' = flight \ S /\ pc' = "between"
      /\ \A j \in Job: target'[j] = IF j \in S THEN 0 ELSE target[j]
  BY DEF Closes
<1>2. S \subseteq flight /\ flight \subseteq Job
  BY DEF Carried, IInv, TypeOK
<1>3. broken => broken'
  BY DEF Written
<1>4. \A j \in S: /\ <<j, request>> \in prepared
                  /\ <<j, request>> \notin acked
                  /\ <<j, request>> \notin unsure
                  /\ j \in context
  BY <1>2 DEF Carried, IInv, FlightOpen, Conversation, TypeOK
<1>5. StagesApart' /\ Conversation' /\ OwedIsKept'
  BY <1>1, <1>3 DEF IInv, StagesApart, Conversation, OwedIsKept, Unadmitted
<1>6. RequestsIssued' /\ BooksReady'
  BY <1>1 DEF IInv, RequestsIssued, BooksReady
<1>7. FlightOpen'
  <2> SUFFICES ASSUME NEW j \in flight, j \notin S, target[j] # 0
               PROVE  /\ <<j, target[j]>> \in prepared
                      /\ <<j, target[j]>> \notin acked'
                      /\ <<j, target[j]>> \notin unsure'
    BY <1>1, <1>2 DEF FlightOpen
  <2> QED BY DEF IInv, FlightOpen
<1>8. ClosedWerePrepared'
  BY <1>4 DEF IInv, ClosedWerePrepared
<1>9. AcknowledgedWasAnswered'
  BY <1>4 DEF IInv, AcknowledgedWasAnswered
<1> QED BY <1>5, <1>6, <1>7, <1>8, <1>9 DEF IInv

(* Every step keeps it.                                                    *)
LEMMA InvKept == IInv /\ [Next]_vars => IInv'
<1> SUFFICES ASSUME IInv, [Next]_vars PROVE IInv'
  OBVIOUS
<1>0. TypeOK' /\ LoopInOrder'
  BY TypesKept DEF IInv, TypeInv
<1> USE DEF IInv
<1>1. ASSUME NEW j \in Job, Completes(j) PROVE IInv'
  <2>1. UNCHANGED <<message, admitted, prepared, acked, unsure, answered,
                    known, mailbox, flight, target, context, broken, pc,
                    request, tries, issued>>
    BY <1>1 DEF Completes, pairing, closing, planner, loop
  <2>2. known[j] = "open" /\ \A k \in Job: k # j => result'[k] = result[k]
    BY <1>1 DEF Completes, TypeOK
  <2>3. OwedIsKept'
    BY <2>1, <2>2 DEF OwedIsKept, Unadmitted
  <2> QED BY <1>0, <2>1, <2>3
          DEF StagesApart, Conversation, RequestsIssued, FlightOpen,
              BooksReady, ClosedWerePrepared, AcknowledgedWasAnswered
<1>2. CASE Pump
  <2>1. UNCHANGED <<result, message, admitted, prepared, acked, unsure,
                    answered, flight, target, context, broken, pc, request,
                    tries, issued>>
    BY <1>2 DEF Pump, ledger, loop
  <2>2. /\ mailbox' = mailbox \cup (Ended \ flight)
        /\ \A j \in Job: known'[j] = IF j \in Ended THEN "told" ELSE known[j]
    BY <1>2 DEF Pump, Noticed
  <2>3. \A j \in Ended: j \in Job /\ known[j] = "open" /\ message[j] = 0
    BY DEF Ended, StagesApart
  <2>4. StagesApart'
    BY <2>1, <2>2, <2>3 DEF StagesApart, Ended
  <2>5. OwedIsKept'
    BY <2>1, <2>2, <2>3 DEF OwedIsKept, Unadmitted, Conversation
  <2> QED BY <1>0, <2>1, <2>4, <2>5
          DEF Conversation, RequestsIssued, FlightOpen, BooksReady,
              ClosedWerePrepared, AcknowledgedWasAnswered
<1>3. CASE Select \/ SelectBreaks
  BY <1>0, <1>3, SelectKeeps
<1>4. CASE Stops \/ SendFails
  <2>1. /\ UNCHANGED <<result, message, admitted, prepared, acked, unsure,
                       answered, known, mailbox, flight, target, context,
                       request, tries, issued>>
        /\ pc' = "between"
        /\ broken => broken'
    BY <1>4 DEF Stops, SendFails, ledger, planner
  <2> QED BY <1>0, <2>1
          DEF StagesApart, Conversation, RequestsIssued, FlightOpen,
              BooksReady, ClosedWerePrepared, AcknowledgedWasAnswered,
              OwedIsKept, Unadmitted
<1>5. CASE Prepare
  BY <1>0, <1>5, PrepareKeeps
<1>6. CASE Send \/ Retry
  <2>1. /\ UNCHANGED <<result, message, admitted, prepared, acked, unsure,
                       answered, known, mailbox, flight, target, context,
                       broken, request, tries, issued>>
        /\ \/ pc = "ready" /\ ~broken /\ pc' = "sent"
           \/ pc = "sent" /\ pc' = "step"
    BY <1>6 DEF Send, Retry, ledger, planner
  <2>2. BooksReady'
    BY <2>1 DEF BooksReady
  <2> QED BY <1>0, <2>1, <2>2
          DEF StagesApart, Conversation, RequestsIssued, FlightOpen,
              ClosedWerePrepared, AcknowledgedWasAnswered, OwedIsKept,
              Unadmitted
<1>7. CASE Fail
  <2>1. PICK S \in SUBSET Carried: /\ Written(Carried, S)
                                   /\ unsure' = unsure \cup (S \X {request})
                                   /\ Closes(S)
    BY <1>7 DEF Fail
  <2>2. /\ UNCHANGED <<result, message, admitted, prepared, known, context,
                       request, issued, acked, answered>>
        /\ request > 0
    BY <1>7 DEF Fail, pairing, LoopInOrder
  <2> QED BY <1>0, <2>1, <2>2, ClosesKeeps
<1>8. CASE Answer
  <2>1. PICK S \in SUBSET Carried:
          /\ Written(Carried, S)
          /\ \/ acked' = acked \cup (S \X {request}) /\ UNCHANGED unsure
             \/ unsure' = unsure \cup (S \X {request}) /\ UNCHANGED acked
          /\ Closes(S)
    BY <1>8 DEF Answer
  <2>2. /\ UNCHANGED <<result, message, admitted, prepared, known, context,
                       request, issued>>
        /\ answered' = answered \cup (context \X {request})
        /\ request > 0
    BY <1>8 DEF Answer, pairing, LoopInOrder
  <2> QED BY <1>0, <2>1, <2>2, ClosesKeeps
<1>9. CASE AnswerUnnoted
  <2>1. /\ UNCHANGED <<result, message, admitted, prepared, acked, unsure,
                       known, mailbox, flight, target, context, request,
                       tries, issued>>
        /\ answered \subseteq answered'
        /\ pc' = "between"
    BY <1>9 DEF AnswerUnnoted, ledger, planner
  <2>2. broken' = broken \/ broken' = TRUE
    BY <1>9 DEF AnswerUnnoted
  <2>3. broken => broken'
    BY <2>2
  <2> QED BY <1>0, <2>1, <2>3
          DEF StagesApart, Conversation, RequestsIssued, FlightOpen,
              BooksReady, ClosedWerePrepared, AcknowledgedWasAnswered,
              OwedIsKept, Unadmitted
<1>10. CASE Restart
  <2>1. /\ UNCHANGED <<result, message, admitted, prepared, acked, unsure,
                       answered, issued>>
        /\ mailbox' = Restored /\ flight' = {} /\ context' = admitted
        /\ pc' = "between" /\ request' = 0
        /\ \A j \in Job: known'[j] = "gone"
    BY <1>10 DEF Restart, ledger
  <2>2. StagesApart'
    BY <2>1 DEF StagesApart, Restored
  <2>3. OwedIsKept'
    BY <2>1 DEF OwedIsKept, Unadmitted, Restored, TypeOK
  <2>4. RequestsIssued'
    BY <2>1, BoundsAssumption DEF RequestsIssued, TypeOK
  <2> QED BY <1>0, <2>1, <2>2, <2>3, <2>4
          DEF Conversation, FlightOpen, BooksReady, ClosedWerePrepared,
              AcknowledgedWasAnswered
<1>11. CASE UNCHANGED vars
  BY <1>0, <1>11
     DEF vars, ledger, planner, loop, StagesApart, Conversation,
         RequestsIssued, FlightOpen, BooksReady, ClosedWerePrepared,
         AcknowledgedWasAnswered, OwedIsKept, Unadmitted
<1> QED BY <1>1, <1>2, <1>3, <1>4, <1>5, <1>6, <1>7, <1>8, <1>9, <1>10, <1>11
        DEF Next

(* The inductive invariant holds in every state.                           *)
THEOREM DeliveryInductive == Spec => []IInv
  BY InitInv, InvKept, PTL DEF Spec

(* A provider call gets one tool message, whatever breaks and restarts.    *)
THEOREM OneAnswer == Spec => []OneAnswerPerCall
<1>1. IInv => OneAnswerPerCall
  BY DEF IInv, StagesApart, OneAnswerPerCall
<1> QED BY <1>1, DeliveryInductive, PTL

(* Closing lines follow their prepared line, and only an answered request  *)
(* acknowledges.                                                           *)
THEOREM ClosedTruthfully == Spec => []ClosedTruly
<1>1. IInv => ClosedTruly
  BY DEF IInv, ClosedTruly
<1> QED BY <1>1, DeliveryInductive, PTL

(* What goes out is on the books.                                          *)
THEOREM SentOnTheBooks == Spec => []SentIsOnTheBooks
<1>1. IInv => SentIsOnTheBooks
  BY DEF IInv, BooksReady, FlightOpen, SentIsOnTheBooks
<1> QED BY <1>1, DeliveryInductive, PTL

(* A stored result is not lost, but for a message without its admission.   *)
THEOREM OwedKept == Spec => []OwedIsKept
<1>1. IInv => OwedIsKept
  BY DEF IInv
<1> QED BY <1>1, DeliveryInductive, PTL
=============================================================================
