---------------------------- MODULE ResultDelivery ----------------------------
(***************************************************************************)
(* How the result of a deferred tool call reaches the model               *)
(* (runtime/result_delivery_planner.cpp and its caller, agent/loop.cpp).   *)
(*                                                                         *)
(* A native_deferred call leaves its provider call without an answer.      *)
(* When the job ends, a notice goes to the planner's mailbox; at the next  *)
(* request boundary the planner writes the pairing chain (the selected     *)
(* line, the tool message, its admission to the context) and hands the     *)
(* message to the loop; when the request line is on the ledger it writes   *)
(* tool.delivery.prepared, and when the response is in,                    *)
(* tool.delivery.acknowledged or .uncertain.  A restart rebuilds the       *)
(* mailbox from the ledger.                                                *)
(*                                                                         *)
(* The first line the session writer fails to append breaks it: every      *)
(* later append of that process fails (broken).  A mailbox and the         *)
(* deliveries in flight are sets: the order of two notices only decides    *)
(* which of them a failing append stops, and that may be any.              *)
(***************************************************************************)
EXTENDS Naturals

CONSTANTS Job,          \* native_deferred jobs this session has launched
          MaxRequest,   \* bound: request lines ever written
          MaxAttempts,  \* kMaxRequestAttempts: sends of one step's request
          MaxCrashes    \* bound: restarts of the process

ASSUME BoundsAssumption ==
  /\ MaxRequest \in Nat
  /\ MaxAttempts \in Nat \ {0}
  /\ MaxCrashes \in Nat

VARIABLES
  (* the ledger                                                            *)
  result,    \* how each job ended: with a stored result, or bare
  selected,  \* tool.result.selected lines of each call
  message,   \* tool messages of each call
  admitted,  \* calls whose message is on the context chain
  prepared,  \* tool.delivery.prepared, <<job, request>>
  acked,     \* tool.delivery.acknowledged
  unsure,    \* tool.delivery.uncertain
  (* the provider                                                          *)
  answered,  \* <<job, request>>: it answered a request with that message
  (* the process                                                           *)
  known,     \* its book of jobs: open, told (notified), gone with a process
  mailbox,   \* jobs with a notice not delivered yet
  flight,    \* deliveries whose message is written and which are not closed
  target,    \* the request each of them was prepared for, 0: none yet
  context,   \* calls whose result is in the conversation in memory
  broken,    \* the session writer takes no more lines
  (* the loop                                                              *)
  pc,        \* between steps, in a step, request ready, request sent
  request,   \* the request of the present attempt, 0: none
  tries,     \* attempts of the present step
  (* bounds                                                                *)
  issued,    \* request lines so far
  crashes    \* restarts so far

ledger  == <<result, selected, message, admitted, prepared, acked, unsure>>
pairing == <<selected, message, admitted>>
closing == <<prepared, acked, unsure>>
planner == <<mailbox, flight, target>>
loop    == <<pc, request, tries, issued>>
vars == <<ledger, answered, known, planner, context, broken, loop, crashes>>

Request == 1..MaxRequest

(* Type invariant.                                                         *)
TypeOK ==
  /\ result \in [Job -> {"running", "done", "bare"}]
  /\ selected \in [Job -> Nat]
  /\ message \in [Job -> Nat]
  /\ admitted \subseteq Job
  /\ prepared \subseteq Job \X Request
  /\ acked \subseteq Job \X Request
  /\ unsure \subseteq Job \X Request
  /\ answered \subseteq Job \X Request
  /\ known \in [Job -> {"open", "told", "gone"}]
  /\ mailbox \subseteq Job
  /\ flight \subseteq Job
  /\ target \in [Job -> 0..MaxRequest]
  /\ context \subseteq Job
  /\ broken \in BOOLEAN
  /\ pc \in {"between", "step", "ready", "sent"}
  /\ request \in 0..MaxRequest
  /\ tries \in 0..MaxAttempts
  /\ issued \in 0..MaxRequest
  /\ crashes \in 0..MaxCrashes

-----------------------------------------------------------------------------
Init ==
  /\ result = [j \in Job |-> "running"]
  /\ selected = [j \in Job |-> 0]
  /\ message = [j \in Job |-> 0]
  /\ admitted = {}
  /\ prepared = {} /\ acked = {} /\ unsure = {} /\ answered = {}
  /\ known = [j \in Job |-> "open"]
  /\ mailbox = {} /\ flight = {} /\ context = {}
  /\ target = [j \in Job |-> 0]
  /\ broken = FALSE
  /\ pc = "between" /\ request = 0 /\ tries = 0
  /\ issued = 0 /\ crashes = 0

(* Ended, the job has a stored result or it has none: it failed, was       *)
(* cancelled, is unknown, or its result could not be stored.  A job whose  *)
(* process is gone is not finished by the next one.                        *)
Completes(j) ==
  /\ known[j] = "open"
  /\ result[j] = "running"
  /\ ~broken
  /\ \E r \in {"done", "bare"}: result' = [result EXCEPT ![j] = r]
  /\ UNCHANGED <<pairing, closing, answered, known, planner, context, broken,
                 loop, crashes>>

(* A notice is dropped while one of its job is in the mailbox or its       *)
(* delivery is in flight.                                                  *)
Noticed(ended) == mailbox \cup (ended \ flight)

Ended == {j \in Job: known[j] = "open" /\ result[j] # "running"}

(* The end of a tool batch (PumpBatchBoundary).                            *)
Pump ==
  /\ pc = "between"
  /\ Ended # {}
  /\ mailbox' = Noticed(Ended)
  /\ known' = [j \in Job |-> IF j \in Ended THEN "told" ELSE known[j]]
  /\ UNCHANGED <<ledger, answered, flight, target, context, broken, loop,
                 crashes>>

-----------------------------------------------------------------------------
\* mutant: only notices of this process pass the filter
DeliverableKnown == {j \in mailbox: result[j] = "done" /\ known[j] = "told"}

(* The request boundary.  Notices of jobs without a stored result have no  *)
(* reference to select, and the schema refuses the line: they stay.        *)
Deliverable == {j \in mailbox: result[j] = "done"}

\* mutant: the mailbox is emptied, whatever was delivered
LeaveAll(S) == mailbox' = {}

(* What was delivered leaves the mailbox, what was not stays in it.        *)
Leaves(S) == mailbox' = mailbox \ S

(* The loop puts the messages it gets into the conversation.               *)
Pushed(S) == context' = context \cup S

(* The chain of the calls in S is written, and the lines of one more call  *)
(* as far as sel and msg say.                                              *)
Deliver(S, sel, msg) ==
  /\ selected' = [j \in Job |-> IF j \in S \cup sel THEN selected[j] + 1
                                                    ELSE selected[j]]
  /\ message' = [j \in Job |-> IF j \in S \cup msg THEN message[j] + 1
                                                   ELSE message[j]]
  /\ admitted' = admitted \cup S
  /\ Leaves(S)
  /\ flight' = flight \cup S
  /\ target' = [j \in Job |-> IF j \in S THEN 0 ELSE target[j]]
  /\ Pushed(S)

StepBegins ==
  /\ pc = "between"
  /\ pc' = "step"
  /\ request' = 0
  /\ tries' = 0

Select ==
  /\ StepBegins
  /\ IF broken THEN Deliver({}, {}, {}) ELSE Deliver(Deliverable, {}, {})
  /\ UNCHANGED <<result, closing, answered, known, broken, issued, crashes>>

(* A line of the chain of f fails: what was delivered before stays         *)
(* delivered, f and the rest stay in the mailbox.                          *)
SelectBreaks ==
  /\ StepBegins
  /\ ~broken
  /\ \E f \in Deliverable: \E S \in SUBSET (Deliverable \ {f}):
       \/ Deliver(S, {}, {})
       \/ Deliver(S, {f}, {})
       \/ Deliver(S, {f}, {f})
  /\ broken' = TRUE
  /\ UNCHANGED <<result, closing, answered, known, issued, crashes>>

(* The step ends before its request: the budget is used up, or the request *)
(* line cannot be written.                                                 *)
Stops ==
  /\ pc = "step"
  /\ \/ tries = 0 /\ UNCHANGED broken
     \/ broken' = TRUE
  /\ pc' = "between"
  /\ UNCHANGED <<ledger, answered, known, planner, context, request, tries,
                 issued, crashes>>

-----------------------------------------------------------------------------
(* Of the lines due for the deliveries in all, those for S get written.    *)
Written(all, S) ==
  IF broken THEN S = {} /\ broken' = TRUE
            ELSE broken' = (S # all)

(* The request line is on the ledger, with a new id for every attempt;     *)
(* then a line for each delivery in flight that has none.                  *)
Unprepared == {j \in flight: target[j] = 0}

Prepare ==
  /\ pc = "step"
  /\ ~broken
  /\ issued < MaxRequest
  /\ issued' = issued + 1
  /\ request' = issued + 1
  /\ tries' = tries + 1
  /\ pc' = "ready"
  /\ \E S \in SUBSET Unprepared:
       /\ Written(Unprepared, S)
       /\ prepared' = prepared \cup (S \X {issued + 1})
       /\ target' = [j \in Job |-> IF j \in S THEN issued + 1 ELSE target[j]]
  /\ UNCHANGED <<result, pairing, acked, unsure, answered, known, mailbox,
                 flight, context, crashes>>

\* mutant: sent although the writer is broken
SendUnrecorded ==
  /\ pc = "ready"
  /\ pc' = "sent"
  /\ UNCHANGED <<ledger, answered, known, planner, context, broken, request,
                 tries, issued, crashes>>

(* The sent line is written before the request goes out.                   *)
Send ==
  /\ pc = "ready"
  /\ ~broken
  /\ pc' = "sent"
  /\ UNCHANGED <<ledger, answered, known, planner, context, broken, request,
                 tries, issued, crashes>>

SendFails ==
  /\ pc = "ready"
  /\ pc' = "between"
  /\ broken' = TRUE
  /\ UNCHANGED <<ledger, answered, known, planner, context, request, tries,
                 issued, crashes>>

(* A failure that may pass, with attempts left.                            *)
Retry ==
  /\ pc = "sent"
  /\ tries < MaxAttempts
  /\ pc' = "step"
  /\ UNCHANGED <<ledger, answered, known, planner, context, broken, request,
                 tries, issued, crashes>>

-----------------------------------------------------------------------------
\* mutant: every delivery in flight is taken for one of this request
CarriedAll == flight

(* NoteResponseOutcome: the deliveries prepared for the request are closed *)
(* and leave, those whose line fails stay.                                 *)
Carried == {j \in flight: target[j] = request}

Closes(S) ==
  /\ flight' = flight \ S
  /\ target' = [j \in Job |-> IF j \in S THEN 0 ELSE target[j]]
  /\ pc' = "between"
  /\ UNCHANGED mailbox

(* The request failed for good, was cancelled, or was given up while the   *)
(* loop waited for the next attempt.                                       *)
Fail ==
  /\ pc = "sent" \/ pc = "ready" \/ (pc = "step" /\ tries > 0)
  /\ \E S \in SUBSET Carried:
       /\ Written(Carried, S)
       /\ unsure' = unsure \cup (S \X {request})
       /\ Closes(S)
  /\ UNCHANGED <<result, pairing, prepared, acked, answered, known, context,
                 request, tries, issued, crashes>>

(* The answer is complete and recorded.  Without the id of its completed   *)
(* line there is no evidence, and the delivery counts as uncertain.        *)
Answer ==
  /\ pc = "sent"
  /\ ~broken
  /\ answered' = answered \cup (context \X {request})
  /\ \E S \in SUBSET Carried:
       /\ Written(Carried, S)
       /\ \/ acked' = acked \cup (S \X {request}) /\ UNCHANGED unsure
          \/ unsure' = unsure \cup (S \X {request}) /\ UNCHANGED acked
       /\ Closes(S)
  /\ UNCHANGED <<result, pairing, prepared, known, context, request, tries,
                 issued, crashes>>

(* The answer is complete, but it is malformed or cannot be recorded: the  *)
(* turn ends without a word to the planner.                                *)
AnswerUnnoted ==
  /\ pc = "sent"
  /\ answered' = answered \cup (context \X {request})
  /\ broken' \in {broken, TRUE}
  /\ pc' = "between"
  /\ UNCHANGED <<ledger, known, planner, context, request, tries, issued,
                 crashes>>

-----------------------------------------------------------------------------
\* mutant: the tool message on the ledger is not looked for
RestoredPaired == {j \in Job: result[j] = "done"}

(* RestoreFromLedger: ended with a stored result, and no tool message.     *)
Restored == {j \in Job: result[j] = "done" /\ message[j] = 0}

(* The process dies and another takes the session up: the book and the     *)
(* deliveries in flight are gone, the conversation is the context chain.   *)
Restart ==
  /\ crashes < MaxCrashes
  /\ crashes' = crashes + 1
  /\ known' = [j \in Job |-> "gone"]
  /\ mailbox' = Restored
  /\ flight' = {}
  /\ target' = [j \in Job |-> 0]
  /\ context' = admitted
  /\ broken' = FALSE
  /\ pc' = "between" /\ request' = 0 /\ tries' = 0
  /\ UNCHANGED <<ledger, answered, issued>>

-----------------------------------------------------------------------------
Next ==
  \/ \E j \in Job: Completes(j)
  \/ Pump
  \/ Select
  \/ SelectBreaks
  \/ Stops
  \/ Prepare
  \/ Send
  \/ SendFails
  \/ Retry
  \/ Fail
  \/ Answer
  \/ AnswerUnnoted
  \/ Restart

Spec == Init /\ [][Next]_vars

(* The conversation goes on: a step comes to its end, tool batches end     *)
(* between steps, and there is a next boundary.                            *)
Fairness ==
  /\ SF_vars(Pump)
  /\ WF_vars(Select)
  /\ WF_vars(Stops \/ Prepare)
  /\ WF_vars(Send \/ SendFails \/ Fail)
  /\ WF_vars(Retry \/ Fail \/ Answer \/ AnswerUnnoted)

FairSpec == Spec /\ Fairness

-----------------------------------------------------------------------------
(* A provider call gets one answer: however the chain breaks, and whatever *)
(* a restart rebuilds, no second tool message is written for it.           *)
OneAnswerPerCall == \A j \in Job: message[j] <= 1

(* Every closing line follows the prepared line of the same delivery and   *)
(* request, and a delivery is closed once for it (what                     *)
(* ValidateAsyncToolSequence checks of a ledger).                          *)
ClosedWerePrepared ==
  /\ acked \subseteq prepared
  /\ unsure \subseteq prepared
  /\ acked \cap unsure = {}

(* An acknowledged delivery was in a request the provider did answer.      *)
AcknowledgedWasAnswered == acked \subseteq answered

(* The closing lines tell the truth: a delivery is closed after it was      *)
(* prepared and once, and acknowledged only if its request was answered.    *)
ClosedTruly == ClosedWerePrepared /\ AcknowledgedWasAnswered

(* A request goes out only when each unclosed delivery in it has its       *)
(* prepared line, for this request or one before.                          *)
SentIsOnTheBooks ==
  pc = "sent" => \A j \in flight: <<j, target[j]>> \in prepared

(* The message is on the ledger but its admission is not.                  *)
Unadmitted(j) == message[j] > 0 /\ j \notin admitted

(* A stored result is not lost: until it is in the conversation its job    *)
(* waits in the book or in the mailbox; the one way out is a message that  *)
(* was written and not admitted.                                           *)
OwedIsKept ==
  \A j \in Job: result[j] = "done" =>
    known[j] = "open" \/ j \in mailbox \/ j \in context \/ Unadmitted(j)

(* A stored result gets into the conversation, unless the writer breaks    *)
(* (then only a restart helps) or its message was never admitted.          *)
OwedIsHanded ==
  \A j \in Job: result[j] = "done" ~> (j \in context \/ broken \/ Unadmitted(j))

(* Stronger forms that do not hold (section 7.4 of the README).            *)
(* agent/loop.cpp: a prepared line for each attempt to send, a retry with  *)
(* a new request id has its own.                                           *)
EveryAttemptIsPrepared ==
  pc = "sent" => \A j \in flight: <<j, request>> \in prepared

(* result_delivery_planner.cpp: a failed job hands its failure report to   *)
(* the model.                                                              *)
FailureIsReported ==
  \A j \in Job: (result[j] = "bare" /\ j \in mailbox) ~>
                   (j \in context \/ broken \/ known[j] = "gone")

(* No gap between the tool message and its admission.                      *)
OwedIsKeptWithoutGap ==
  \A j \in Job: result[j] = "done" =>
    known[j] = "open" \/ j \in mailbox \/ j \in context

(* A delivery the provider answered is closed when the loop is between     *)
(* steps and its writer works.                                             *)
AnsweredIsClosed ==
  pc = "between" /\ ~broken =>
    \A j \in flight: \A r \in Request: <<j, r>> \notin answered
=============================================================================
