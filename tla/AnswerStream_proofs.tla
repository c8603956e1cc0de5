------------------------ MODULE AnswerStream_proofs ------------------------
(***************************************************************************)
(* AnswerStream, proved for every number of steps: what is sent is what    *)
(* EventStream promises, an answer follows every step of its trace, and no *)
(* answer is sent for a request that failed.                               *)
(***************************************************************************)
EXTENDS AnswerStream, TLAPS

Polling == reader \in {"check", "read", "send"}
Outcomes == {Outcome("result"), Outcome("error")}

\* Nothing is finished without something to say.
SharedInv ==
  /\ worker = "returned" => result
  /\ worker = "raised" => error # "none"
  /\ finished => error # "none" \/ result
  /\ finished /\ error = "none" => worker = "ended"

\* The generator's copy is behind the shared state, except that a copy that
\* shows a finished request without error is all there will ever be.
ViewInv ==
  /\ emitted <= trace
  /\ view.trace <= trace
  /\ view.finished => view.error # "none" \/ view.result
  /\ view.finished /\ view.error = "none" =>
       worker = "ended" /\ result /\ error # "engine" /\ view.trace = trace

\* While the generator polls it has sent the steps it counted and no more.
SentInv ==
  /\ Polling => Len(sent) = emitted /\ \A j \in 1..Len(sent) : sent[j] = Step(j)
  /\ reader = "close" => sent # << >> /\ sent[Len(sent)] \in Outcomes

Inv == TypeOK /\ SharedInv /\ ViewInv /\ SentInv

\* The initial state satisfies the invariant: nothing is published, read or sent.
LEMMA InvInit == ASSUME Init PROVE Inv
  <1>1. TypeOK
    <2>1. view \in View
      BY StepsAssumption DEF Init, NoView, View, Errors
    <2>2. sent \in Seq([event : {"step", "result", "error", "done"}, step : 0..MaxSteps])
      BY DEF Init
    <2>3. trace \in 0..MaxSteps /\ emitted \in 0..MaxSteps
      BY StepsAssumption DEF Init
    <2>. QED BY <2>1, <2>2, <2>3 DEF Init, TypeOK, Errors
  <1>2. SharedInv /\ ViewInv
    BY DEF Init, SharedInv, ViewInv, NoView
  <1>3. SentInv
    BY DEF Init, SentInv, Polling
  <1>. QED BY <1>1, <1>2, <1>3 DEF Inv

\* Sending an event of a set E of events yields a sequence of such events.
LEMMA AppendTyped == ASSUME NEW E, NEW s \in Seq(E), NEW e \in E PROVE Append(s, e) \in Seq(E)
  OBVIOUS

\* Every step of the worker, the generator, the clock and the browser keeps
\* the variables well typed.
LEMMA TypeStep == ASSUME TypeOK, [Next]_vars PROVE TypeOK'
  <1> USE StepsAssumption DEF TypeOK
  <1>1. CASE Worker
    <2>1. CASE publish_step
      BY <2>1 DEF publish_step
    <2>2. CASE SetResult \/ SetError \/ SetFinished
      BY <2>2 DEF SetResult, SetError, SetFinished, Errors
    <2>. QED BY <1>1, <2>1, <2>2 DEF Worker
  <1>2. CASE CheckDeadline \/ PollAgain \/ DeadlinePasses \/ Disconnect
    <2>1. CASE CheckDeadline
      BY <2>1 DEF CheckDeadline, shared, Errors
    <2>2. CASE PollAgain \/ DeadlinePasses \/ Disconnect
      BY <2>2 DEF PollAgain, DeadlinePasses, Disconnect, shared
    <2>. QED BY <1>2, <2>1, <2>2
  <1>3. CASE ReadState
    BY <1>3 DEF ReadState, shared, View
  <1>4. CASE SendStep
    <2>1. emitted + 1 \in 0..MaxSteps
      BY <1>4 DEF SendStep, View
    <2>2. Step(emitted + 1) \in [event : {"step", "result", "error", "done"}, step : 0..MaxSteps]
      BY <2>1 DEF Step
    <2>. QED BY <1>4, <2>1, <2>2 DEF SendStep, shared, Send
  <1>5. CASE SendOutcome \/ SendDone
    <2>1. \A k \in {"result", "error"} :
            Outcome(k) \in [event : {"step", "result", "error", "done"}, step : 0..MaxSteps]
      BY DEF Outcome
    <2>2. Done \in [event : {"step", "result", "error", "done"}, step : 0..MaxSteps]
      BY DEF Done
    <2>3. \/ UNCHANGED sent
          \/ \E e \in {Outcome("result"), Outcome("error"), Done} : sent' = Append(sent, e)
      BY <1>5 DEF SendOutcome, SendDone, Send
    <2>4. sent' \in Seq([event : {"step", "result", "error", "done"}, step : 0..MaxSteps])
      <3> DEFINE E == [event : {"step", "result", "error", "done"}, step : 0..MaxSteps]
      <3>1. \A e \in {Outcome("result"), Outcome("error"), Done} : e \in E
        BY <2>1, <2>2
      <3>2. sent \in Seq(E)
        OBVIOUS
      <3> HIDE DEF E
      <3>3. sent' \in Seq(E)
        BY <2>3, <3>1, <3>2, AppendTyped, Zenon
      <3>. QED BY <3>3 DEF E
    <2>. QED BY <1>5, <2>4 DEF SendOutcome, SendDone, shared
  <1>6. CASE UNCHANGED vars
    BY <1>6 DEF vars
  <1>. QED BY <1>1, <1>2, <1>3, <1>4, <1>5, <1>6 DEF Next, Generator

\* The worker sets result or error before it sets finished, and the deadline
\* sets both error and finished.
LEMMA SharedStep == ASSUME TypeOK, SharedInv, [Next]_vars PROVE SharedInv'
  <1> USE DEF TypeOK, SharedInv
  <1>1. CASE Worker
    BY <1>1 DEF Worker, publish_step, SetResult, SetError, SetFinished
  <1>2. CASE CheckDeadline
    BY <1>2 DEF CheckDeadline
  <1>3. CASE ReadState \/ SendStep \/ PollAgain \/ SendOutcome \/ SendDone
    BY <1>3 DEF ReadState, SendStep, PollAgain, SendOutcome, SendDone, shared
  <1>4. CASE DeadlinePasses \/ Disconnect \/ UNCHANGED vars
    BY <1>4 DEF DeadlinePasses, Disconnect, shared, vars
  <1>. QED BY <1>1, <1>2, <1>3, <1>4 DEF Next, Generator

\* A finished request without error has a worker that has ended, so the trace
\* that was read with it is final.
LEMMA ViewStep == ASSUME TypeOK, SharedInv, ViewInv, [Next]_vars PROVE ViewInv'
  <1> USE StepsAssumption DEF TypeOK, SharedInv, ViewInv, View
  <1>1. CASE Worker
    BY <1>1 DEF Worker, publish_step, SetResult, SetError, SetFinished
  <1>2. CASE CheckDeadline
    BY <1>2 DEF CheckDeadline
  <1>3. CASE ReadState
    BY <1>3 DEF ReadState, shared
  <1>4. CASE SendStep
    BY <1>4 DEF SendStep, shared
  <1>5. CASE PollAgain \/ SendOutcome \/ SendDone
    BY <1>5 DEF PollAgain, SendOutcome, SendDone, shared
  <1>6. CASE DeadlinePasses \/ Disconnect \/ UNCHANGED vars
    BY <1>6 DEF DeadlinePasses, Disconnect, shared, vars
  <1>. QED BY <1>1, <1>2, <1>3, <1>4, <1>5, <1>6 DEF Next, Generator

\* Only the generator sends, in the order it counts.
LEMMA SentStep == ASSUME TypeOK, ViewInv, SentInv, [Next]_vars PROVE SentInv'
  <1> USE DEF TypeOK, SentInv, Polling
  <1>1. CASE Worker
    BY <1>1 DEF Worker, publish_step, SetResult, SetError, SetFinished
  <1>2. CASE CheckDeadline \/ ReadState \/ PollAgain
    BY <1>2 DEF CheckDeadline, ReadState, PollAgain, shared
  <1>3. CASE SendStep
    <2>1. Len(sent) = emitted /\ \A j \in 1..Len(sent) : sent[j] = Step(j)
      BY <1>3 DEF SendStep
    <2>2. sent' = Append(sent, Step(emitted + 1)) /\ emitted' = emitted + 1
      BY <1>3 DEF SendStep, Send
    <2>3. \A j \in 1..Len(sent') : sent'[j] = Step(j)
      BY <2>1, <2>2
    <2>. QED BY <1>3, <2>1, <2>2, <2>3 DEF SendStep
  <1>4. CASE SendOutcome
    BY <1>4 DEF SendOutcome, Send, Outcomes, ViewInv
  <1>5. CASE SendDone
    BY <1>5 DEF SendDone
  <1>6. CASE DeadlinePasses \/ Disconnect \/ UNCHANGED vars
    BY <1>6 DEF DeadlinePasses, Disconnect, shared, vars
  <1>. QED BY <1>1, <1>2, <1>3, <1>4, <1>5, <1>6 DEF Next, Generator

\* The invariant holds in every reachable state.
THEOREM Invariance == Spec => []Inv
  <1>1. Inv /\ [Next]_vars => Inv'
    BY TypeStep, SharedStep, ViewStep, SentStep DEF Inv
  <1>. QED BY InvInit, <1>1, PTL DEF Spec

\* Type correctness for every number of steps.
THEOREM TypeCorrect == Spec => []TypeOK
  <1>1. Inv => TypeOK BY DEF Inv
  <1>. QED BY <1>1, Invariance, PTL

-----------------------------------------------------------------------------
\* The generator starts as the protocol does: nothing sent, the reader there.
LEMMA RefinesInit == ASSUME Init PROVE Promised!Init
  BY DEF Init, Promised!Init

\* Every step of the stream is a step of the protocol or sends nothing.
LEMMA RefinesStep == ASSUME Inv, [Next]_vars PROVE [Promised!Next]_<<sent, open>>
  <1> USE DEF Inv, TypeOK
  <1>1. CASE Worker
    BY <1>1 DEF Worker, publish_step, SetResult, SetError, SetFinished
  <1>2. CASE CheckDeadline \/ ReadState \/ PollAgain \/ DeadlinePasses \/ UNCHANGED vars
    BY <1>2 DEF CheckDeadline, ReadState, PollAgain, DeadlinePasses, vars
  <1>3. CASE SendStep
    <2>1. Promised!Last = Step(emitted)
      BY <1>3 DEF SendStep, SentInv, Polling, Promised!Last, Promised!Step, Step
    <2>2. Promised!Last.event = "step" /\ Promised!Last.step = emitted
      BY <2>1 DEF Step
    <2>3. sent' = Append(sent, Promised!Step(Promised!Last.step + 1))
      BY <1>3, <2>2 DEF SendStep, Send, Step, Promised!Step
    <2>. QED BY <1>3, <2>2, <2>3 DEF SendStep, Promised!Next, Promised!SendStep
  <1>4. CASE SendOutcome
    <2>1. Promised!Last = Step(emitted)
      BY <1>4 DEF SendOutcome, SentInv, Polling, Promised!Last, Promised!Step, Step
    <2>2. Promised!Last.event = "step"
      BY <2>1 DEF Step
    <2>3. \E o \in Promised!Outcomes : sent' = Append(sent, o)
      BY <1>4 DEF SendOutcome, Send, ViewInv, Promised!Outcomes, Promised!Outcome, Outcome
    <2>. QED BY <1>4, <2>2, <2>3 DEF SendOutcome, Promised!Next, Promised!SendOutcome
  <1>5. CASE SendDone
    <2>1. Promised!Last \in Promised!Outcomes
      BY <1>5 DEF SendDone, SentInv, Outcomes, Outcome, Promised!Last,
                  Promised!Outcomes, Promised!Outcome
    <2>. QED BY <1>5, <2>1 DEF SendDone, Send, Done, Promised!Done,
                               Promised!Next, Promised!SendDone
  <1>6. CASE Disconnect
    BY <1>6 DEF Disconnect, Promised!Next, Promised!Leave
  <1>. QED BY <1>1, <1>2, <1>3, <1>4, <1>5, <1>6 DEF Next, Generator

\* Whatever the interleaving of worker, generator, clock and browser, what the
\* browser is sent is what EventStream promises.
THEOREM StreamRefines == Spec => ImplementsEventStream
  <1>. QED BY RefinesInit, RefinesStep, Invariance, PTL DEF Spec, ImplementsEventStream

-----------------------------------------------------------------------------
AnswerInv == AnswerAfterItsSteps /\ NoAnswerAfterFailure

\* The event names keep an answer apart from the other events.
LEMMA AnswerIsNoOtherEvent ==
  /\ \A n \in Nat : Step(n) # Outcome("result")
  /\ Outcome("error") # Outcome("result")
  /\ Done # Outcome("result")
  BY DEF Step, Outcome, Done

\* Appending an element adds no other one, and moves none.
LEMMA AppendMoves ==
  ASSUME NEW E, NEW s \in Seq(E), NEW e \in E, NEW other, e # other
  PROVE  /\ \A i \in 1..Len(Append(s, e)) :
              Append(s, e)[i] = other => i \in 1..Len(s) /\ Append(s, e)[i] = s[i]
         /\ \A i \in 1..Len(s) : Append(s, e)[i] = s[i]
  OBVIOUS

Event == [event : {"step", "result", "error", "done"}, step : 0..MaxSteps]

\* A step that sends no answer leaves the answers already sent as they were.
LEMMA AnswerStep == ASSUME Inv, Inv', AnswerInv, [Next]_vars PROVE AnswerInv'
  <1> USE AnswerIsNoOtherEvent, StepsAssumption DEF Inv, TypeOK
  <1> DEFINE Answered == \E i \in 1..Len(sent) : sent[i] = Outcome("result")
  <1>1. Answered => worker = "ended"
    BY DEF AnswerInv, NoAnswerAfterFailure
  <1>2. CASE Worker
    <2>1. CASE Answered
      BY <1>1, <1>2, <2>1 DEF Worker, publish_step, SetResult, SetError, SetFinished
    <2>2. CASE ~Answered
      BY <1>2, <2>2 DEF Worker, publish_step, SetResult, SetError, SetFinished,
                        AnswerInv, AnswerAfterItsSteps, NoAnswerAfterFailure
    <2>. QED BY <2>1, <2>2
  <1>3. CASE CheckDeadline
    BY <1>3 DEF CheckDeadline, AnswerInv, AnswerAfterItsSteps, NoAnswerAfterFailure
  <1>4. CASE ReadState \/ PollAgain \/ DeadlinePasses \/ Disconnect \/ UNCHANGED vars
    BY <1>4 DEF ReadState, PollAgain, DeadlinePasses, Disconnect, shared, vars,
                AnswerInv, AnswerAfterItsSteps, NoAnswerAfterFailure
  <1>5. CASE SendStep
    <2>1. sent' = Append(sent, Step(emitted + 1)) /\ emitted + 1 \in Nat
      BY <1>5 DEF SendStep, Send
    <2>e. Step(emitted + 1) \in Event /\ Step(emitted + 1) # Outcome("result")
      BY <1>5 DEF SendStep, Event, Step, View
    <2>s. sent \in Seq(Event)
      BY DEF Event
    <2>2. \A i \in 1..Len(sent') : sent'[i] = Outcome("result") => i \in 1..Len(sent) /\ sent'[i] = sent[i]
      BY ONLY <2>1, <2>e, <2>s, AppendMoves
    <2>3. \A i \in 1..Len(sent) : sent'[i] = sent[i]
      BY ONLY <2>1, <2>e, <2>s, AppendMoves
    <2>4. UNCHANGED <<worker, result, error, trace>>
      BY <1>5 DEF SendStep, shared
    <2>5. AnswerAfterItsSteps'
      <3> SUFFICES ASSUME NEW i \in 1..Len(sent'), sent'[i] = Outcome("result")
                   PROVE  i = trace + 1 /\ \A j \in 1..(i - 1) : sent'[j] = Step(j)
        BY <2>4 DEF AnswerAfterItsSteps
      <3>1. i \in 1..Len(sent) /\ sent[i] = Outcome("result")
        BY <2>2
      <3>2. i = trace + 1 /\ \A j \in 1..(i - 1) : sent[j] = Step(j)
        BY <3>1 DEF AnswerInv, AnswerAfterItsSteps
      <3>3. \A j \in 1..(i - 1) : j \in 1..Len(sent)
        BY <3>1
      <3>. QED BY <2>3, <3>2, <3>3
    <2>6. NoAnswerAfterFailure'
      BY <2>2, <2>4 DEF AnswerInv, NoAnswerAfterFailure
    <2>. QED BY <2>5, <2>6 DEF AnswerInv
  <1>6. CASE SendOutcome
    <2>1. /\ Len(sent) = emitted
          /\ \A j \in 1..Len(sent) : sent[j] = Step(j)
      BY <1>6 DEF SendOutcome, SentInv, Polling
    <2>2. CASE view.error # "none"
      <3>1. sent' = Append(sent, Outcome("error"))
        BY <1>6, <2>2 DEF SendOutcome, Send
      <3>2. \A i \in 1..Len(sent') : sent'[i] # Outcome("result")
        <4>1. Outcome("error") \in Event /\ sent \in Seq(Event)
          BY DEF Event, Outcome
        <4>2. \A i \in 1..Len(sent) : sent[i] # Outcome("result")
          BY <2>1
        <4>. QED BY ONLY <3>1, <4>1, <4>2, AppendMoves, AnswerIsNoOtherEvent
      <3>. QED BY <3>2 DEF AnswerInv, AnswerAfterItsSteps, NoAnswerAfterFailure
    <2>3. CASE view.error = "none"
      <3>1. worker = "ended" /\ result /\ error # "engine" /\ view.trace = trace
        BY <1>6, <2>3 DEF SendOutcome, ViewInv
      <3>2. emitted = trace
        BY <1>6, <3>1 DEF SendOutcome, ViewInv, View
      <3>3. sent' = Append(sent, Outcome("result"))
        BY <1>6, <2>3 DEF SendOutcome, Send, ViewInv
      <3>4. \A i \in 1..Len(sent') : sent'[i] = Outcome("result") => i = trace + 1
        BY <2>1, <3>2, <3>3
      <3>5. \A j \in 1..trace : sent'[j] = Step(j)
        BY <2>1, <3>2, <3>3
      <3>6. UNCHANGED <<worker, result, error, trace>>
        BY <1>6 DEF SendOutcome, shared
      <3>. QED BY <3>1, <3>4, <3>5, <3>6 DEF AnswerInv, AnswerAfterItsSteps, NoAnswerAfterFailure
    <2>. QED BY <2>2, <2>3
  <1>7. CASE SendDone
    <2>1. sent' = Append(sent, Done)
      BY <1>7 DEF SendDone, Send
    <2>e. Done \in Event /\ Done # Outcome("result") /\ sent \in Seq(Event)
      BY DEF Event, Done
    <2>2. \A i \in 1..Len(sent') : sent'[i] = Outcome("result") => i \in 1..Len(sent) /\ sent'[i] = sent[i]
      BY ONLY <2>1, <2>e, AppendMoves
    <2>3. \A i \in 1..Len(sent) : sent'[i] = sent[i]
      BY ONLY <2>1, <2>e, AppendMoves
    <2>4. UNCHANGED <<worker, result, error, trace>>
      BY <1>7 DEF SendDone, shared
    <2>5. AnswerAfterItsSteps'
      <3> SUFFICES ASSUME NEW i \in 1..Len(sent'), sent'[i] = Outcome("result")
                   PROVE  i = trace + 1 /\ \A j \in 1..(i - 1) : sent'[j] = Step(j)
        BY <2>4 DEF AnswerAfterItsSteps
      <3>1. i \in 1..Len(sent) /\ sent[i] = Outcome("result")
        BY <2>2
      <3>2. i = trace + 1 /\ \A j \in 1..(i - 1) : sent[j] = Step(j)
        BY <3>1 DEF AnswerInv, AnswerAfterItsSteps
      <3>3. \A j \in 1..(i - 1) : j \in 1..Len(sent)
        BY <3>1
      <3>. QED BY <2>3, <3>2, <3>3
    <2>6. NoAnswerAfterFailure'
      BY <2>2, <2>4 DEF AnswerInv, NoAnswerAfterFailure
    <2>. QED BY <2>5, <2>6 DEF AnswerInv
  <1>. QED BY <1>2, <1>3, <1>4, <1>5, <1>6, <1>7 DEF Next, Generator

\* An answer is sent after every step of its trace, and only by a worker that
\* ended without failing.
THEOREM AnswerIsWhole == Spec => [](AnswerAfterItsSteps /\ NoAnswerAfterFailure)
  <1>1. Init => AnswerInv
    BY DEF Init, AnswerInv, AnswerAfterItsSteps, NoAnswerAfterFailure
  <1>2. Inv /\ Inv' /\ AnswerInv /\ [Next]_vars => AnswerInv'
    BY AnswerStep
  <1>3. AnswerInv => AnswerAfterItsSteps /\ NoAnswerAfterFailure
    BY DEF AnswerInv
  <1>. QED BY <1>1, <1>2, <1>3, Invariance, PTL DEF Spec
=============================================================================
