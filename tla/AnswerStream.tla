---------------------------- MODULE AnswerStream ----------------------------
(***************************************************************************)
(* stream_answer: one question answered by a worker thread while the       *)
(* request thread polls the state they share and sends events.             *)
(*                                                                         *)
(* Every `with state_lock` block is one action.  The generator keeps what  *)
(* it read under the lock in local variables and sends from those, one     *)
(* event per yield, while the worker goes on.  The clock is one bit: the   *)
(* deadline is in the future or has passed.                                *)
(***************************************************************************)
EXTENDS Naturals, Sequences

CONSTANT MaxSteps   \* bound: trace steps one answer publishes
ASSUME StepsAssumption == MaxSteps \in Nat

VARIABLES
  trace,     \* state["trace"]: how many steps are published
  result,    \* whether state["result"] is set
  error,     \* state["error"]: "none", "engine" or "deadline"
  finished,  \* state["finished"]
  worker,    \* the worker thread: "running", "returned", "raised", "ended"
  late,      \* time.monotonic() > deadline
  reader,    \* the generator: "check", "read", "send", "close", "over"
  view,      \* what the generator read: trace_snapshot, finished, error, result
  emitted,   \* the generator's count of emitted steps
  sent,      \* the events sent
  open       \* whether the browser still reads

shared == <<trace, result, error, finished>>
vars == <<trace, result, error, finished, worker, late, reader, view, emitted, sent, open>>

Errors == {"none", "engine", "deadline"}
View == [trace : 0..MaxSteps, finished : BOOLEAN, error : Errors, result : BOOLEAN]
NoView == [trace |-> 0, finished |-> FALSE, error |-> "none", result |-> FALSE]

Step(n) == [event |-> "step", step |-> n]
Outcome(k) == [event |-> k, step |-> 0]
Done == [event |-> "done", step |-> 0]
Send(e) == sent' = Append(sent, e)

Init ==
  /\ trace = 0
  /\ result = FALSE
  /\ error = "none"
  /\ finished = FALSE
  /\ worker = "running"
  /\ late = FALSE
  /\ reader = "check"
  /\ view = NoView
  /\ emitted = 0
  /\ sent = << >>
  /\ open = TRUE

-----------------------------------------------------------------------------
(* The worker thread.                                                      *)

publish_step ==
  /\ worker = "running"
  /\ trace < MaxSteps
  /\ trace' = trace + 1
  /\ UNCHANGED <<result, error, finished, worker, late, reader, view, emitted, sent, open>>

\* The runtime publishes each step as it appends it, so the trace in the
\* result is never longer than the published one and does not replace it.
SetResult ==
  /\ worker = "running"
  /\ worker' = "returned"
  /\ result' = TRUE
  /\ UNCHANGED <<trace, error, finished, late, reader, view, emitted, sent, open>>

\* The engine, the provider settings or the database raise; closing the
\* database may raise after the result is set.
SetError ==
  /\ worker \in {"running", "returned"}
  /\ worker' = "raised"
  /\ error' = "engine"
  /\ UNCHANGED <<trace, result, finished, late, reader, view, emitted, sent, open>>

\* The outer finally clause: a lock of its own, after the result or the error.
SetFinished ==
  /\ worker \in {"returned", "raised"}
  /\ worker' = "ended"
  /\ finished' = TRUE
  /\ UNCHANGED <<trace, result, error, late, reader, view, emitted, sent, open>>

-----------------------------------------------------------------------------
(* The generator, in the request thread.                                   *)

DeadlinePasses ==
  /\ ~late
  /\ late' = TRUE
  /\ UNCHANGED <<shared, worker, reader, view, emitted, sent, open>>

\* Mutants: past the deadline the stream is finished but says no error, or has
\* an error and is not finished.
DeadlineWithoutError ==
  /\ open
  /\ reader = "check"
  /\ reader' = "read"
  /\ finished' = (finished \/ late)
  /\ UNCHANGED <<trace, result, error, worker, late, view, emitted, sent, open>>
DeadlineWithoutEnd ==
  /\ open
  /\ reader = "check"
  /\ reader' = "read"
  /\ error' = IF late /\ error = "none" THEN "deadline" ELSE error
  /\ UNCHANGED <<trace, result, finished, worker, late, view, emitted, sent, open>>

CheckDeadline ==
  /\ open
  /\ reader = "check"
  /\ reader' = "read"
  /\ IF late
       THEN /\ error' = IF error = "none" THEN "deadline" ELSE error
            /\ finished' = TRUE
       ELSE UNCHANGED <<error, finished>>
  /\ UNCHANGED <<trace, result, worker, late, view, emitted, sent, open>>

ReadState ==
  /\ open
  /\ reader = "read"
  /\ reader' = "send"
  /\ view' = [trace |-> trace, finished |-> finished, error |-> error, result |-> result]
  /\ UNCHANGED <<shared, worker, late, emitted, sent, open>>

SendStep ==
  /\ open
  /\ reader = "send"
  /\ emitted < view.trace
  /\ emitted' = emitted + 1
  /\ Send(Step(emitted + 1))
  /\ UNCHANGED <<shared, worker, late, reader, view, open>>

\* Not finished: sleep, and poll again.
PollAgain ==
  /\ open
  /\ reader = "send"
  /\ emitted >= view.trace
  /\ ~view.finished
  /\ reader' = "check"
  /\ UNCHANGED <<shared, worker, late, view, emitted, sent, open>>

\* Mutant: the outcome does not wait for the steps.
SendOutcomeEarly ==
  /\ open
  /\ reader = "send"
  /\ view.finished
  /\ reader' = "close"
  /\ IF view.error # "none" THEN Send(Outcome("error"))
     ELSE IF view.result THEN Send(Outcome("result"))
     ELSE UNCHANGED sent
  /\ UNCHANGED <<shared, worker, late, view, emitted, open>>

SendOutcome ==
  /\ open
  /\ reader = "send"
  /\ emitted >= view.trace
  /\ view.finished
  /\ reader' = "close"
  /\ IF view.error # "none" THEN Send(Outcome("error"))
     ELSE IF view.result THEN Send(Outcome("result"))
     ELSE UNCHANGED sent
  /\ UNCHANGED <<shared, worker, late, view, emitted, open>>

SendDone ==
  /\ open
  /\ reader = "close"
  /\ reader' = "over"
  /\ Send(Done)
  /\ UNCHANGED <<shared, worker, late, view, emitted, open>>

\* The browser goes away: the generator is closed at its next yield, the
\* worker is not told.
Disconnect ==
  /\ open
  /\ reader # "over"
  /\ open' = FALSE
  /\ UNCHANGED <<shared, worker, late, reader, view, emitted, sent>>

-----------------------------------------------------------------------------
Worker == publish_step \/ SetResult \/ SetError \/ SetFinished
Generator ==
  CheckDeadline \/ ReadState \/ SendStep \/ PollAgain \/ SendOutcome \/ SendDone

Next == Worker \/ Generator \/ DeadlinePasses \/ Disconnect

\* The request thread runs and the clock advances.  Nothing is assumed of the
\* worker: a model that never answers must not keep the stream open.
Spec == Init /\ [][Next]_vars /\ WF_vars(Generator) /\ WF_vars(DeadlinePasses)

-----------------------------------------------------------------------------
(* Properties.                                                             *)

\* The shared state and the generator's copy of it have the values the code gives.
TypeOK ==
  /\ trace \in 0..MaxSteps
  /\ result \in BOOLEAN
  /\ error \in Errors
  /\ finished \in BOOLEAN
  /\ worker \in {"running", "returned", "raised", "ended"}
  /\ late \in BOOLEAN
  /\ reader \in {"check", "read", "send", "close", "over"}
  /\ view \in View
  /\ emitted \in 0..MaxSteps
  /\ sent \in Seq([event : {"step", "result", "error", "done"}, step : 0..MaxSteps])
  /\ open \in BOOLEAN

\* What is sent is what EventStream promises: the steps in order, each once,
\* one outcome, then done, although worker and generator share only a lock.
Promised == INSTANCE EventStream
ImplementsEventStream == Promised!Init /\ [][Promised!Next]_<<sent, open>>

\* "drains any remaining steps": the answer is sent after every step of its trace,
\* although steps and answer are published under separate locks.
AnswerAfterItsSteps ==
  \A i \in 1..Len(sent) : sent[i] = Outcome("result") =>
    i = trace + 1 /\ \A j \in 1..(i - 1) : sent[j] = Step(j)

\* An answer is never sent for a request that failed.
NoAnswerAfterFailure ==
  \A i \in 1..Len(sent) : sent[i] = Outcome("result") =>
    worker = "ended" /\ result /\ error # "engine"

\* The reader is not kept waiting by a worker that never returns.
StreamEnds == <>(reader = "over" \/ ~open)
=============================================================================
