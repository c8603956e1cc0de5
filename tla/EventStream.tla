---------------------------- MODULE EventStream ----------------------------
(***************************************************************************)
(* What the reader of POST /api/answer/stream is promised: the steps of    *)
(* the agent in the order it took them, each once, then exactly one        *)
(* outcome, then "done" and nothing after it.  The reader may leave at any *)
(* time.  AnswerStream implements it.                                      *)
(***************************************************************************)
EXTENDS Naturals, Sequences

VARIABLES sent,  \* the events sent so far
          open   \* whether the reader is still connected

Step(n) == [event |-> "step", step |-> n]
Outcome(k) == [event |-> k, step |-> 0]
Done == [event |-> "done", step |-> 0]
Outcomes == {Outcome("result"), Outcome("error")}

Last == IF sent = << >> THEN Step(0) ELSE sent[Len(sent)]

Init ==
  /\ sent = << >>
  /\ open = TRUE

SendStep ==
  /\ open
  /\ Last.event = "step"
  /\ sent' = Append(sent, Step(Last.step + 1))
  /\ UNCHANGED open

SendOutcome ==
  /\ open
  /\ Last.event = "step"
  /\ \E o \in Outcomes : sent' = Append(sent, o)
  /\ UNCHANGED open

SendDone ==
  /\ open
  /\ Last \in Outcomes
  /\ sent' = Append(sent, Done)
  /\ UNCHANGED open

Leave ==
  /\ open
  /\ open' = FALSE
  /\ UNCHANGED sent

Next == SendStep \/ SendOutcome \/ SendDone \/ Leave

Spec == Init /\ [][Next]_<<sent, open>>
=============================================================================
