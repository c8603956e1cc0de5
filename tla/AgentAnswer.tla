---------------------------- MODULE AgentAnswer ----------------------------
(***************************************************************************)
(* JudicexAgentRuntime.answer: the agent in front of GroundedAnswerEngine. *)
(* A planner picks the tools, the engine is one of them, and a composer may*)
(* write the final answer from what the tools returned.  Each of the three *)
(* asks the model, which may fail or return anything; so may the store.    *)
(***************************************************************************)
EXTENDS AnswerEngine

VARIABLES
  step,       \* what the agent does next
  composing,  \* "answer.compose_operational" in plan.actions
  final       \* the result that is returned, Pending before

agent == <<step, composing, final>>
agentVars == <<step, composing, final, stage, context, status, intro, prose, sections, claims,
               verifier, contract, refused, audited>>

Composable == {"operational", "limited", "grounded"}
Answer(f, s, d, k) == [from |-> f, status |-> s, cites |-> d, contract |-> k]
Pending == Answer("none", "none", {}, "none")

\* Mutant: the citations are what the model says.
AnyCitation == Docs
\* result["citations"] of the engine: when it raised there is no result.
ResultCites ==
  IF stage = "raised" \/ status = "chat"
    THEN {}
    ELSE prose.cites \cup UNION {c.cites : c \in claims \cup sections}

AgentInit ==
  /\ Init
  /\ step = "plan"
  /\ composing = FALSE
  /\ final = Pending

\* A planner that fails leaves an empty plan, which is legal work.  Legal work
\* always searches the memory, reads the active matter and asks the engine.
Plan ==
  /\ step = "plan"
  /\ \/ step' = "chat" /\ UNCHANGED composing
     \/ step' = "memory" /\ composing' \in BOOLEAN
  /\ UNCHANGED <<final, vars>>

\* _direct_chat has an answer when the model has none.
DirectChat ==
  /\ step = "chat"
  /\ step' = "answered"
  /\ final' = Answer("chat", "chat", {}, "skipped")
  /\ UNCHANGED <<composing, vars>>

\* The tools catch what the store raises, and the next tool runs.
SearchMemory ==
  /\ step = "memory"
  /\ step' = IF HasMatter THEN "matter" ELSE "legal"
  /\ UNCHANGED <<composing, final, vars>>

InspectMatter ==
  /\ step = "matter"
  /\ step' = "legal"
  /\ UNCHANGED <<composing, final, vars>>

RunEngine ==
  /\ step = "legal"
  /\ Next
  /\ UNCHANGED agent

\* Mutant: the exception of the engine goes up.
EngineMustAnswer ==
  /\ step = "legal"
  /\ stage = "done"
  /\ step' = IF composing THEN "compose" ELSE "finish"
  /\ UNCHANGED <<composing, final, vars>>

\* _tool_legal_answer catches what the engine raises.  There is always more
\* than one action, so a planned composition is always needed.
EngineReturns ==
  /\ step = "legal"
  /\ stage \in {"done", "raised"}
  /\ step' = IF composing THEN "compose" ELSE "finish"
  /\ UNCHANGED <<composing, final, vars>>

\* The composer's status is the model's, its citations and its contract those
\* of the legal result; without sections of its own the text is a fixed one.
Compose ==
  /\ step = "compose"
  /\ step' = "answered"
  /\ \/ \E s \in Composable :
          final' = Answer("composed", s, ResultCites,
                          IF stage = "raised" THEN "skipped" ELSE contract)
     \/ final' = Answer("composed", "operational", ResultCites, "skipped")
  /\ UNCHANGED <<composing, vars>>

\* Mutant: an exception does not keep what the engine had written from being used.
FinishUnchecked ==
  /\ step = "finish"
  /\ step' = "answered"
  /\ final' = Answer("legal", status, ResultCites, contract)
  /\ UNCHANGED <<composing, vars>>

\* The engine's answer as it is, or a fixed one when there is none.
Finish ==
  /\ step = "finish"
  /\ step' = "answered"
  /\ final' = IF stage = "done"
                THEN Answer("legal", status, ResultCites, contract)
                ELSE Answer("fallback", "operational", {}, "skipped")
  /\ UNCHANGED <<composing, vars>>

AgentNext ==
  \/ Plan \/ DirectChat \/ SearchMemory \/ InspectMatter
  \/ RunEngine \/ EngineReturns \/ Compose \/ Finish

\* Straight-line code, like the engine.
AgentSpec == AgentInit /\ [][AgentNext]_agentVars /\ WF_agentVars(AgentNext)

-----------------------------------------------------------------------------
(* Properties.                                                             *)

\* The agent's own state has the values the code gives it.
AgentTypeOK ==
  /\ step \in {"plan", "chat", "memory", "matter", "legal", "compose", "finish", "answered"}
  /\ composing \in BOOLEAN
  /\ final.from \in {"none", "chat", "legal", "composed", "fallback"}
  /\ final.status \in Statuses \cup {"none", "analysis"}
  /\ final.cites \subseteq Docs
  /\ final.contract \in {"none", "passed", "limited", "failed", "skipped", "safety_net"}

\* Agent memories, the planner and the composer never produce a citation: the
\* final answer cites retrieved sources only, and none when the engine raised.
OnlyLawIsCited ==
  final # Pending => /\ final.cites \subseteq context.evidence
                     /\ final.cites # {} => stage = "done"

\* An answer the agent passes on is the engine's finished one, recorded in the
\* audit log or lost to its failure, and grounded only if it passed both gates
\* whole; what the engine had written when it raised is never passed on.  (The
\* status of a composed answer is the model's and is not bound by this.)
PassedOnIsFinished ==
  final.from = "legal" =>
    /\ stage = "done" /\ audited # "no"
    /\ final.status = "grounded" =>
         contract = "passed" /\ verifier = "passed" /\ refused = {} /\ final.cites # {}

\* Whatever the model and the store do, the question is answered.
EveryQuestionAnswered == <>(step = "answered")
=============================================================================
