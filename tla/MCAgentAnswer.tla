--------------------------- MODULE MCAgentAnswer ---------------------------
(* AgentAnswer over the drafts and contexts of MCAnswerEngine.             *)
EXTENDS AgentAnswer, MCAnswerEngine
=============================================================================
