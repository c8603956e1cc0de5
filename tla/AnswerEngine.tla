---------------------------- MODULE AnswerEngine ----------------------------
(***************************************************************************)
(* GroundedAnswerEngine.answer: from a question to a rendered answer.      *)
(*                                                                         *)
(* The language model is an adversary: every call may fail, return text    *)
(* that is no JSON object, or return any member of Drafts.  What the code  *)
(* does with it is deterministic.  A legal statement is a claim: its text, *)
(* the sources it cites and the issue it says it answers.  The fields of   *)
(* the payload that control the answer are a variable each; refused        *)
(* records the claims that a gate has turned down.                         *)
(***************************************************************************)
EXTENDS Naturals, FiniteSets

CONSTANTS
  Docs,       \* official sources
  Issues,     \* issues the decomposer may name
  NoIssue,    \* a claim that names no issue
  Texts,      \* what a claim can say
  Strays,     \* the texts that name a norm no retrieved source is about
  Contexts,   \* the contexts build_context may return
  Drafts,     \* the JSON objects the model may return
  HasMatter   \* whether a matter is active

Statuses == {"grounded", "limited", "operational", "chat", "abstain"}
Legal == {"grounded", "limited"}
Claim == [text : Texts, cites : SUBSET Docs, issue : Issues \cup {NoIssue}]

\* "dated" is an intro with one of the freshness_markers, "stray" prose that
\* names a norm outside the evidence.  Sections hold the items of legal sections.
\* Prose carries no claim: the text of the other sections with the sources it
\* cites, case_facts, and follow_up_questions (missing_information goes the
\* same way as these).
Intros == {"none", "plain", "dated", "stray"}
Notes == {"none", "plain", "stray"}
Prose == [notes : Notes, cites : SUBSET Docs, facts : Notes, asks : Notes]
NoProse == [notes |-> "none", cites |-> {}, facts |-> "none", asks |-> "none"]
Draft == [status : Statuses \cup {"unknown"}, intro : Intros, reply : BOOLEAN,
          claims : SUBSET Claim, sections : SUBSET Claim, prose : Prose]

\* required[i] is documents[0] of a covered issue, and titles[i] what the net
\* says of it; blocked sources are abrogated, expired ones are not in force at
\* the date of the contract; signed is whether any title or reference of the
\* evidence identifies a norm by number and year.
Context == [evidence : SUBSET Docs, official : BOOLEAN, planned : BOOLEAN,
            covered : SUBSET Issues, required : [Issues -> Docs], titles : [Issues -> Texts],
            blocked : SUBSET Docs, expired : SUBSET Docs,
            operational : BOOLEAN, signed : BOOLEAN]

ASSUME TextsAssumption == NoIssue \notin Issues /\ Strays \subseteq Texts
ASSUME DraftsAssumption == Drafts \subseteq Draft
ASSUME ContextsAssumption ==
  /\ Contexts \subseteq Context
  /\ \A x \in Contexts :
       /\ ~x.planned => x.covered = {}
       /\ x.blocked \subseteq x.evidence /\ x.expired \subseteq x.evidence
       /\ (\E i \in x.covered : x.required[i] \in x.evidence) => x.official
       /\ x.official => x.evidence # {}
ASSUME MatterAssumption == HasMatter \in BOOLEAN

VARIABLES
  stage,       \* what answer() does next
  context,     \* the retrieval context, NoContext before it is built
  status,      \* payload["status"]
  intro,       \* payload["intro"]
  prose,       \* the other sections, payload["case_facts"], ["follow_up_questions"]
  sections,    \* legal items of payload["sections"]
  claims,      \* payload["claims"]
  verifier,    \* payload["_semantic_verifier"]["status"]
  contract,    \* payload["_answer_contract"]["status"]
  refused,     \* claims the verifier or the contract has refused
  audited      \* what became of the audit record

outcome == <<verifier, contract, refused, audited>>
vars == <<stage, context, status, intro, prose, sections, claims,
          verifier, contract, refused, audited>>

NoContext == [evidence |-> {}, official |-> FALSE, planned |-> FALSE, covered |-> {},
              required |-> << >>, titles |-> << >>, blocked |-> {}, expired |-> {},
              operational |-> FALSE, signed |-> FALSE]

-----------------------------------------------------------------------------
(* Validation of what the model returned.                                  *)

Cited(c) == c.cites # {} /\ c.cites \subseteq context.evidence
\* A legal item without citations is dropped.  The citations of other sections
\* are looked up as well, and go with a section that has no text.
LegalItems(d) == {c \in d.sections : c.cites # {}}
AllClaims(d) == d.claims \cup LegalItems(d)
ProseOf(d) == IF d.prose.notes = "none" THEN [d.prose EXCEPT !.cites = {}] ELSE d.prose

\* Mutant: the items of sections are not looked at.
BreaksCitationsOfClaims(d) ==
  /\ d.status \in Statuses
  /\ \/ \E c \in d.claims : ~Cited(c)
     \/ d.status \in Legal /\ AllClaims(d) = {}

\* Errors whose message names a citation or a claim.
BreaksCitations(d) ==
  /\ d.status \in Statuses
  /\ \/ \E c \in AllClaims(d) : ~Cited(c)
     \/ ~(d.prose.cites \subseteq context.evidence)
     \/ d.status \in Legal /\ AllClaims(d) = {}

\* Other errors of the schema.
BreaksSchema(d) ==
  \/ d.status \notin Statuses
  \/ /\ ~BreaksCitations(d)
     /\ \/ d.status = "chat" /\ ~d.reply
        \/ /\ d.status = "operational" /\ LegalItems(d) = {} /\ d.intro = "none"
           /\ d.prose.notes = "none" /\ d.prose.asks = "none"

Valid(d) == ~BreaksCitations(d) /\ ~BreaksSchema(d)

\* _validate_payload
Strict(d) ==
  [status   |-> IF d.status = "operational" /\ AllClaims(d) # {} THEN "limited" ELSE d.status,
   intro    |-> d.intro,
   prose    |-> ProseOf(d),
   sections |-> LegalItems(d),
   claims   |-> IF d.status \in {"chat", "abstain"} THEN {} ELSE AllClaims(d)]

\* _validate_payload_lenient: citations outside the evidence are cut, claims
\* left without any are dropped, and so are sections and case_facts.
Retrieved(d) == {c \in d.claims : c.cites \cap context.evidence # {}}
Trimmed(d) == {[c EXCEPT !.cites = @ \cap context.evidence] : c \in Retrieved(d)}
Recoverable(d) == d.status \in Legal /\ Retrieved(d) # {}
Lenient(d) ==
  [status   |-> IF Retrieved(d) # d.claims THEN "limited" ELSE d.status,
   intro    |-> d.intro,
   prose    |-> [NoProse EXCEPT !.asks = d.prose.asks],
   sections |-> {},
   claims   |-> Trimmed(d)]

Usable(d) == Valid(d) \/ Recoverable(d)
Repaired(d) == IF Valid(d) THEN Strict(d) ELSE Lenient(d)

\* _llm_generated_abstain: the wording is the model's, or a fixed one.
Abstention(i) == [status |-> "abstain", intro |-> i, prose |-> NoProse,
                  sections |-> {}, claims |-> {}]
Abstentions == {Abstention(i) : i \in Intros \ {"none"}}

Become(p) ==
  /\ status' = p.status
  /\ intro' = p.intro
  /\ prose' = p.prose
  /\ sections' = p.sections
  /\ claims' = p.claims
Keep == UNCHANGED <<status, intro, prose, sections, claims>>

Init ==
  /\ stage = "route"
  /\ context = NoContext
  /\ status = "none" /\ intro = "none" /\ prose = NoProse
  /\ sections = {} /\ claims = {}
  /\ verifier = "none" /\ contract = "none"
  /\ refused = {}
  /\ audited = "no"

Goto(s) == stage' = s
At(s) == stage = s

-----------------------------------------------------------------------------
(* Before the draft.                                                       *)

\* _route_intent: a router that fails, or answers nonsense, routes to law.
Route ==
  /\ At("route")
  /\ \/ Goto("retrieve")
     \/ Goto("chat")
     \/ HasMatter /\ Goto("matter")
  /\ UNCHANGED <<context, outcome>> /\ Keep

\* record_answer swallows a failure of the store to add the record.
Record == audited' \in {"recorded", "failed"}

AnswerChat ==
  /\ At("chat")
  /\ Goto("done")
  /\ status' = "chat" /\ contract' = "skipped" /\ verifier' = "skipped"
  /\ Record
  /\ UNCHANGED <<context, intro, prose, sections, claims, refused>>

AnalyseMatter ==
  /\ At("matter")
  /\ Goto("done")
  /\ status' \in {"analysis", "abstain"} /\ contract' = "skipped" /\ verifier' = "skipped"
  /\ Record
  /\ UNCHANGED <<context, intro, prose, sections, claims, refused>>

BuildContext ==
  /\ At("retrieve")
  /\ Goto("draft")
  /\ context' \in Contexts
  /\ UNCHANGED outcome /\ Keep

\* The store or the model raises where nothing catches, and the payload is lost:
\* so does the contract on a number that is no integer, and record_answer when
\* it looks up the secret.
Fail ==
  /\ \/ stage \in {"chat", "matter", "retrieve", "draft", "render"}
     \/ At("contract") /\ status \in Legal
  /\ Goto("raised")
  /\ UNCHANGED <<context, outcome>> /\ Keep

-----------------------------------------------------------------------------
(* _validate_or_repair.                                                    *)

AcceptDraft ==
  /\ stage \in {"draft", "retry"}
  /\ \E d \in Drafts : Valid(d) /\ Become(Strict(d))
  /\ Goto("inner")
  /\ UNCHANGED <<context, outcome>>

\* A first draft that breaks the citation rules is not retried.
RefuseCitations ==
  /\ At("draft")
  /\ \E d \in Drafts : BreaksCitations(d)
  /\ \E p \in Abstentions : Become(p)
  /\ Goto("outer")
  /\ UNCHANGED <<context, outcome>>

\* No JSON object, or one that breaks the schema otherwise: once more.
AskAgain ==
  /\ At("draft")
  /\ Goto("retry")
  /\ UNCHANGED <<context, outcome>> /\ Keep

\* Whatever is wrong with the second draft, or the call failed.
GiveUp ==
  /\ At("retry")
  /\ \E p \in Abstentions : Become(p)
  /\ Goto("outer")
  /\ UNCHANGED <<context, outcome>>

-----------------------------------------------------------------------------
(* The repairs.                                                            *)

CoverageRequiresAnswer ==
  /\ status = "abstain"
  /\ context.official
  /\ context.planned => context.covered # {}

AfterRepair(s) == IF s = "inner" THEN "outer" ELSE "complete"

\* _repair_abstain_when_covered, called by _validate_or_repair and by answer:
\* only a grounded or limited payload replaces the abstention.
RepairAbstain ==
  /\ stage \in {"inner", "outer"}
  /\ CoverageRequiresAnswer
  /\ \/ \E d \in Drafts :
          Usable(d) /\ Repaired(d).status \in Legal /\ Become(Repaired(d))
     \/ Keep
  /\ stage' = AfterRepair(stage)
  /\ UNCHANGED <<context, outcome>>

NoRepairNeeded ==
  /\ stage \in {"inner", "outer"}
  /\ ~CoverageRequiresAnswer
  /\ stage' = AfterRepair(stage)
  /\ UNCHANGED <<context, outcome>> /\ Keep

\* _missing_covered_issue_requirements
Answers(c, i) == context.required[i] \in c.cites /\ c.issue \in {NoIssue, i}
Missing(p) ==
  IF p.status \in Legal
    THEN {i \in context.covered : \A c \in p.claims : ~Answers(c, i)}
    ELSE {}
MissingNow == Missing([status |-> status, claims |-> claims])

\* _repair_missing_covered_issues: fewer missing issues is all it asks for.
CompleteIssues ==
  /\ At("complete")
  /\ MissingNow # {}
  /\ \/ \E d \in Drafts :
          /\ Usable(d)
          /\ Cardinality(Missing(Repaired(d))) < Cardinality(MissingNow)
          /\ Become(Repaired(d))
     \/ Keep
  /\ Goto("operate")
  /\ UNCHANGED <<context, outcome>>

NothingMissing ==
  /\ At("complete")
  /\ MissingNow = {}
  /\ Goto("operate")
  /\ UNCHANGED <<context, outcome>> /\ Keep

\* _repair_operational_abstain: strict validation only.
RepairOperational ==
  /\ At("operate")
  /\ \/ /\ status = "abstain" /\ context.operational
        /\ \E d \in Drafts :
             Valid(d) /\ Strict(d).status \in Legal \cup {"operational"} /\ Become(Strict(d))
     \/ Keep
  /\ Goto("verify")
  /\ UNCHANGED <<context, outcome>>

-----------------------------------------------------------------------------
(* The gates.                                                              *)

\* _semantic_verify_payload: only a claim with supported = true stays.  No
\* usable verdict and no claim left both end in a fresh abstention.
Verify ==
  /\ At("verify")
  /\ status \in Legal /\ claims # {}
  /\ \E supported \in SUBSET claims :
       /\ refused' = refused \cup (claims \ supported)
       /\ \/ /\ supported = {}
             /\ \E p \in Abstentions : Become(p)
             /\ UNCHANGED verifier
          \/ /\ supported # {}
             /\ claims' = supported
             /\ status' = IF supported = claims THEN status ELSE "limited"
             /\ verifier' = IF supported = claims THEN "passed" ELSE "limited"
             /\ UNCHANGED <<intro, prose, sections>>
  /\ Goto("contract")
  /\ UNCHANGED <<context, contract, audited>>

\* Mutant: a verifier that fails lets the payload through.
VerifierFailsOpen ==
  /\ At("verify")
  /\ Goto("contract")
  /\ UNCHANGED <<context, outcome>> /\ Keep

NothingToVerify ==
  /\ At("verify")
  /\ ~(status \in Legal /\ claims # {})
  /\ Goto("contract")
  /\ UNCHANGED <<context, outcome>> /\ Keep

InForce(c) == c.cites \cap (context.blocked \cup context.expired) = {}
\* Mutant: the contract looks at the citations only.
AcceptableIfCited(c) == Cited(c)

\* _verify_claim, but for the numbers
Acceptable(c) == Cited(c) /\ InForce(c)

\* enforce_answer_contract: the numbers of a claim are what the model says they
\* are, so any acceptable claim may pass or not.
EnforceContract ==
  /\ At("contract")
  /\ status \in Legal
  /\ \E passed \in SUBSET {c \in claims : Acceptable(c)} :
       /\ refused' = refused \cup (claims \ passed)
       /\ claims' = passed
       /\ IF passed = {}
            THEN status' = "abstain" /\ intro' = "plain" /\ contract' = "failed"
            ELSE /\ status' = IF passed = claims THEN status ELSE "limited"
                 /\ contract' = IF passed = claims THEN "passed" ELSE "limited"
                 /\ UNCHANGED intro
  /\ Goto("net")
  /\ UNCHANGED <<context, prose, sections, verifier, audited>>

SkipContract ==
  /\ At("contract")
  /\ status \notin Legal
  /\ contract' = "skipped"
  /\ Goto("net")
  /\ UNCHANGED <<context, verifier, refused, audited>> /\ Keep

\* _safety_net_for_persistent_abstain: one claim for each covered issue whose
\* source is in evidence, written from the title of the source.
Coverable == {i \in context.covered : context.required[i] \in context.evidence}
Notice(i) == [text |-> context.titles[i], cites |-> {context.required[i]}, issue |-> i]
Notices == {Notice(i) : i \in Coverable}
\* Mutant: the net does not ask who refused.
NetAlwaysApplies == status = "abstain" /\ Coverable # {}

NetApplies ==
  /\ status = "abstain"
  /\ contract \in {"none", "skipped"}
  /\ verifier = "none"
  /\ intro = "dated"
  /\ Coverable # {}

SafetyNet ==
  /\ At("net")
  /\ IF NetApplies
       THEN /\ claims' = Notices
            /\ status' = "limited" /\ intro' = "plain" /\ contract' = "safety_net"
            /\ UNCHANGED <<prose, sections>>
       ELSE UNCHANGED contract /\ Keep
  /\ Goto("render")
  /\ UNCHANGED <<context, verifier, refused, audited>>

-----------------------------------------------------------------------------
(* _render and record_answer.                                              *)

\* _detect_unsupported_norm_references finds nothing without a norm to compare,
\* and does not look at case_facts and follow_up_questions.
StrayReference ==
  /\ context.signed
  /\ \/ intro = "stray"
     \/ prose.notes = "stray"
     \/ \E c \in claims \cup sections : c.text \in Strays

\* What is left of an answer that is withdrawn: its case_facts.
Withdrawn == [Abstention("plain") EXCEPT !.prose = [NoProse EXCEPT !.facts = prose.facts]]

Render ==
  /\ At("render")
  /\ IF status \in Legal \cup {"operational"} /\ StrayReference
       THEN Become(Withdrawn)
       ELSE Keep
  /\ Record
  /\ Goto("done")
  /\ UNCHANGED <<context, verifier, contract, refused>>

Validation == AcceptDraft \/ RefuseCitations \/ AskAgain \/ GiveUp
Repairs ==
  \/ RepairAbstain \/ NoRepairNeeded \/ CompleteIssues \/ NothingMissing \/ RepairOperational
Gates == Verify \/ NothingToVerify \/ EnforceContract \/ SkipContract \/ SafetyNet

Next ==
  \/ Route \/ AnswerChat \/ AnalyseMatter \/ BuildContext \/ Fail
  \/ Validation \/ Repairs \/ Gates \/ Render

\* The engine is straight-line code, and a call to the model returns or times out.
Spec == Init /\ [][Next]_vars /\ WF_vars(Next)

-----------------------------------------------------------------------------
(* Properties.                                                             *)

Done == stage = "done"
\* What the reader sees as law: the claims, and the items of legal sections,
\* which are shown as they were drafted even when a gate refused their claim.
Shown == claims \cup sections

\* The payload has the values the code gives it.
TypeOK ==
  /\ stage \in {"route", "chat", "matter", "retrieve", "draft", "retry", "inner", "outer",
                "complete", "operate", "verify", "contract", "net", "render", "done", "raised"}
  /\ context \in Contexts \cup {NoContext}
  /\ status \in Statuses \cup {"none", "analysis"}
  /\ intro \in Intros
  /\ prose \in Prose
  /\ sections \in SUBSET Claim
  /\ claims \in SUBSET Claim
  /\ verifier \in {"none", "passed", "limited", "skipped"}
  /\ contract \in {"none", "passed", "limited", "failed", "skipped", "safety_net"}
  /\ refused \in SUBSET Claim
  /\ audited \in {"no", "recorded", "failed"}

\* Every citation that is rendered is a source of the evidence: the lookups of
\* _render cannot fail, whichever repair, gate or fallback wrote the payload.
CitationsResolve ==
  Done => /\ \A c \in Shown : Cited(c)
          /\ prose.cites \subseteq context.evidence

\* A grounded answer lost no claim to a gate, and passed both.
GroundedIsWhole ==
  Done /\ status = "grounded" =>
    refused = {} /\ verifier = "passed" /\ contract = "passed" /\ claims # {}

\* payload["claims"] of a finished answer holds no claim that verifier or
\* contract refused and none on law that is abrogated or out of force, whatever
\* ran after them; only the safety net may write others, and then all are its own.
\* (This says nothing of sections, and the net's claims are not tested for force.)
ClaimsStand ==
  Done => \A c \in claims : IF contract = "safety_net"
                              THEN c \in Notices
                              ELSE c \notin refused /\ InForce(c)

\* Once the contract has refused every claim, no later stage answers after all.
ContractRefusalStands ==
  [][contract = "failed" =>
       contract' = "failed" /\ status' = "abstain" /\ claims' = {}]_vars
=============================================================================
