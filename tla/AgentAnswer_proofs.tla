------------------------- MODULE AgentAnswer_proofs -------------------------
(***************************************************************************)
(* Theorems about AnswerEngine, and about AgentAnswer, which extends it:   *)
(* proved for every set of sources, issues and texts, every context the    *)
(* retrieval may build and everything the model may return.                *)
(***************************************************************************)
EXTENDS AgentAnswer, TLAPS

(* The engine.                                                             *)

PayloadTyped ==
  /\ status \in Statuses \cup {"none", "analysis"}
  /\ intro \in Intros
  /\ prose \in Prose
  /\ sections \in SUBSET Claim
  /\ claims \in SUBSET Claim

\* Whatever wrote the payload, it cites what was retrieved, and only an answer
\* of law carries claims.
PayloadInv ==
  /\ \A c \in claims \cup sections : Cited(c)
  /\ prose.cites \subseteq context.evidence
  /\ status \notin Legal => claims = {}

BeforeLaw == stage \in {"route", "chat", "matter", "retrieve", "draft", "retry"}
BeforeGates == BeforeLaw \/ stage \in {"inner", "outer", "complete", "operate", "verify"}
AfterGates == stage \in {"net", "render", "done"}

\* What is left in payload["claims"] once both gates have spoken.
Stands(c) ==
  IF contract = "safety_net" THEN c \in Notices ELSE c \notin refused /\ InForce(c)

\* How far the payload has come: nothing before the draft, nothing refused
\* before the gates, and after each gate what that gate lets through.
GateInv ==
  /\ BeforeLaw => claims = {} /\ sections = {} /\ prose = NoProse /\ status = "none"
  /\ BeforeGates => refused = {} /\ contract = "none" /\ verifier = "none"
  /\ stage = "contract" =>
       /\ contract = "none"
       /\ claims \cap refused = {}
       /\ status = "grounded" /\ claims # {} => refused = {} /\ verifier = "passed"
  /\ AfterGates =>
       /\ \A c \in claims : Stands(c)
       /\ status = "grounded" =>
            refused = {} /\ verifier = "passed" /\ contract = "passed" /\ claims # {}
  /\ contract = "failed" => status = "abstain" /\ claims = {}

Inv == TypeOK /\ PayloadInv /\ GateInv

\* What every payload that replaces another one must be.
Good(p) ==
  /\ p.status \in Statuses /\ p.intro \in Intros /\ p.prose \in Prose
  /\ p.sections \in SUBSET Claim /\ p.claims \in SUBSET Claim
  /\ \A c \in p.claims \cup p.sections : Cited(c)
  /\ p.prose.cites \subseteq context.evidence
  /\ p.status \notin Legal => p.claims = {}

-----------------------------------------------------------------------------
\* Strict validation lets through only citations of retrieved sources, and no
\* claim of an answer that is not one of law.
LEMMA StrictIsGood == ASSUME NEW d \in Drafts, Valid(d) PROVE Good(Strict(d))
  <1>1. d \in Draft
    BY DraftsAssumption
  <1>2. d.status \in Statuses \cup {"unknown"} /\ d.intro \in Intros /\ d.prose \in Prose
        /\ d.claims \in SUBSET Claim /\ d.sections \in SUBSET Claim
    BY <1>1 DEF Draft
  <1>3. d.status \in Statuses
    BY DEF Valid, BreaksSchema
  <1>4. (\A c \in AllClaims(d) : Cited(c)) /\ d.prose.cites \subseteq context.evidence
    BY <1>3 DEF Valid, BreaksCitations
  <1>5. LegalItems(d) \subseteq AllClaims(d) /\ AllClaims(d) \in SUBSET Claim
    BY <1>2 DEF AllClaims, LegalItems
  <1>6. /\ Strict(d).status = IF d.status = "operational" /\ AllClaims(d) # {}
                                THEN "limited" ELSE d.status
        /\ Strict(d).intro = d.intro /\ Strict(d).prose = ProseOf(d)
        /\ Strict(d).sections = LegalItems(d)
        /\ Strict(d).claims = IF d.status \in {"chat", "abstain"} THEN {} ELSE AllClaims(d)
    BY DEF Strict
  <1>7. Strict(d).status \in Statuses
    BY <1>3, <1>6 DEF Statuses
  <1>8. Strict(d).status \notin Legal => Strict(d).claims = {}
    BY <1>3, <1>6 DEF Statuses, Legal
  <1>9. \A c \in Strict(d).claims \cup Strict(d).sections : Cited(c)
    BY <1>4, <1>5, <1>6
  <1>10. ProseOf(d) \in Prose /\ ProseOf(d).cites \subseteq context.evidence
    BY <1>2, <1>4 DEF ProseOf, Prose
  <1>. QED BY <1>2, <1>5, <1>6, <1>7, <1>8, <1>9, <1>10 DEF Good

\* Cutting the citations outside the evidence leaves claims that cite it.
LEMMA LenientIsGood == ASSUME NEW d \in Drafts, Recoverable(d) PROVE Good(Lenient(d))
  <1>1. d \in Draft
    BY DraftsAssumption
  <1>2. d.intro \in Intros /\ d.claims \in SUBSET Claim /\ d.prose \in Prose
    BY <1>1 DEF Draft
  <1>3. ASSUME NEW c \in Retrieved(d)
        PROVE  LET t == [c EXCEPT !.cites = @ \cap context.evidence] IN t \in Claim /\ Cited(t)
    <2>1. c \in Claim /\ c.cites \cap context.evidence # {}
      BY <1>2 DEF Retrieved
    <2>. QED BY <2>1 DEF Claim, Cited
  <1>4. Trimmed(d) \in SUBSET Claim /\ \A c \in Trimmed(d) : Cited(c)
    BY <1>3 DEF Trimmed
  <1>5. /\ Lenient(d).status = IF Retrieved(d) # d.claims THEN "limited" ELSE d.status
        /\ Lenient(d).intro = d.intro /\ Lenient(d).prose = [NoProse EXCEPT !.asks = d.prose.asks]
        /\ Lenient(d).sections = {} /\ Lenient(d).claims = Trimmed(d)
    BY DEF Lenient
  <1>6. Lenient(d).status \in Legal
    BY <1>5 DEF Recoverable, Legal
  <1>7. Lenient(d).prose \in Prose /\ Lenient(d).prose.cites = {}
    BY <1>2, <1>5 DEF NoProse, Prose, Notes
  <1>. QED BY <1>2, <1>4, <1>5, <1>6, <1>7 DEF Good, Legal, Statuses

\* A repair writes what one of the two validations lets through.
LEMMA RepairedIsGood == ASSUME NEW d \in Drafts, Usable(d) PROVE Good(Repaired(d))
  BY StrictIsGood, LenientIsGood DEF Usable, Repaired

\* An abstention carries nothing.
LEMMA AbstentionIsGood == ASSUME NEW i \in Intros PROVE Good(Abstention(i))
  BY DEF Good, Abstention, Statuses, Legal, Notes, NoProse, Prose

\* What is left of a withdrawn answer is an abstention as well.
LEMMA WithdrawnIsGood == ASSUME prose \in Prose PROVE Good(Withdrawn)
  <1>1. /\ Withdrawn.status = "abstain" /\ Withdrawn.intro = "plain"
        /\ Withdrawn.sections = {} /\ Withdrawn.claims = {}
        /\ Withdrawn.prose = [NoProse EXCEPT !.facts = prose.facts]
    BY DEF Withdrawn, Abstention
  <1>2. Withdrawn.prose \in Prose /\ Withdrawn.prose.cites = {}
    BY <1>1 DEF NoProse, Prose, Notes
  <1>. QED BY <1>1, <1>2 DEF Good, Statuses, Legal, Intros

\* A good payload keeps the payload well typed and within the evidence.
LEMMA BecomeGood ==
  ASSUME NEW p, Good(p), Become(p), UNCHANGED context
  PROVE  PayloadTyped' /\ PayloadInv'
  BY DEF Good, Become, PayloadTyped, PayloadInv, Cited
-----------------------------------------------------------------------------
(* The payload.                                                            *)

\* Nothing is decided when the engine starts.
LEMMA InvInit == ASSUME Init PROVE Inv
  <1>1. TypeOK
    BY DEF Init, TypeOK, Intros, Notes, NoProse, Prose
  <1>2. PayloadInv /\ GateInv
    BY DEF Init, PayloadInv, GateInv, BeforeLaw, BeforeGates, AfterGates, Legal, NoProse
  <1>. QED BY <1>1, <1>2 DEF Inv

\* The evidence is official sources.
LEMMA EvidenceTyped == ASSUME TypeOK PROVE context.evidence \subseteq Docs
  <1>1. CASE context = NoContext
    BY <1>1 DEF NoContext
  <1>2. CASE context \in Contexts
    BY <1>2, ContextsAssumption DEF Context
  <1>. QED BY <1>1, <1>2 DEF TypeOK

\* What the safety net writes are claims that cite sources of the evidence.
LEMMA NoticesAreCited == ASSUME TypeOK PROVE Notices \in SUBSET Claim /\ \A c \in Notices : Cited(c)
  <1>. SUFFICES ASSUME NEW i \in Coverable PROVE Notice(i) \in Claim /\ Cited(Notice(i))
    BY DEF Notices
  <1>1. context \in Contexts
    BY DEF TypeOK, Coverable, NoContext
  <1>2. /\ context.covered \subseteq Issues
        /\ context.required \in [Issues -> Docs] /\ context.titles \in [Issues -> Texts]
    BY <1>1, ContextsAssumption DEF Context
  <1>3. i \in Issues /\ context.required[i] \in context.evidence
    BY <1>2 DEF Coverable
  <1>. QED BY <1>2, <1>3 DEF Notice, Claim, Cited

\* Every step leaves a payload that is well typed and cites what was retrieved.
LEMMA PayloadStep == ASSUME Inv, [Next]_vars PROVE PayloadTyped' /\ PayloadInv'
  <1>1. PayloadTyped /\ PayloadInv
    BY DEF Inv, TypeOK, PayloadTyped
  <1>2. ASSUME UNCHANGED <<context, status, intro, prose, sections, claims>>
        PROVE  PayloadTyped' /\ PayloadInv'
    BY <1>1, <1>2 DEF PayloadTyped, PayloadInv, Cited
  <1>3. CASE Route \/ Fail \/ AskAgain \/ NoRepairNeeded \/ NothingMissing
             \/ NothingToVerify \/ SkipContract \/ UNCHANGED vars
    BY <1>2, <1>3 DEF Route, Fail, AskAgain, NoRepairNeeded, NothingMissing,
                      NothingToVerify, SkipContract, Keep, vars
  <1>4. CASE AnswerChat \/ AnalyseMatter
    <2>1. claims = {} /\ sections = {} /\ prose.cites = {}
      BY <1>4 DEF NoProse, AnswerChat, AnalyseMatter, At, Inv, GateInv, BeforeLaw
    <2>. QED BY <1>1, <1>4, <2>1 DEF AnswerChat, AnalyseMatter, PayloadTyped, PayloadInv, Statuses
  <1>5. CASE BuildContext
    <2>1. claims = {} /\ sections = {} /\ prose.cites = {}
      BY <1>5 DEF NoProse, BuildContext, At, Inv, GateInv, BeforeLaw
    <2>. QED BY <1>1, <1>5, <2>1 DEF BuildContext, Keep, PayloadTyped, PayloadInv
  <1>6. CASE AcceptDraft
    <2>1. PICK d \in Drafts : Valid(d) /\ Become(Strict(d))
      BY <1>6 DEF AcceptDraft
    <2>. QED BY <1>6, <2>1, StrictIsGood, BecomeGood DEF AcceptDraft
  <1>7. CASE RefuseCitations \/ GiveUp
    <2>1. PICK i \in Intros : Become(Abstention(i))
      BY <1>7 DEF RefuseCitations, GiveUp, Abstentions
    <2>2. Good(Abstention(i))
      BY AbstentionIsGood
    <2>. QED BY <1>7, <2>1, <2>2, BecomeGood DEF RefuseCitations, GiveUp
  <1>8. CASE RepairAbstain
    <2>1. CASE Keep
      BY <1>2, <1>8, <2>1 DEF RepairAbstain, Keep
    <2>2. CASE ~Keep
      <3>1. PICK d \in Drafts : Usable(d) /\ Become(Repaired(d))
        BY <1>8, <2>2 DEF RepairAbstain
      <3>. QED BY <1>8, <3>1, RepairedIsGood, BecomeGood DEF RepairAbstain
    <2>. QED BY <2>1, <2>2
  <1>9. CASE CompleteIssues
    <2>1. CASE Keep
      BY <1>2, <1>9, <2>1 DEF CompleteIssues, Keep
    <2>2. CASE ~Keep
      <3>1. PICK d \in Drafts : Usable(d) /\ Become(Repaired(d))
        BY <1>9, <2>2 DEF CompleteIssues
      <3>. QED BY <1>9, <3>1, RepairedIsGood, BecomeGood DEF CompleteIssues
    <2>. QED BY <2>1, <2>2
  <1>10. CASE RepairOperational
    <2>1. CASE Keep
      BY <1>2, <1>10, <2>1 DEF RepairOperational, Keep
    <2>2. CASE ~Keep
      <3>1. PICK d \in Drafts : Valid(d) /\ Become(Strict(d))
        BY <1>10, <2>2 DEF RepairOperational
      <3>. QED BY <1>10, <3>1, StrictIsGood, BecomeGood DEF RepairOperational
    <2>. QED BY <2>1, <2>2
  <1>11. CASE Verify
    <2>1. PICK supported \in SUBSET claims :
             \/ \E p \in Abstentions : Become(p)
             \/ /\ supported # {}
                /\ claims' = supported
                /\ status' = IF supported = claims THEN status ELSE "limited"
                /\ UNCHANGED <<intro, prose, sections>>
      BY <1>11 DEF Verify
    <2>2. CASE \E p \in Abstentions : Become(p)
      <3>1. PICK i \in Intros : Become(Abstention(i))
        BY <2>2 DEF Abstentions
      <3>2. Good(Abstention(i))
        BY AbstentionIsGood
      <3>. QED BY <1>11, <3>1, <3>2, BecomeGood DEF Verify
    <2>3. CASE claims' = supported /\ UNCHANGED <<intro, prose, sections>>
               /\ status' = IF supported = claims THEN status ELSE "limited"
      <3>1. status \in Legal /\ UNCHANGED context
        BY <1>11 DEF Verify
      <3>2. PayloadTyped'
        BY <1>1, <2>3, <3>1 DEF PayloadTyped, Statuses
      <3>3. status' \in Legal
        BY <2>3, <3>1 DEF Legal
      <3>. QED BY <1>1, <2>3, <3>1, <3>2, <3>3 DEF PayloadInv, Cited
    <2>. QED BY <2>1, <2>2, <2>3
  <1>12. CASE EnforceContract
    <2>1. PICK passed \in SUBSET {c \in claims : Acceptable(c)} :
             /\ claims' = passed
             /\ IF passed = {}
                  THEN status' = "abstain" /\ intro' = "plain"
                  ELSE /\ status' = IF passed = claims THEN status ELSE "limited"
                       /\ UNCHANGED intro
      BY <1>12 DEF EnforceContract
    <2>2. UNCHANGED <<context, prose, sections>> /\ status \in Legal
      BY <1>12 DEF EnforceContract
    <2>3. PayloadTyped'
      BY <1>1, <2>1, <2>2 DEF PayloadTyped, Statuses, Intros
    <2>4. \A c \in (claims \cup sections)' : Cited(c)'
      BY <1>1, <2>1, <2>2 DEF PayloadInv, Cited
    <2>5. status' \notin Legal => claims' = {}
      BY <2>1, <2>2 DEF Legal
    <2>6. (prose.cites \subseteq context.evidence)'
      BY <1>1, <2>2 DEF PayloadInv
    <2>. QED BY <2>3, <2>4, <2>5, <2>6 DEF PayloadInv
  <1>13. CASE SafetyNet
    <2>1. CASE NetApplies
      <3>1. Notices \in SUBSET Claim /\ \A c \in Notices : Cited(c)
        BY NoticesAreCited DEF Inv
      <3>2. /\ claims' = Notices /\ status' = "limited" /\ intro' = "plain"
            /\ UNCHANGED <<context, prose, sections>>
        BY <1>13, <2>1 DEF SafetyNet
      <3>. QED BY <1>1, <3>1, <3>2 DEF PayloadTyped, PayloadInv, Statuses, Legal, Intros, Cited
    <2>2. CASE ~NetApplies
      BY <1>2, <1>13, <2>2 DEF SafetyNet, Keep
    <2>. QED BY <2>1, <2>2
  <1>14. CASE Render
    <2>1. CASE Keep
      BY <1>2, <1>14, <2>1 DEF Render, Keep
    <2>2. CASE ~Keep
      <3>1. Become(Withdrawn) /\ Good(Withdrawn) /\ UNCHANGED context
        BY <1>1, <1>14, <2>2, WithdrawnIsGood DEF Render, PayloadTyped
      <3>. QED BY <3>1, BecomeGood
    <2>. QED BY <2>1, <2>2
  <1>. QED BY <1>3, <1>4, <1>5, <1>6, <1>7, <1>8, <1>9, <1>10, <1>11, <1>12, <1>13, <1>14
           DEF Next, Validation, Repairs, Gates

-----------------------------------------------------------------------------
(* The gates.                                                              *)

\* The variables that are not the payload keep their types.
LEMMA TypeStep == ASSUME Inv, [Next]_vars PROVE TypeOK'
  <1>1. PayloadTyped'
    BY PayloadStep
  <1>2. context' \in Contexts \cup {NoContext}
    BY DEF Inv, TypeOK, Next, vars, Validation, Repairs, Gates, Route, AnswerChat, AnalyseMatter,
           BuildContext, Fail, AcceptDraft, RefuseCitations, AskAgain, GiveUp, RepairAbstain,
           NoRepairNeeded, CompleteIssues, NothingMissing, RepairOperational, Verify,
           NothingToVerify, EnforceContract, SkipContract, SafetyNet, Render
  <1>3. stage' \in {"route", "chat", "matter", "retrieve", "draft", "retry", "inner", "outer",
                    "complete", "operate", "verify", "contract", "net", "render", "done", "raised"}
    BY DEF Inv, TypeOK, Next, vars, Validation, Repairs, Gates, Route, AnswerChat, AnalyseMatter,
           BuildContext, Fail, AcceptDraft, RefuseCitations, AskAgain, GiveUp, RepairAbstain,
           NoRepairNeeded, CompleteIssues, NothingMissing, RepairOperational, Verify, AfterRepair,
           NothingToVerify, EnforceContract, SkipContract, SafetyNet, Render, Goto
  <1>4. /\ verifier' \in {"none", "passed", "limited", "skipped"}
        /\ contract' \in {"none", "passed", "limited", "failed", "skipped", "safety_net"}
        /\ audited' \in {"no", "recorded", "failed"}
    BY DEF Inv, TypeOK, Next, vars, Validation, Repairs, Gates, Route, AnswerChat, AnalyseMatter,
           BuildContext, Fail, AcceptDraft, RefuseCitations, AskAgain, GiveUp, RepairAbstain,
           NoRepairNeeded, CompleteIssues, NothingMissing, RepairOperational, Verify, Record,
           NothingToVerify, EnforceContract, SkipContract, SafetyNet, Render, outcome
  <1>5. refused' \in SUBSET Claim
    BY DEF Inv, TypeOK, Next, vars, Validation, Repairs, Gates, Route, AnswerChat, AnalyseMatter,
           BuildContext, Fail, AcceptDraft, RefuseCitations, AskAgain, GiveUp, RepairAbstain,
           NoRepairNeeded, CompleteIssues, NothingMissing, RepairOperational, Verify,
           NothingToVerify, EnforceContract, SkipContract, SafetyNet, Render, outcome
  <1>. QED BY <1>1, <1>2, <1>3, <1>4, <1>5 DEF PayloadTyped, TypeOK

\* A claim stands as long as the verdicts stay.
LEMMA StandsStays ==
  ASSUME UNCHANGED <<context, contract, refused>>, NEW c
  PROVE  Stands(c)' <=> Stands(c)
  BY DEF Stands, Notices, Notice, Coverable, InForce

\* Each gate lets through what it says: a refused claim is gone, a source that
\* is not in force is not cited, and only both verdicts together leave an
\* answer grounded.
LEMMA GateStep == ASSUME Inv, [Next]_vars PROVE GateInv'
  <1> USE DEF Inv, GateInv, BeforeLaw, BeforeGates, AfterGates
  <1>1. CASE Route \/ AskAgain
    BY <1>1 DEF Route, AskAgain, Keep, outcome, At, Goto
  <1>13. CASE Fail
    BY <1>13 DEF Fail, Keep, outcome, At, Goto
  <1>2. CASE AnswerChat \/ AnalyseMatter
    <2>1. /\ stage' = "done" /\ refused' = {} /\ claims' = {}
          /\ status' \in {"chat", "analysis", "abstain"} /\ contract' = "skipped"
      BY <1>2 DEF AnswerChat, AnalyseMatter, At, Goto
    <2>. QED BY <2>1 DEF Legal
  <1>3. CASE BuildContext
    BY <1>3 DEF BuildContext, Keep, outcome, At, Goto
  <1>4. CASE AcceptDraft \/ RefuseCitations \/ GiveUp \/ RepairAbstain \/ NoRepairNeeded
             \/ CompleteIssues \/ NothingMissing \/ RepairOperational
    <2>1. stage' \in {"inner", "outer", "complete", "operate", "verify"}
      BY <1>4 DEF AcceptDraft, RefuseCitations, GiveUp, RepairAbstain, NoRepairNeeded,
                  CompleteIssues, NothingMissing, RepairOperational, AfterRepair, Goto
    <2>2. UNCHANGED <<refused, contract, verifier>>
      BY <1>4 DEF AcceptDraft, RefuseCitations, GiveUp, RepairAbstain, NoRepairNeeded,
                  CompleteIssues, NothingMissing, RepairOperational, outcome
    <2>3. BeforeGates
      BY <1>4 DEF AcceptDraft, RefuseCitations, GiveUp, RepairAbstain, NoRepairNeeded,
                  CompleteIssues, NothingMissing, RepairOperational, At
    <2>. QED BY <2>1, <2>2, <2>3
  <1>6. CASE Verify
    <2>1. PICK supported \in SUBSET claims :
             /\ refused' = refused \cup (claims \ supported)
             /\ \/ /\ supported = {}
                   /\ \E p \in Abstentions : Become(p)
                \/ /\ supported # {}
                   /\ claims' = supported
                   /\ status' = IF supported = claims THEN status ELSE "limited"
                   /\ verifier' = IF supported = claims THEN "passed" ELSE "limited"
      BY <1>6 DEF Verify
    <2>2. refused = {} /\ stage' = "contract" /\ contract' = "none"
      BY <1>6 DEF Verify, At, Goto
    <2>3. CASE \E p \in Abstentions : Become(p)
      <3>1. status' = "abstain" /\ claims' = {}
        BY <2>3 DEF Abstentions, Abstention, Become
      <3>. QED BY <2>2, <3>1
    <2>4. CASE /\ claims' = supported /\ supported # {}
               /\ status' = IF supported = claims THEN status ELSE "limited"
               /\ verifier' = IF supported = claims THEN "passed" ELSE "limited"
      <3>1. claims' \cap refused' = {}
        BY <2>1, <2>2, <2>4
      <3>2. ASSUME status' = "grounded", claims' # {}
            PROVE  refused' = {} /\ verifier' = "passed"
        <4>1. supported = claims
          BY <2>4, <3>2
        <4>. QED BY <2>1, <2>2, <2>4, <4>1
      <3>. QED BY <2>2, <3>1, <3>2
    <2>. QED BY <2>1, <2>3, <2>4
  <1>7. CASE NothingToVerify
    <2>1. claims = {} \/ status \notin Legal
      BY <1>7 DEF NothingToVerify
    <2>2. claims = {}
      BY <2>1 DEF PayloadInv
    <2>. QED BY <1>7, <2>2 DEF NothingToVerify, Keep, outcome, At, Goto
  <1>8. CASE EnforceContract
    <2>1. PICK passed \in SUBSET {c \in claims : Acceptable(c)} :
             /\ refused' = refused \cup (claims \ passed)
             /\ claims' = passed
             /\ IF passed = {}
                  THEN status' = "abstain" /\ contract' = "failed"
                  ELSE /\ status' = IF passed = claims THEN status ELSE "limited"
                       /\ contract' = IF passed = claims THEN "passed" ELSE "limited"
      BY <1>8 DEF EnforceContract
    <2>2. /\ stage' = "net" /\ UNCHANGED <<context, verifier>>
          /\ claims \cap refused = {}
          /\ status = "grounded" /\ claims # {} => refused = {} /\ verifier = "passed"
      BY <1>8 DEF EnforceContract, At, Goto
    <2>3. claims' \cap refused' = {}
      BY <2>1, <2>2
    <2>4. \A c \in claims' : Stands(c)'
      BY <2>1, <2>2, <2>3 DEF Acceptable, InForce, Stands
    <2>5. status' = "grounded" =>
            refused' = {} /\ verifier' = "passed" /\ contract' = "passed" /\ claims' # {}
      BY <2>1, <2>2
    <2>6. contract' = "failed" => status' = "abstain" /\ claims' = {}
      BY <2>1
    <2>. QED BY <2>2, <2>4, <2>5, <2>6
  <1>9. CASE SkipContract
    <2>1. claims = {} /\ status # "grounded"
      BY <1>9 DEF SkipContract, PayloadInv, Legal
    <2>. QED BY <1>9, <2>1 DEF SkipContract, Keep, At, Goto
  <1>10. CASE SafetyNet
    <2>1. stage = "net" /\ stage' = "render" /\ UNCHANGED <<context, verifier, refused>>
      BY <1>10 DEF SafetyNet, At, Goto
    <2>2. CASE NetApplies
      <3>1. /\ claims' = Notices /\ status' = "limited" /\ contract' = "safety_net"
        BY <1>10, <2>2 DEF SafetyNet
      <3>2. Notices' = Notices
        BY <2>1 DEF Notices, Notice, Coverable
      <3>3. \A c \in claims' : Stands(c)'
        BY <3>1, <3>2 DEF Stands
      <3>. QED BY <2>1, <3>1, <3>3
    <2>3. CASE ~NetApplies
      <3>1. UNCHANGED <<contract, claims, status>>
        BY <1>10, <2>3 DEF SafetyNet, Keep
      <3>. QED BY <2>1, <3>1, StandsStays
    <2>. QED BY <2>2, <2>3
  <1>11. CASE Render
    <2>1. stage = "render" /\ stage' = "done" /\ UNCHANGED <<context, verifier, contract, refused>>
      BY <1>11 DEF Render, At, Goto
    <2>2. CASE status \in Legal \cup {"operational"} /\ StrayReference
      <3>1. status' = "abstain" /\ claims' = {}
        BY <1>11, <2>2 DEF Render, Become, Withdrawn, Abstention
      <3>. QED BY <2>1, <3>1
    <2>3. CASE ~(status \in Legal \cup {"operational"} /\ StrayReference)
      <3>1. UNCHANGED <<status, claims>>
        BY <1>11, <2>3 DEF Render, Keep
      <3>. QED BY <2>1, <3>1, StandsStays
    <2>. QED BY <2>2, <2>3
  <1>12. CASE UNCHANGED vars
    BY <1>12, StandsStays DEF vars
  <1>. QED BY <1>1, <1>2, <1>3, <1>4, <1>6, <1>7, <1>8, <1>9, <1>10, <1>11, <1>12, <1>13
           DEF Next, Validation, Repairs, Gates

-----------------------------------------------------------------------------
\* The invariant holds in every reachable state.
THEOREM Invariance == Spec => []Inv
  <1>1. Inv /\ [Next]_vars => Inv'
    BY TypeStep, PayloadStep, GateStep DEF Inv
  <1>. QED BY InvInit, <1>1, PTL DEF Spec

\* Type correctness, whatever the model returns and the retrieval finds.
THEOREM TypeCorrect == Spec => []TypeOK
  <1>1. Inv => TypeOK BY DEF Inv
  <1>. QED BY <1>1, Invariance, PTL

\* No answer cites a source that was not retrieved.
THEOREM CitationsAlwaysResolve == Spec => []CitationsResolve
  <1>1. Inv => CitationsResolve
    BY DEF Inv, PayloadInv, GateInv, AfterGates, CitationsResolve, Done, Shown
  <1>. QED BY <1>1, Invariance, PTL

\* An answer called grounded lost nothing to the verifier or the contract.
THEOREM GroundedAnswersAreWhole == Spec => []GroundedIsWhole
  <1>1. Inv => GroundedIsWhole
    BY DEF Inv, GateInv, AfterGates, GroundedIsWhole, Done
  <1>. QED BY <1>1, Invariance, PTL

\* No stage after the gates brings a refused claim, or one on law out of force,
\* back into payload["claims"], and the safety net leaves none but its own.
THEOREM GatesHold == Spec => []ClaimsStand
  <1>1. Inv => ClaimsStand
    BY DEF Inv, GateInv, AfterGates, ClaimsStand, Stands, Done
  <1>. QED BY <1>1, Invariance, PTL

\* Once the contract has refused every claim the answer stays an abstention:
\* the safety net and the rendering, which still follow, do not answer.
THEOREM RefusalIsFinal == Spec => ContractRefusalStands
  <1>1. Inv /\ [Next]_vars => [contract = "failed" =>
          contract' = "failed" /\ status' = "abstain" /\ claims' = {}]_vars
    <2>. SUFFICES ASSUME Inv, Next, contract = "failed"
                  PROVE  contract' = "failed" /\ status' = "abstain" /\ claims' = {}
      OBVIOUS
    <2>1. (AfterGates \/ stage = "raised") /\ status = "abstain" /\ claims = {}
      BY DEF Inv, TypeOK, GateInv, BeforeGates, BeforeLaw, AfterGates
    <2>2. SafetyNet \/ Render \/ Fail
      BY <2>1 DEF Next, Route, AnswerChat, AnalyseMatter, BuildContext, Fail, Validation, Repairs,
         Gates, AcceptDraft, RefuseCitations, AskAgain, GiveUp, RepairAbstain, NoRepairNeeded,
         CompleteIssues, NothingMissing, RepairOperational, Verify, NothingToVerify,
         EnforceContract, SkipContract, AfterGates, At
    <2>3. CASE SafetyNet
      BY <2>1, <2>3 DEF SafetyNet, NetApplies, Keep
    <2>4. CASE Render
      BY <2>1, <2>4 DEF Render, Become, Withdrawn, Abstention, Keep, Legal
    <2>5. CASE Fail
      BY <2>1, <2>5 DEF Fail, Keep, outcome
    <2>. QED BY <2>2, <2>3, <2>4, <2>5
  <1>. QED BY <1>1, Invariance, PTL DEF Spec, ContractRefusalStands

-----------------------------------------------------------------------------
(* The agent, over the invariant of the engine.                            *)

Ended == {"done", "raised"}

\* An answer of the engine has been recorded, or its record lost.
EndInv == stage = "done" => audited # "no"

\* The agent answers once, after the engine has ended if it asked it.
AgentInv ==
  /\ step # "answered" => final = Pending
  /\ step \in {"compose", "finish"} => stage \in Ended
  /\ AgentTypeOK /\ OnlyLawIsCited /\ PassedOnIsFinished

IInv == Inv /\ EndInv /\ AgentInv

-----------------------------------------------------------------------------
\* The steps that end the engine with an answer write the record first.
LEMMA EndStep == ASSUME EndInv, [Next]_vars PROVE EndInv'
  <1>1. CASE UNCHANGED vars
    BY <1>1 DEF EndInv, vars
  <1>2. CASE AnswerChat \/ AnalyseMatter \/ Render
    BY <1>2 DEF EndInv, AnswerChat, AnalyseMatter, Render, Record, Goto
  <1>3. CASE Fail \/ Route \/ BuildContext \/ Validation \/ Repairs \/ Gates
    <2>1. stage' # "done"
      BY <1>3 DEF Fail, Route, BuildContext, Validation, Repairs, Gates, AcceptDraft,
                  RefuseCitations, AskAgain, GiveUp, RepairAbstain, NoRepairNeeded,
                  CompleteIssues, NothingMissing, RepairOperational, Verify, NothingToVerify,
                  EnforceContract, SkipContract, SafetyNet, AfterRepair, Goto
    <2>. QED BY <2>1 DEF EndInv
  <1>. QED BY <1>1, <1>2, <1>3 DEF Next

\* The citations of the engine's answer are retrieved sources.
LEMMA ResultIsCited ==
  ASSUME Inv
  PROVE  ResultCites \subseteq Docs /\ ResultCites \subseteq context.evidence
  <1>1. context.evidence \subseteq Docs
    BY EvidenceTyped DEF Inv
  <1>2. prose.cites \subseteq context.evidence
        /\ \A c \in claims \cup sections : c.cites \subseteq context.evidence
    BY DEF Inv, PayloadInv, Cited
  <1>3. UNION {c.cites : c \in claims \cup sections} \subseteq context.evidence
    BY <1>2
  <1>. QED BY <1>1, <1>2, <1>3 DEF ResultCites

\* Initially nothing is answered.
LEMMA IInvInit == AgentInit => IInv
  <1>. SUFFICES ASSUME AgentInit PROVE IInv
    OBVIOUS
  <1>1. Inv
    BY InvInit DEF AgentInit
  <1>2. EndInv
    BY DEF AgentInit, Init, EndInv
  <1>3. AgentInv
    BY DEF AgentInit, Init, AgentInv, AgentTypeOK, OnlyLawIsCited, PassedOnIsFinished,
           Pending, Answer, Statuses
  <1>. QED BY <1>1, <1>2, <1>3 DEF IInv

\* Every step of the agent keeps the invariant.
LEMMA AgentStep == ASSUME IInv, [AgentNext]_agentVars PROVE IInv'
  <1>. USE DEF IInv
  <1>1. [Next]_vars
    BY DEF AgentNext, agentVars, vars, Plan, DirectChat, SearchMemory, InspectMatter, RunEngine,
           EngineReturns, Compose, Finish
  <1>2. Inv'
    BY <1>1, TypeStep, PayloadStep, GateStep DEF Inv
  <1>3. EndInv'
    BY <1>1, EndStep
  <1>4. AgentInv'
    <2>1. CASE UNCHANGED agentVars
      BY <2>1 DEF agentVars, AgentInv, AgentTypeOK, OnlyLawIsCited, PassedOnIsFinished
    <2>2. CASE Plan \/ SearchMemory \/ InspectMatter \/ RunEngine \/ EngineReturns
      <3>1. final = Pending /\ final' = Pending /\ step' # "answered"
        BY <2>2 DEF AgentInv, Plan, SearchMemory, InspectMatter, RunEngine, EngineReturns, agent
      <3>2. step' \in {"plan", "chat", "memory", "matter", "legal", "compose", "finish"}
            /\ composing' \in BOOLEAN
        BY <2>2 DEF AgentInv, AgentTypeOK, Plan, SearchMemory, InspectMatter, RunEngine,
                    EngineReturns, agent
      <3>3. step' \in {"compose", "finish"} => stage' \in Ended
        BY <2>2 DEF AgentInv, Plan, SearchMemory, InspectMatter, RunEngine, EngineReturns, agent,
                    vars, Ended
      <3>4. (OnlyLawIsCited /\ PassedOnIsFinished)'
        BY <3>1 DEF Pending, Answer, OnlyLawIsCited, PassedOnIsFinished
      <3>5. AgentTypeOK'
        BY <3>1, <3>2 DEF Pending, Answer, AgentTypeOK
      <3>. QED BY <3>1, <3>3, <3>4, <3>5 DEF AgentInv
    <2>3. CASE DirectChat
      BY <2>3 DEF DirectChat, AgentInv, AgentTypeOK, OnlyLawIsCited, PassedOnIsFinished,
                  Answer, Statuses
    <2>4. CASE Compose
      <3>1. stage \in Ended /\ UNCHANGED vars /\ step' = "answered" /\ UNCHANGED composing
        BY <2>4 DEF Compose, AgentInv
      <3>2. PICK s \in Composable,
                 k \in {"none", "passed", "limited", "failed", "skipped", "safety_net"} :
              final' = Answer("composed", s, ResultCites, k)
        BY <2>4 DEF Compose, Composable, Inv, TypeOK
      <3>3. /\ ResultCites \subseteq Docs /\ ResultCites \subseteq context.evidence
            /\ stage = "raised" => ResultCites = {}
        BY ResultIsCited DEF ResultCites
      <3>. QED BY <3>1, <3>2, <3>3
               DEF AgentInv, AgentTypeOK, OnlyLawIsCited, PassedOnIsFinished,
                   Answer, Composable, Statuses, Ended, vars
    <2>5. CASE Finish
      <3>1. stage \in Ended /\ UNCHANGED vars /\ step' = "answered" /\ UNCHANGED composing
        BY <2>5 DEF Finish, AgentInv
      <3>2. CASE stage = "raised"
        <4>1. final' = Answer("fallback", "operational", {}, "skipped")
          BY <2>5, <3>2 DEF Finish
        <4>. QED BY <3>1, <4>1
                 DEF AgentInv, AgentTypeOK, OnlyLawIsCited, PassedOnIsFinished,
                     Answer, Statuses, Legal, vars
      <3>3. CASE stage = "done"
        <4>1. final' = Answer("legal", status, ResultCites, contract)
          BY <2>5, <3>3 DEF Finish
        <4>2. ResultCites \subseteq Docs /\ ResultCites \subseteq context.evidence
          BY ResultIsCited
        <4>3. audited # "no"
          BY <3>3 DEF EndInv
        <4>4. ASSUME status = "grounded"
              PROVE  contract = "passed" /\ verifier = "passed" /\ refused = {} /\ ResultCites # {}
          <5>1. contract = "passed" /\ verifier = "passed" /\ refused = {} /\ claims # {}
            BY <3>3, <4>4 DEF Inv, GateInv, AfterGates
          <5>2. PICK c \in claims : c.cites # {}
            BY <5>1 DEF Inv, PayloadInv, Cited
          <5>. QED BY <3>3, <4>4, <5>1, <5>2 DEF ResultCites
        <4>5. status \in Statuses \cup {"none", "analysis"}
              /\ contract \in {"none", "passed", "limited", "failed", "skipped", "safety_net"}
          BY DEF Inv, TypeOK
        <4>6. (PassedOnIsFinished /\ OnlyLawIsCited)'
          BY <3>1, <3>3, <4>1, <4>2, <4>3, <4>4
             DEF PassedOnIsFinished, OnlyLawIsCited, Answer, vars
        <4>7. AgentTypeOK'
          BY <3>1, <4>1, <4>2, <4>5 DEF AgentInv, AgentTypeOK, Answer
        <4>. QED BY <3>1, <4>6, <4>7 DEF AgentInv
      <3>. QED BY <3>1, <3>2, <3>3 DEF Ended
    <2>. QED BY <2>1, <2>2, <2>3, <2>4, <2>5 DEF AgentNext
  <1>. QED BY <1>2, <1>3, <1>4

\* The invariant holds whatever the planner, the composer and the engine do.
THEOREM AgentInvariance == AgentSpec => []IInv
  <1>. QED BY IInvInit, AgentStep, PTL DEF AgentSpec

\* The final answer cites retrieved law only, and an answer passed on is the
\* finished one of the engine.
THEOREM FinalAnswerIsFaithful ==
  AgentSpec => [](AgentTypeOK /\ OnlyLawIsCited /\ PassedOnIsFinished)
  <1>1. IInv => AgentTypeOK /\ OnlyLawIsCited /\ PassedOnIsFinished
    BY DEF IInv, AgentInv
  <1>. QED BY <1>1, AgentInvariance, PTL
=============================================================================
