--------------------------- MODULE MCAnswerEngine ---------------------------
(* AnswerEngine with two retrieved sources and one that is not, two issues *)
(* and a choice of drafts that reaches every outcome of the validation.    *)
EXTENDS AnswerEngine

CONSTANTS d1, d2, d3,   \* d1 and d2 may be retrieved, d3 never is
          i1, i2,       \* issues
          t1, t2,       \* texts of claims
          name, odd     \* titles of sources; odd names a norm outside the evidence

C1 == [text |-> t1, cites |-> {d1}, issue |-> NoIssue]
C2 == [text |-> t2, cites |-> {d2}, issue |-> i2]
Mixed == [text |-> t2, cites |-> {d1, d3}, issue |-> i1]
Foreign == [text |-> t1, cites |-> {d3}, issue |-> NoIssue]
Bare == [text |-> t1, cites |-> {}, issue |-> NoIssue]
Odd == [text |-> odd, cites |-> {d1}, issue |-> NoIssue]

Plain == [NoProse EXCEPT !.notes = "plain"]
Stray == [NoProse EXCEPT !.notes = "stray"]
Citing(d) == [Plain EXCEPT !.cites = {d}]

D(s, i, c, e, n) == [status |-> s, intro |-> i, reply |-> s = "chat", claims |-> c,
                     sections |-> e, prose |-> n]

MCDrafts ==
  { D("grounded", "plain", {C1}, {}, NoProse),
    D("grounded", "plain", {C1, C2}, {}, Plain),
    D("grounded", "plain", {C2}, {C1}, NoProse),
    D("grounded", "plain", {Odd}, {}, NoProse),
    D("grounded", "plain", {C1}, {}, [NoProse EXCEPT !.facts = "stray", !.asks = "plain"]),
    D("grounded", "plain", {C1}, {}, Citing(d3)),
    D("grounded", "plain", {Mixed}, {}, NoProse),
    D("grounded", "plain", {C1, Foreign}, {C2}, NoProse),
    D("limited", "plain", {Foreign}, {}, NoProse),
    D("limited", "dated", {C1}, {Bare}, Stray),
    D("grounded", "plain", {}, {}, Plain),
    D("abstain", "dated", {C1}, {}, NoProse),
    D("abstain", "plain", {}, {C1}, Citing(d2)),
    D("operational", "plain", {}, {}, Plain),
    D("operational", "stray", {}, {}, Citing(d1)),
    D("operational", "none", {}, {}, Stray),
    D("operational", "none", {}, {}, [NoProse EXCEPT !.asks = "stray"]),
    D("operational", "none", {}, {C2}, NoProse),
    D("operational", "none", {}, {}, NoProse),
    D("chat", "plain", {C1}, {}, NoProse),
    [D("chat", "plain", {}, {}, NoProse) EXCEPT !.reply = FALSE],
    D("unknown", "plain", {C1}, {}, NoProse) }

\* Both, one or none of the sources is retrieved; an issue is covered by an
\* official source, which is not always among the documents that are kept.
MCContexts ==
  {x \in [evidence : {{}, {d1}, {d1, d2}}, official : BOOLEAN, planned : BOOLEAN,
          covered : SUBSET {i1, i2}, required : {[i \in {i1, i2} |-> IF i = i1 THEN d1 ELSE d2]},
          blocked : SUBSET {d1}, expired : SUBSET {d2},
          titles : {[i \in {i1, i2} |-> t] : t \in {name, odd}},
          operational : BOOLEAN, signed : BOOLEAN] :
     /\ ~x.planned => x.covered = {}
     /\ x.covered = {} => x.titles[i1] = name
     /\ x.blocked \cup x.expired \subseteq x.evidence
     /\ (\E i \in x.covered : x.required[i] \in x.evidence) => x.official
     /\ x.official => x.evidence # {}}
=============================================================================
