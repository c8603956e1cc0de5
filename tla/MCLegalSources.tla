--------------------------- MODULE MCLegalSources ---------------------------
(* Instances of LegalSources: a bundle of two articles, one of two texts in *)
(* force.                                                                   *)
EXTENDS LegalSources, TLC

CONSTANTS d1, d2, t1, t2, a1, a2

MCSays == t1 :> {a1} @@ t2 :> {a1, a2}
MCBundle == <<d1, d2>>
MCPublished == {<<d1, t1>>, <<d1, t2>>, <<d2, t2>>}
MCRepeals == {<<d1, d2>>}
MCRepealsElsewhere == MCRepeals \cup {<<d2, Elsewhere>>}
=============================================================================
