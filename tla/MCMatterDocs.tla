---------------------------- MODULE MCMatterDocs ----------------------------
(* Instances of MatterDocs: one document and its matter, a folder of that  *)
(* matter and, in some runs, a folder of another one.                      *)
EXTENDS MatterDocs, TLC

CONSTANTS m1, m2, d1, f1, f2, t0

MCMatterOf == [d \in Docs |-> m1]
MCOriginal == [d \in Docs |-> t0]
MCFolderMatter == [f \in Folders |-> IF f = f2 THEN m2 ELSE m1]

\* Requests are interchangeable: sound for the invariants and action properties.
MCSymmetry == Permutations(Conns)
=============================================================================
