-------------------------- MODULE MCMatterFiles --------------------------
(* Instances of MatterFiles: binaries and requests are interchangeable.    *)
EXTENDS MatterFiles, TLC
Interchangeable == Permutations(Files) \cup Permutations(Reqs)
=============================================================================
