-------------------------- MODULE MCWorkspaceRows --------------------------
(* Instances of WorkspaceRows: values and requests are interchangeable.    *)
EXTENDS WorkspaceRows, TLC
Interchangeable == Permutations(Values) \cup Permutations(Reqs)
=============================================================================
