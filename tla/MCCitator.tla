----------------------------- MODULE MCCitator -----------------------------
(* Instances of Citator: graphs of four nodes with a few edges between     *)
(* different ones.                                                         *)
EXTENDS Citator

CONSTANTS a, b, c, d, MaxEdges

MCEdges == {e \in Edges : e.source # e.target}
MCGraphs == UNION {kSubset(k, MCEdges) : k \in 0..MaxEdges}
=============================================================================
