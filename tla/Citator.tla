------------------------------ MODULE Citator ------------------------------
(***************************************************************************)
(* traverse_graph, the walk over the typed citation graph that the command *)
(* graph-traverse prints: breadth first from one document, along edges out *)
(* of a node, into it or both, up to a depth and a number of nodes.  Each  *)
(* edge is reported once.  The rows of a query come in any order.          *)
(*                                                                         *)
(* The edges are those of the relations asked for; nothing commits others  *)
(* while a walk is made (LegalSources).                                    *)
(***************************************************************************)
EXTENDS Naturals, FiniteSets, Sequences, SequencesExt

CONSTANTS
  Nodes,      \* entities
  Root,       \* the entity of the document the walk starts from
  Relations,  \* typed relations
  Graphs,     \* the graphs walked over: sets of edges
  Directions, \* among "outbound", "inbound" and "both"
  Depths,     \* max_depth, after it is clamped to 0..6
  Sizes       \* max_nodes, after it is clamped to 1..1000

Edges == [source : Nodes, relation : Relations, target : Nodes]

ASSUME RootAssumption == Root \in Nodes
ASSUME GraphAssumption == Graphs \subseteq SUBSET Edges
ASSUME BoundAssumption == Depths \subseteq Nat /\ Sizes \subseteq Nat \ {0}

VARIABLES
  graph, direction, maxDepth, maxNodes,  \* the request
  nodes,     \* nodes found
  seen,      \* ids of the edges found
  frontier,  \* queue of paths: the node to expand is the last of each
  path,      \* the path that is expanded, or none
  rows,      \* the rows of its node that are left
  cut        \* whether the cap on the nodes has ended the walk

request == <<graph, direction, maxDepth, maxNodes>>
walkVars == <<graph, direction, maxDepth, maxNodes, nodes, seen, frontier, path, rows, cut>>

WalkInit ==
  /\ graph \in Graphs
  /\ direction \in Directions
  /\ maxDepth \in Depths
  /\ maxNodes \in Sizes
  /\ nodes = {Root} /\ seen = {}
  /\ frontier = <<<<Root>>>>
  /\ path = <<>> /\ rows = {} /\ cut = FALSE

Current == Last(path)
DepthOf(p) == Len(p) - 1
Outbound(n) == IF direction \in {"outbound", "both"} THEN {e \in graph : e.source = n} ELSE {}
Inbound(n) == IF direction \in {"inbound", "both"} THEN {e \in graph : e.target = n} ELSE {}

Taken == Head(frontier)

\* Mutant: new paths are put at the front of the queue.
EnqueuedFirst(p) == <<p>> \o frontier

Enqueued(p) == Append(frontier, p)

\* A path as long as the depth is not expanded.
Skip ==
  /\ path = <<>> /\ frontier # <<>> /\ ~cut
  /\ DepthOf(Taken) >= maxDepth
  /\ frontier' = Tail(frontier)
  /\ UNCHANGED <<request, nodes, seen, path, rows, cut>>

\* With enough nodes the walk ends.
Full ==
  /\ path = <<>> /\ frontier # <<>> /\ ~cut
  /\ DepthOf(Taken) < maxDepth
  /\ Cardinality(nodes) >= maxNodes
  /\ cut' = TRUE
  /\ UNCHANGED <<request, nodes, seen, frontier, path, rows>>

Expand ==
  /\ path = <<>> /\ frontier # <<>> /\ ~cut
  /\ DepthOf(Taken) < maxDepth
  /\ Cardinality(nodes) < maxNodes
  /\ path' = Taken
  /\ frontier' = Tail(frontier)
  /\ rows' = Outbound(Last(Taken)) \cup Inbound(Last(Taken))
  /\ UNCHANGED <<request, nodes, seen, cut>>


\* The next row: the other end of a new edge is queued, known or not.  The cap
\* ends the rows of this node.
Follow(e) ==
  /\ e \in rows
  /\ IF e \notin seen
     THEN LET n == IF e.source = Current THEN e.target ELSE e.source IN
            /\ seen' = seen \cup {e}
            /\ nodes' = nodes \cup {n}
            /\ frontier' = Enqueued(Append(path, n))
            /\ rows' = IF Cardinality(nodes') >= maxNodes THEN {} ELSE rows \ {e}
     ELSE rows' = rows \ {e} /\ UNCHANGED <<seen, nodes, frontier>>
  /\ UNCHANGED <<request, path, cut>>

EndRows ==
  /\ path # <<>> /\ rows = {}
  /\ path' = <<>>
  /\ UNCHANGED <<request, nodes, seen, frontier, rows, cut>>

Done == path = <<>> /\ (frontier = <<>> \/ cut)

WalkNext ==
  \/ Skip \/ Full \/ Expand \/ EndRows
  \/ \E e \in graph : Follow(e)
  \/ Done /\ UNCHANGED walkVars

WalkSpec == WalkInit /\ [][WalkNext]_walkVars

-----------------------------------------------------------------------------
(* Properties, against distances in the graph.                             *)

Neighbours(reached) ==
  UNION { {e.target : e \in Outbound(n)} \cup {e.source : e \in Inbound(n)} : n \in reached }

\* The nodes at most k edges away: those where k steps may end, each of them
\* along an edge or none.
Ways(k) ==
  {w \in [0..k -> Nodes] :
     w[0] = Root /\ \A i \in 1..k : w[i] \in {w[i - 1]} \cup Neighbours({w[i - 1]})}
Within(k) == {w[k] : w \in Ways(k)}

Touching(reached) == UNION { Outbound(n) \cup Inbound(n) : n \in reached }

\* The walk finds the nearest nodes first, and never one too far away.  When the
\* number of nodes does not end it, it has found every node and every edge
\* within the depth, each edge being followed from one end only.
WalkIsComplete ==
  /\ nodes \subseteq Within(maxDepth)
  /\ \A k \in 1..maxDepth : nodes \subseteq Within(k - 1) \/ Within(k - 1) \subseteq nodes
  /\ Cardinality(nodes) <= maxNodes
  /\ Done /\ Cardinality(nodes) < maxNodes =>
       /\ nodes = Within(maxDepth)
       /\ seen = IF maxDepth = 0 THEN {} ELSE Touching(Within(maxDepth - 1))
=============================================================================
