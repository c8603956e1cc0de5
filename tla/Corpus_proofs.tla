--------------------------- MODULE Corpus_proofs ---------------------------
(***************************************************************************)
(* Theorems about the shared corpus: the walk over its typed graph         *)
(* (Citator), for any graph and request, and its ingestion (LegalSources), *)
(* for any corpus, bundle and sessions.                                    *)
(***************************************************************************)
EXTENDS LegalSources, Citator, TLAPS, FiniteSetTheorems, WellFoundedInduction

-----------------------------------------------------------------------------
(* The least of some numbers.                                              *)

\* A set of numbers that is not empty has a least one.
LEMMA LeastNat ==
  ASSUME NEW S, S \subseteq Nat, S # {}
  PROVE  \E x \in S : \A y \in S : x <= y
  <1> DEFINE R == OpToRel(<, Nat)
  <1>1. IsWellFoundedOn(R, Nat)
    BY NatLessThanWellFounded
  <1>2. \A x, y \in Nat : <<y, x>> \in R <=> y < x
    BY DEF OpToRel
  <1> HIDE DEF R
  <1>3. PICK x \in S : \A y \in S : ~(<<y, x>> \in R)
    BY <1>1, WFMin
  <1>4. ASSUME NEW y \in S PROVE x <= y
    <2>1. ~(<<y, x>> \in R) /\ x \in Nat /\ y \in Nat
      BY <1>3
    <2>2. ~(y < x)
      BY <1>2, <2>1
    <2> QED BY <2>1, <2>2
  <1> QED BY <1>4

-----------------------------------------------------------------------------
(* Distances.                                                              *)

\* No step leads nowhere.
LEMMA WithinNone == Within(0) = {Root}
  <1>1. Within(0) \subseteq {Root}
    BY DEF Within, Ways
  <1>2. Root \in Within(0)
    <2> DEFINE w == [i \in 0..0 |-> Root]
    <2>1. w \in Ways(0)
      BY RootAssumption DEF Ways
    <2>2. w[0] = Root
      OBVIOUS
    <2> QED BY <2>1, <2>2 DEF Within
  <1> QED BY <1>1, <1>2

\* Neighbours of a set are those of its members.
LEMMA NeighboursOf ==
  ASSUME NEW R, NEW n
  PROVE  n \in Neighbours(R) <=> \E m \in R : n \in Neighbours({m})
  BY DEF Neighbours

\* Edges and ways are between nodes.
LEMMA NeighbourNodes ==
  ASSUME graph \subseteq Edges, NEW R
  PROVE  Neighbours(R) \subseteq Nodes
  BY DEF Neighbours, Outbound, Inbound, Edges

\* See NeighbourNodes.
LEMMA WithinNodes ==
  ASSUME NEW k \in Nat
  PROVE  Within(k) \subseteq Nodes
  BY DEF Within, Ways

\* One step more.
LEMMA WithinMore ==
  ASSUME NEW k \in Nat, graph \subseteq Edges
  PROVE  Within(k + 1) = Within(k) \cup Neighbours(Within(k))
  <1>1. ASSUME NEW n \in Within(k + 1)
        PROVE  n \in Within(k) \cup Neighbours(Within(k))
    <2>1. PICK w \in Ways(k + 1) : n = w[k + 1]
      BY DEF Within
    <2> DEFINE v == [i \in 0..k |-> w[i]]
    <2>2. /\ w \in [0..(k + 1) -> Nodes] /\ w[0] = Root
          /\ \A i \in 1..(k + 1) : w[i] \in {w[i - 1]} \cup Neighbours({w[i - 1]})
      BY <2>1 DEF Ways
    <2>3. v \in [0..k -> Nodes] /\ v[0] = Root /\ v[k] = w[k]
      BY <2>2
    <2>4. ASSUME NEW i \in 1..k PROVE v[i] \in {v[i - 1]} \cup Neighbours({v[i - 1]})
      <3>1. i \in 1..(k + 1) /\ v[i] = w[i] /\ v[i - 1] = w[i - 1]
        OBVIOUS
      <3> HIDE DEF v
      <3> QED BY <2>2, <3>1
    <2>5. v[k] \in Within(k)
      BY <2>3, <2>4 DEF Within, Ways
    <2>6. k + 1 \in 1..(k + 1) /\ (k + 1) - 1 = k
      OBVIOUS
    <2>7. n \in {w[k]} \cup Neighbours({w[k]})
      BY <2>1, <2>2, <2>6
    <2> HIDE DEF v
    <2> QED BY <2>3, <2>5, <2>7, NeighboursOf
  <1>2. ASSUME NEW m \in Within(k), NEW n \in {m} \cup Neighbours({m})
        PROVE  n \in Within(k + 1)
    <2>1. PICK v \in Ways(k) : m = v[k]
      BY DEF Within
    <2> DEFINE w == [i \in 0..(k + 1) |-> IF i = k + 1 THEN n ELSE v[i]]
    <2>2. /\ v \in [0..k -> Nodes] /\ v[0] = Root
          /\ \A i \in 1..k : v[i] \in {v[i - 1]} \cup Neighbours({v[i - 1]})
      BY <2>1 DEF Ways
    <2>3. n \in Nodes
      BY NeighbourNodes, <2>1, <2>2
    <2>4. w \in [0..(k + 1) -> Nodes] /\ w[0] = Root /\ w[k + 1] = n
      BY <2>2, <2>3
    <2>5. ASSUME NEW i \in 1..(k + 1) PROVE w[i] \in {w[i - 1]} \cup Neighbours({w[i - 1]})
      <3>1. CASE i = k + 1
        <4>1. w[i] = n /\ w[i - 1] = m
          BY <3>1, <2>1
        <4> HIDE DEF w
        <4> QED BY <4>1
      <3>2. CASE i # k + 1
        <4>1. i \in 1..k /\ w[i] = v[i] /\ w[i - 1] = v[i - 1]
          BY <3>2
        <4> HIDE DEF w
        <4> QED BY <4>1, <2>2
      <3> QED BY <3>1, <3>2
    <2> HIDE DEF w
    <2>6. w \in Ways(k + 1)
      BY <2>4, <2>5 DEF Ways
    <2> QED BY <2>4, <2>6 DEF Within
  <1>3. ASSUME NEW n \in Within(k) \cup Neighbours(Within(k)) PROVE n \in Within(k + 1)
    BY <1>2, NeighboursOf
  <1> QED BY <1>1, <1>3

\* A further step loses nothing: it may rest.
LEMMA WithinFrom ==
  ASSUME NEW i \in Nat, NEW j \in Nat, i <= j, graph \subseteq Edges
  PROVE  Within(i) \subseteq Within(j)
  <1> DEFINE S == {k \in Nat : i <= k /\ ~(Within(i) \subseteq Within(k))}
  <1>1. SUFFICES ASSUME j \in S PROVE FALSE
    OBVIOUS
  <1>2. PICK k \in S : \A y \in S : k <= y
    BY <1>1, LeastNat
  <1>3. k \in Nat /\ i <= k /\ k # i
    BY <1>2
  <1>4. k - 1 \in Nat /\ i <= k - 1 /\ (k - 1) + 1 = k
    BY <1>3
  <1>5. k - 1 \notin S
    BY <1>2, <1>4
  <1>6. Within(k - 1) \subseteq Within(k)
    BY <1>4, WithinMore
  <1> QED BY <1>2, <1>4, <1>5, <1>6

\* Once a step finds nothing new, none does.
LEMMA WithinAll ==
  ASSUME NEW i \in Nat, NEW j \in Nat, i <= j, graph \subseteq Edges,
         Within(i + 1) \subseteq Within(i)
  PROVE  Within(j) = Within(i)
  <1> DEFINE S == {k \in Nat : i <= k /\ Within(k) # Within(i)}
  <1>1. SUFFICES ASSUME j \in S PROVE FALSE
    OBVIOUS
  <1>2. PICK k \in S : \A y \in S : k <= y
    BY <1>1, LeastNat
  <1>3. k \in Nat /\ i <= k /\ k # i
    BY <1>2
  <1>4. k - 1 \in Nat /\ i <= k - 1 /\ (k - 1) + 1 = k
    BY <1>3
  <1>5. Within(k - 1) = Within(i)
    BY <1>2, <1>4
  <1>6. Within(k) = Within(k - 1) \cup Neighbours(Within(k - 1))
    BY <1>4, WithinMore
  <1>7. Within(i + 1) = Within(i) \cup Neighbours(Within(i))
    BY WithinMore
  <1>8. Within(k) = Within(i + 1)
    BY <1>5, <1>6, <1>7
  <1>9. Within(i) \subseteq Within(i + 1)
    BY <1>7
  <1> QED BY <1>2, <1>8, <1>9

\* The edges at a node.
EdgesAt(n) == Outbound(n) \cup Inbound(n)

\* Distances are those of the request.
LEMMA SameWithin ==
  ASSUME graph' = graph, direction' = direction
  PROVE  /\ \A k : Within(k)' = Within(k)
         /\ \A n : EdgesAt(n)' = EdgesAt(n)
  BY DEF Within, Ways, Neighbours, EdgesAt, Outbound, Inbound

\* The edges at some nodes are those at each of them.
LEMMA TouchingOf ==
  ASSUME NEW R, NEW e
  PROVE  e \in Touching(R) <=> \E n \in R : e \in EdgesAt(n)
  BY DEF Touching, EdgesAt

\* A neighbour is the other end of an edge.
LEMMA OtherEnd ==
  ASSUME NEW m, NEW n
  PROVE  /\ n \in Neighbours({m}) =>
              \E e \in EdgesAt(m) : n \in {e.source, e.target}
         /\ \A e \in EdgesAt(m) :
              /\ e \in graph
              /\ m \in {e.source, e.target}
              /\ (IF e.source = m THEN e.target ELSE e.source) \in {m} \cup Neighbours({m})
  BY DEF Neighbours, EdgesAt, Outbound, Inbound

-----------------------------------------------------------------------------
(* Types.                                                                  *)

\* The walk holds nodes, edges of its graph and paths that are not empty.
WalkTypeOK ==
  /\ graph \subseteq Edges /\ maxDepth \in Nat /\ maxNodes \in Nat \ {0}
  /\ nodes \subseteq Nodes /\ IsFiniteSet(nodes)
  /\ seen \subseteq graph /\ rows \subseteq graph
  /\ frontier \in Seq(Seq(Nodes) \ {<<>>})
  /\ path \in Seq(Nodes)
  /\ cut \in BOOLEAN

\* The nodes stay under the cap while rows are read, and the walk is cut at it.
CapInv ==
  /\ Cardinality(nodes) <= maxNodes
  /\ rows # {} => path # <<>> /\ Cardinality(nodes) < maxNodes
  /\ cut => Cardinality(nodes) = maxNodes

\* A queue without its head.
LEMMA TailAt ==
  ASSUME NEW S, NEW s \in Seq(S), s # <<>>
  PROVE  /\ Len(s) \in Nat \ {0} /\ Head(s) = s[1] /\ s[1] \in S
         /\ Tail(s) \in Seq(S) /\ Len(Tail(s)) = Len(s) - 1
         /\ \A i \in 1..Len(Tail(s)) : Tail(s)[i] = s[i + 1] /\ i + 1 \in 1..Len(s)
  OBVIOUS

\* A queue with a new end.
LEMMA AppendAt ==
  ASSUME NEW S, NEW s \in Seq(S), NEW x \in S
  PROVE  /\ Append(s, x) \in Seq(S) /\ Len(Append(s, x)) = Len(s) + 1
         /\ \A i \in 1..Len(s) : Append(s, x)[i] = s[i]
         /\ Append(s, x)[Len(s) + 1] = x
         /\ Append(s, x) # <<>>
  OBVIOUS

\* A path and its end.
LEMMA PathEnd ==
  ASSUME NEW p \in Seq(Nodes), p # <<>>
  PROVE  DepthOf(p) \in Nat /\ Last(p) \in Nodes
  BY DEF DepthOf, Last

\* A path that goes on.
LEMMA PathOn ==
  ASSUME NEW p \in Seq(Nodes), p # <<>>, NEW n \in Nodes
  PROVE  /\ Append(p, n) \in Seq(Nodes) \ {<<>>}
         /\ DepthOf(Append(p, n)) = DepthOf(p) + 1
         /\ Last(Append(p, n)) = n
  BY DEF DepthOf, Last

\* One more node.
LEMMA OneMore ==
  ASSUME NEW T, IsFiniteSet(T), NEW n
  PROVE  /\ IsFiniteSet(T \cup {n})
         /\ Cardinality(T) \in Nat /\ Cardinality(T \cup {n}) \in Nat
         /\ Cardinality(T) <= Cardinality(T \cup {n})
         /\ Cardinality(T \cup {n}) <= Cardinality(T) + 1
  BY FS_AddElement, FS_CardinalityType

\* The other end of a row.
OtherOf(e) == IF e.source = Current THEN e.target ELSE e.source

\* A new edge is followed.
NewRow(e) ==
  /\ e \in rows /\ e \notin seen
  /\ seen' = seen \cup {e}
  /\ nodes' = nodes \cup {OtherOf(e)}
  /\ frontier' = Append(frontier, Append(path, OtherOf(e)))
  /\ rows' = IF Cardinality(nodes') >= maxNodes THEN {} ELSE rows \ {e}
  /\ UNCHANGED <<request, path, cut>>

\* An edge that is known is not.
KnownRow(e) ==
  /\ e \in rows /\ e \in seen
  /\ rows' = rows \ {e}
  /\ UNCHANGED <<request, nodes, seen, frontier, path, cut>>

\* A row is one or the other.
LEMMA FollowCases ==
  ASSUME NEW e \in graph, Follow(e)
  PROVE  NewRow(e) \/ KnownRow(e)
  BY DEF Follow, NewRow, KnownRow, OtherOf, Enqueued

\* The walk starts with a node, which the cap allows.
LEMMA WalkStart ==
  ASSUME WalkInit
  PROVE  WalkTypeOK /\ CapInv
  <1>1. IsFiniteSet({Root}) /\ Cardinality({Root}) = 1
    BY FS_Singleton
  <1>2. <<Root>> \in Seq(Nodes) \ {<<>>}
    BY RootAssumption
  <1>3. <<<<Root>>>> \in Seq(Seq(Nodes) \ {<<>>})
    BY <1>2
  <1>4. <<>> \in Seq(Nodes)
    OBVIOUS
  <1>5. graph \subseteq Edges /\ maxDepth \in Nat /\ maxNodes \in Nat \ {0}
    BY GraphAssumption, BoundAssumption DEF WalkInit
  <1>6. WalkTypeOK
    BY <1>1, <1>3, <1>4, <1>5, RootAssumption DEF WalkInit, WalkTypeOK
  <1>7. 1 <= maxNodes
    BY <1>5
  <1> QED BY <1>1, <1>6, <1>7 DEF CapInv, WalkInit

\* A step keeps the types and the cap.
LEMMA WalkTyped ==
  ASSUME WalkTypeOK, CapInv, [WalkNext]_walkVars
  PROVE  WalkTypeOK' /\ CapInv'
  <1>1. CASE Skip
    <2>1. frontier' \in Seq(Seq(Nodes) \ {<<>>})
      BY <1>1, TailAt DEF Skip, WalkTypeOK
    <2> QED BY <1>1, <2>1 DEF Skip, WalkTypeOK, CapInv, request
  <1>2. CASE Full
    <2>1. Cardinality(nodes) \in Nat
      BY FS_CardinalityType DEF WalkTypeOK
    <2> QED BY <1>2, <2>1 DEF Full, WalkTypeOK, CapInv, request
  <1>3. CASE Expand
    <2>1. /\ frontier' \in Seq(Seq(Nodes) \ {<<>>})
          /\ path' \in Seq(Nodes) /\ path' # <<>>
      BY <1>3, TailAt DEF Expand, Taken, WalkTypeOK
    <2>2. rows' \subseteq graph
      BY <1>3 DEF Expand, Outbound, Inbound
    <2> QED BY <1>3, <2>1, <2>2 DEF Expand, WalkTypeOK, CapInv, request
  <1>4. ASSUME NEW e \in graph, Follow(e) PROVE WalkTypeOK' /\ CapInv'
    <2>1. CASE NewRow(e)
      <3>1. path # <<>> /\ Cardinality(nodes) < maxNodes
        BY <2>1 DEF NewRow, CapInv
      <3>2. OtherOf(e) \in Nodes
        BY DEF OtherOf, WalkTypeOK, Edges
      <3>3. frontier' \in Seq(Seq(Nodes) \ {<<>>})
        BY <2>1, <3>1, <3>2, PathOn, AppendAt DEF NewRow, WalkTypeOK
      <3>4. /\ IsFiniteSet(nodes')
            /\ Cardinality(nodes) \in Nat /\ Cardinality(nodes') \in Nat
            /\ Cardinality(nodes') <= Cardinality(nodes) + 1
        BY <2>1, OneMore DEF NewRow, WalkTypeOK
      <3>5. seen' \subseteq graph /\ rows' \subseteq graph /\ nodes' \subseteq Nodes
        BY <2>1, <3>2 DEF NewRow, WalkTypeOK
      <3>6. WalkTypeOK'
        BY <2>1, <3>3, <3>4, <3>5 DEF NewRow, WalkTypeOK, request
      <3>7. cut = FALSE
        BY <3>1, <3>4 DEF CapInv, WalkTypeOK
      <3>8. rows' # {} => Cardinality(nodes') < maxNodes
        <4>1. Cardinality(nodes') >= maxNodes => rows' = {}
          BY <2>1 DEF NewRow
        <4>2. maxNodes \in Nat
          BY DEF WalkTypeOK
        <4>3. ~(Cardinality(nodes') >= maxNodes) => Cardinality(nodes') < maxNodes
          BY ONLY <3>4, <4>2
        <4> QED BY <4>1, <4>3
      <3>9. Cardinality(nodes') <= maxNodes
        BY <3>1, <3>4 DEF WalkTypeOK
      <3> QED BY <2>1, <3>1, <3>6, <3>7, <3>8, <3>9 DEF NewRow, CapInv, request
    <2>2. CASE KnownRow(e)
      BY <2>2 DEF KnownRow, WalkTypeOK, CapInv, request
    <2> QED BY <1>4, <2>1, <2>2, FollowCases
  <1>5. CASE EndRows
    BY <1>5 DEF EndRows, WalkTypeOK, CapInv, request
  <1>6. CASE UNCHANGED walkVars
    BY <1>6 DEF walkVars, WalkTypeOK, CapInv
  <1>7. (\E e \in graph : Follow(e)) => WalkTypeOK' /\ CapInv'
    BY <1>4
  <1>8. Skip \/ Full \/ Expand \/ EndRows \/ (\E e \in graph : Follow(e)) \/ UNCHANGED walkVars
    BY DEF WalkNext
  <1> QED BY <1>1, <1>2, <1>3, <1>5, <1>6, <1>7, <1>8

-----------------------------------------------------------------------------
(* Levels.                                                                 *)

\* Paths in the queue, and whether one of a length ends in a node.
Waiting == {frontier[i] : i \in 1..Len(frontier)}
WaitsFor(n, l) == \E p \in Waiting : DepthOf(p) = l /\ Last(p) = n

\* Every node at distance l is known, and none beyond the next level.
Reached(l) ==
  /\ l = 0 \/ l < maxDepth
  /\ Within(l) \subseteq nodes /\ nodes \subseteq Within(l + 1)
  /\ maxDepth = 0 => nodes \subseteq Within(0) /\ seen = {}
  /\ \A e \in seen : e.source \in nodes /\ e.target \in nodes
  /\ \A e \in seen : \E n \in Within(l) : e \in EdgesAt(n)

\* The queue holds paths of two lengths, the shorter first.
Queued(l) ==
  /\ \A i, j \in 1..Len(frontier) : i <= j => DepthOf(frontier[i]) <= DepthOf(frontier[j])
  /\ \A p \in Waiting :
       /\ DepthOf(p) \in {l, l + 1} /\ Last(p) \in nodes
       /\ DepthOf(p) = l => Last(p) \in Within(l)
  /\ path # <<>> =>
       /\ DepthOf(path) = l /\ l < maxDepth
       /\ \E n \in Within(l) : n = Current /\ rows \subseteq EdgesAt(n)

\* A node of the level whose edges are not all found waits for them, and so
\* does every node past the level that the depth allows to expand.
Owed(l) ==
  /\ l < maxDepth =>
       \A n \in Within(l) :
         \/ EdgesAt(n) \subseteq seen
         \/ WaitsFor(n, l)
         \/ path # <<>> /\ n = Current /\ EdgesAt(n) \subseteq seen \cup rows
  /\ l + 1 < maxDepth => \A n \in nodes \ Within(l) : WaitsFor(n, l + 1)

\* With the cap reached the rest of the walk adds nothing.
AtLevel(l) == Reached(l) /\ (Cardinality(nodes) < maxNodes => Queued(l) /\ Owed(l))

LevelInv == \E l \in Nat : AtLevel(l)

\* With all the edges of a level found, the next one is complete.
LEMMA LevelFull ==
  ASSUME WalkTypeOK, NEW l \in Nat, l < maxDepth, Reached(l),
         \A n \in Within(l) : EdgesAt(n) \subseteq seen
  PROVE  nodes = Within(l + 1) /\ seen = Touching(Within(l))
  <1>1. graph \subseteq Edges
    BY DEF WalkTypeOK
  <1>2. Within(l + 1) = Within(l) \cup Neighbours(Within(l))
    BY <1>1, WithinMore
  <1>3. ASSUME NEW n \in Neighbours(Within(l)) PROVE n \in nodes
    <2>1. PICK m \in Within(l) : n \in Neighbours({m})
      BY NeighboursOf
    <2>2. PICK e \in EdgesAt(m) : n \in {e.source, e.target}
      BY <2>1, OtherEnd
    <2> QED BY <2>2 DEF Reached
  <1>4. nodes = Within(l + 1)
    BY <1>2, <1>3 DEF Reached
  <1>5. \A e : e \in seen <=> e \in Touching(Within(l))
    BY TouchingOf DEF Reached
  <1> QED BY <1>4, <1>5

\* The queue without its head.
LEMMA WaitTail ==
  ASSUME WalkTypeOK, frontier # <<>>, frontier' = Tail(frontier),
         \A i, j \in 1..Len(frontier) : i <= j => DepthOf(frontier[i]) <= DepthOf(frontier[j])
  PROVE  /\ Taken \in Waiting /\ Taken \in Seq(Nodes) \ {<<>>}
         /\ Waiting' \subseteq Waiting /\ \A p \in Waiting : p = Taken \/ p \in Waiting'
         /\ \A p \in Waiting : DepthOf(Taken) <= DepthOf(p)
         /\ \A i, j \in 1..Len(frontier') : i <= j => DepthOf(frontier'[i]) <= DepthOf(frontier'[j])
  <1> DEFINE S == Seq(Nodes) \ {<<>>}
  <1>1. /\ Len(frontier) \in Nat \ {0} /\ Head(frontier) = frontier[1] /\ frontier[1] \in S
        /\ frontier' \in Seq(S) /\ Len(frontier') = Len(frontier) - 1
        /\ \A i \in 1..Len(frontier') : frontier'[i] = frontier[i + 1] /\ i + 1 \in 1..Len(frontier)
    BY TailAt DEF WalkTypeOK
  <1> HIDE DEF S
  <1>2. 1 \in 1..Len(frontier)
    BY <1>1
  <1>3. Taken \in Waiting /\ Taken = frontier[1] /\ Taken \in S
    BY <1>1, <1>2 DEF Taken, Waiting
  <1>4. Waiting' \subseteq Waiting
    BY <1>1 DEF Waiting
  <1>5. ASSUME NEW p \in Waiting PROVE /\ p = Taken \/ p \in Waiting'
                                       /\ DepthOf(Taken) <= DepthOf(p)
    <2>1. PICK i \in 1..Len(frontier) : p = frontier[i]
      BY DEF Waiting
    <2>2. DepthOf(Taken) <= DepthOf(p)
      BY <1>1, <1>2, <1>3, <2>1
    <2>3. CASE i = 1
      BY <1>3, <2>1, <2>2, <2>3
    <2>4. CASE i # 1
      <3>1. i - 1 \in 1..Len(frontier') /\ (i - 1) + 1 = i
        BY <1>1, <2>1, <2>4
      <3>2. p = frontier'[i - 1]
        BY <1>1, <2>1, <3>1
      <3> QED BY <2>2, <3>1, <3>2 DEF Waiting
    <2> QED BY <2>3, <2>4
  <1>6. ASSUME NEW i \in 1..Len(frontier'), NEW j \in 1..Len(frontier'), i <= j
        PROVE  DepthOf(frontier'[i]) <= DepthOf(frontier'[j])
    <2>1. i + 1 <= j + 1
      BY <1>1, <1>6
    <2> QED BY <1>1, <2>1
  <1> QED BY <1>3, <1>4, <1>5, <1>6 DEF S

\* The queue with a longest path at its end.
LEMMA WaitAppend ==
  ASSUME WalkTypeOK, NEW p \in Seq(Nodes) \ {<<>>}, frontier' = Append(frontier, p),
         \A i, j \in 1..Len(frontier) : i <= j => DepthOf(frontier[i]) <= DepthOf(frontier[j]),
         \A q \in Waiting : DepthOf(q) <= DepthOf(p)
  PROVE  /\ Waiting' = Waiting \cup {p}
         /\ \A i, j \in 1..Len(frontier') : i <= j => DepthOf(frontier'[i]) <= DepthOf(frontier'[j])
  <1> DEFINE S == Seq(Nodes) \ {<<>>}
  <1>1. /\ Len(frontier) \in Nat /\ Len(frontier') = Len(frontier) + 1
        /\ \A i \in 1..Len(frontier) : frontier'[i] = frontier[i]
        /\ frontier'[Len(frontier) + 1] = p
    BY AppendAt DEF WalkTypeOK
  <1> HIDE DEF S
  <1>2. \A i \in 1..Len(frontier') : i \in 1..Len(frontier) \/ i = Len(frontier) + 1
    BY <1>1
  <1>3. 1..Len(frontier) \subseteq 1..Len(frontier') /\ Len(frontier) + 1 \in 1..Len(frontier')
    BY <1>1
  <1>4. Waiting' \subseteq Waiting \cup {p}
    BY <1>1, <1>2 DEF Waiting
  <1>5. Waiting \cup {p} \subseteq Waiting'
    BY <1>1, <1>3 DEF Waiting
  <1>6. DepthOf(p) <= DepthOf(p)
    BY PathEnd
  <1>7. ASSUME NEW i \in 1..Len(frontier'), NEW j \in 1..Len(frontier'), i <= j
        PROVE  DepthOf(frontier'[i]) <= DepthOf(frontier'[j])
    <2>1. CASE j \in 1..Len(frontier)
      <3>1. i \in 1..Len(frontier)
        BY <1>1, <1>7, <2>1
      <3> QED BY <1>1, <1>7, <2>1, <3>1
    <2>2. CASE j = Len(frontier) + 1
      <3>1. CASE i \in 1..Len(frontier)
        BY <1>1, <2>2, <3>1 DEF Waiting
      <3>2. CASE i = Len(frontier) + 1
        BY <1>1, <1>6, <2>2, <3>2
      <3> QED BY <1>2, <3>1, <3>2
    <2> QED BY <1>2, <2>1, <2>2
  <1> QED BY <1>4, <1>5, <1>7

\* The start is the first level.
LEMMA LevelStart ==
  ASSUME WalkInit, WalkTypeOK
  PROVE  LevelInv
  <1>1. Within(0) = {Root} /\ Within(1) = Within(0) \cup Neighbours(Within(0))
    <2>1. Within(0 + 1) = Within(0) \cup Neighbours(Within(0))
      BY WithinMore DEF WalkTypeOK
    <2> QED BY <2>1, WithinNone
  <1>2. Reached(0)
    BY <1>1 DEF Reached, WalkInit
  <1>3. Len(<<Root>>) = 1 /\ <<Root>>[1] = Root
    OBVIOUS
  <1>4. DepthOf(<<Root>>) = 0 /\ Last(<<Root>>) = Root
    BY <1>3 DEF DepthOf, Last
  <1>5. Len(frontier) = 1 /\ frontier[1] = <<Root>> /\ path = <<>>
    BY DEF WalkInit
  <1>6. Waiting = {<<Root>>}
    BY <1>5 DEF Waiting
  <1>7. Queued(0)
    <2>1. \A i, j \in 1..Len(frontier) : i <= j => DepthOf(frontier[i]) <= DepthOf(frontier[j])
      BY <1>4, <1>5
    <2>2. Root \in nodes
      BY DEF WalkInit
    <2> QED BY <1>1, <1>4, <1>5, <1>6, <2>1, <2>2 DEF Queued
  <1>8. Owed(0)
    BY <1>1, <1>4, <1>6 DEF Owed, WaitsFor, WalkInit
  <1> QED BY <1>2, <1>7, <1>8 DEF LevelInv, AtLevel

\* A path as long as the depth owes nothing.
LEMMA SkipLevel ==
  ASSUME WalkTypeOK, NEW l \in Nat, AtLevel(l), Skip
  PROVE  AtLevel(l)'
  <1>1. /\ \A k : Within(k)' = Within(k)
        /\ \A n : EdgesAt(n)' = EdgesAt(n)
    BY SameWithin DEF Skip, request
  <1>2. Reached(l)'
    BY <1>1 DEF Reached, AtLevel, Skip, request
  <1>3. ASSUME Cardinality(nodes) < maxNodes PROVE Queued(l)' /\ Owed(l)'
    <2>1. Queued(l) /\ Owed(l)
      BY <1>3 DEF AtLevel
    <2>2. /\ Waiting' \subseteq Waiting
          /\ \A p \in Waiting : p = Taken \/ p \in Waiting'
          /\ \A i, j \in 1..Len(frontier') : i <= j => DepthOf(frontier'[i]) <= DepthOf(frontier'[j])
      BY <2>1, WaitTail DEF Skip, Queued
    <2>3. path = <<>> /\ path' = path
      BY DEF Skip
    <2>4. Queued(l)'
      BY <1>1, <2>1, <2>2, <2>3 DEF Queued, Skip
    <2>5. maxDepth \in Nat /\ DepthOf(Taken) >= maxDepth /\ maxDepth' = maxDepth
      BY DEF WalkTypeOK, Skip, request
    <2>6. ASSUME NEW k \in {l, l + 1}, k < maxDepth, NEW n, WaitsFor(n, k)
          PROVE  WaitsFor(n, k)'
      <3>1. PICK p \in Waiting : DepthOf(p) = k /\ Last(p) = n
        BY <2>6 DEF WaitsFor
      <3>2. p # Taken
        BY <2>5, <2>6, <3>1
      <3> QED BY <2>2, <3>1, <3>2 DEF WaitsFor
    <2>7. UNCHANGED <<nodes, seen, maxDepth>>
      BY DEF Skip, request
    <2>8. l < maxDepth => \A n \in Within(l) : EdgesAt(n) \subseteq seen \/ WaitsFor(n, l)'
      BY <2>1, <2>3, <2>6 DEF Owed
    <2>9. l + 1 < maxDepth => \A n \in nodes \ Within(l) : WaitsFor(n, l + 1)'
      BY <2>1, <2>6 DEF Owed
    <2> QED BY <1>1, <2>4, <2>7, <2>8, <2>9 DEF Owed
  <1>4. UNCHANGED <<nodes, maxNodes>>
    BY DEF Skip, request
  <1> QED BY <1>2, <1>3, <1>4 DEF AtLevel

\* The cap ends the walk at its level.
LEMMA FullLevel ==
  ASSUME WalkTypeOK, NEW l \in Nat, AtLevel(l), Full
  PROVE  AtLevel(l)'
  <1>1. /\ \A k : Within(k)' = Within(k)
        /\ \A n : EdgesAt(n)' = EdgesAt(n)
    BY SameWithin DEF Full, request
  <1>2. Reached(l)'
    BY <1>1 DEF Reached, AtLevel, Full, request
  <1>3. Cardinality(nodes) \in Nat /\ maxNodes \in Nat /\ Cardinality(nodes) >= maxNodes
    BY FS_CardinalityType DEF WalkTypeOK, Full
  <1>4. ~(Cardinality(nodes) < maxNodes)
    BY <1>3
  <1>5. UNCHANGED <<nodes, maxNodes>>
    BY DEF Full, request
  <1> QED BY <1>2, <1>4, <1>5 DEF AtLevel

\* What is taken waits no longer: it is read.
LEMMA ExpandHere ==
  ASSUME WalkTypeOK, NEW l \in Nat, AtLevel(l), Expand, DepthOf(Taken) = l
  PROVE  AtLevel(l)'
  <1>1. /\ \A k : Within(k)' = Within(k)
        /\ \A n : EdgesAt(n)' = EdgesAt(n)
    BY SameWithin DEF Expand, request
  <1>2. Reached(l)'
    BY <1>1 DEF Reached, AtLevel, Expand, request
  <1>3. Queued(l) /\ Owed(l)
    BY DEF AtLevel, Expand
  <1>4. /\ Taken \in Waiting /\ Taken \in Seq(Nodes) \ {<<>>}
        /\ Waiting' \subseteq Waiting
        /\ \A p \in Waiting : p = Taken \/ p \in Waiting'
        /\ \A i, j \in 1..Len(frontier') : i <= j => DepthOf(frontier'[i]) <= DepthOf(frontier'[j])
    BY <1>3, WaitTail DEF Expand, Queued
  <1>5. path = <<>> /\ path' = Taken /\ path' # <<>> /\ l < maxDepth
    BY <1>4 DEF Expand
  <1>6. Last(Taken) \in Within(l) /\ Current' = Last(Taken) /\ rows' = EdgesAt(Last(Taken))
    BY <1>3, <1>4, <1>5 DEF Queued, Current, Expand, EdgesAt
  <1>7. UNCHANGED <<nodes, seen, maxDepth, maxNodes>>
    BY DEF Expand, request
  <1>8. Queued(l)'
    <2>1. \A p \in Waiting' : /\ DepthOf(p) \in {l, l + 1} /\ Last(p) \in nodes'
                              /\ DepthOf(p) = l => Last(p) \in Within(l)'
      BY <1>1, <1>3, <1>4, <1>7 DEF Queued
    <2>2. DepthOf(path') = l /\ l < maxDepth'
      BY <1>5, <1>7
    <2>3. \E n \in Within(l)' : n = Current' /\ rows' \subseteq EdgesAt(n)'
      BY <1>1, <1>6
    <2> QED BY <1>4, <2>1, <2>2, <2>3 DEF Queued
  <1>9. ASSUME NEW k \in {l, l + 1}, NEW n, WaitsFor(n, k)
        PROVE  WaitsFor(n, k)' \/ (k = l /\ n = Last(Taken))
    <2>1. PICK p \in Waiting : DepthOf(p) = k /\ Last(p) = n
      BY <1>9 DEF WaitsFor
    <2> QED BY <1>4, <2>1 DEF WaitsFor
  <1>10. \A n \in Within(l) :
           \/ EdgesAt(n) \subseteq seen
           \/ WaitsFor(n, l)'
           \/ n = Current' /\ EdgesAt(n) \subseteq seen \cup rows'
    BY <1>3, <1>5, <1>6, <1>9 DEF Owed
  <1>11. l + 1 < maxDepth => \A n \in nodes \ Within(l) : WaitsFor(n, l + 1)'
    <2>1. l + 1 # l
      OBVIOUS
    <2> QED BY <1>3, <1>9, <2>1 DEF Owed
  <1>12. Owed(l)'
    BY <1>1, <1>5, <1>7, <1>10, <1>11 DEF Owed
  <1> QED BY <1>2, <1>8, <1>12 DEF AtLevel

\* The first path of the next level is taken when the level is found.
LEMMA ExpandNext ==
  ASSUME WalkTypeOK, NEW l \in Nat, AtLevel(l), Expand, DepthOf(Taken) = l + 1
  PROVE  AtLevel(l + 1)'
  <1>1. /\ \A k : Within(k)' = Within(k)
        /\ \A n : EdgesAt(n)' = EdgesAt(n)
    BY SameWithin DEF Expand, request
  <1>2. Reached(l) /\ Queued(l) /\ Owed(l)
    BY DEF AtLevel, Expand
  <1>3. /\ Taken \in Waiting /\ Taken \in Seq(Nodes) \ {<<>>}
        /\ Waiting' \subseteq Waiting
        /\ \A p \in Waiting : p = Taken \/ p \in Waiting'
        /\ \A p \in Waiting : DepthOf(Taken) <= DepthOf(p)
        /\ \A i, j \in 1..Len(frontier') : i <= j => DepthOf(frontier'[i]) <= DepthOf(frontier'[j])
    BY <1>2, WaitTail DEF Expand, Queued
  <1>4. path = <<>> /\ path' = Taken /\ path' # <<>> /\ l + 1 < maxDepth
    BY <1>3 DEF Expand
  <1>5. l < maxDepth /\ maxDepth \in Nat /\ maxDepth # 0
    BY <1>4 DEF WalkTypeOK
  <1>6. \A p \in Waiting : DepthOf(p) = l + 1 /\ DepthOf(p) # l
    BY <1>2, <1>3 DEF Queued
  <1>7. \A n \in Within(l) : EdgesAt(n) \subseteq seen
    BY <1>2, <1>4, <1>5, <1>6 DEF Owed, WaitsFor
  <1>8. nodes = Within(l + 1)
    BY <1>2, <1>5, <1>7, LevelFull
  <1>9. Within((l + 1) + 1) = Within(l + 1) \cup Neighbours(Within(l + 1))
    BY WithinMore DEF WalkTypeOK
  <1>10. UNCHANGED <<nodes, seen, maxDepth, maxNodes>>
    BY DEF Expand, request
  <1>11. Within(l) \subseteq nodes
    BY <1>2 DEF Reached
  <1>12. Reached(l + 1)'
    <2>1. \A e \in seen' : e.source \in nodes' /\ e.target \in nodes'
      BY <1>2, <1>10 DEF Reached
    <2>2. \A e \in seen' : \E n \in Within(l + 1)' : e \in EdgesAt(n)'
      BY <1>1, <1>2, <1>8, <1>10, <1>11 DEF Reached
    <2>3. Within(l + 1)' \subseteq nodes' /\ nodes' \subseteq Within((l + 1) + 1)'
      BY <1>1, <1>8, <1>9, <1>10
    <2> QED BY <1>4, <1>5, <1>10, <2>1, <2>2, <2>3 DEF Reached
  <1>13. Last(Taken) \in Within(l + 1) /\ Current' = Last(Taken) /\ rows' = EdgesAt(Last(Taken))
    BY <1>2, <1>3, <1>4, <1>8 DEF Queued, Current, Expand, EdgesAt
  <1>14. Queued(l + 1)'
    <2>1. \A p \in Waiting' : /\ DepthOf(p) \in {l + 1, (l + 1) + 1} /\ Last(p) \in nodes'
                              /\ DepthOf(p) = l + 1 => Last(p) \in Within(l + 1)'
      BY <1>1, <1>2, <1>3, <1>6, <1>8, <1>10 DEF Queued
    <2>2. DepthOf(path') = l + 1 /\ l + 1 < maxDepth'
      BY ONLY <1>3, <1>4, <1>10, DepthOf(Taken) = l + 1
    <2>3. \E n \in Within(l + 1)' : n = Current' /\ rows' \subseteq EdgesAt(n)'
      BY <1>1, <1>13
    <2> QED BY <1>3, <2>1, <2>2, <2>3 DEF Queued
  <1>15. Owed(l + 1)'
    <2>1. ASSUME NEW n \in Within(l + 1)
          PROVE  \/ EdgesAt(n) \subseteq seen
                 \/ WaitsFor(n, l + 1)'
                 \/ n = Current' /\ EdgesAt(n) \subseteq seen \cup rows'
      <3>1. CASE n \in Within(l)
        BY <1>7, <3>1
      <3>2. CASE n \notin Within(l)
        <4>1. PICK p \in Waiting : DepthOf(p) = l + 1 /\ Last(p) = n
          BY <1>2, <1>4, <1>8, <3>2 DEF Owed, WaitsFor
        <4>2. CASE p \in Waiting'
          BY <4>1, <4>2 DEF WaitsFor
        <4>3. CASE p = Taken
          BY <1>13, <4>1, <4>3
        <4> QED BY <1>3, <4>2, <4>3
      <3> QED BY <3>1, <3>2
    <2>2. nodes' \ Within(l + 1)' = {}
      BY <1>1, <1>8, <1>10
    <2> QED BY <1>1, <1>4, <1>10, <2>1, <2>2 DEF Owed
  <1> QED BY <1>12, <1>14, <1>15 DEF AtLevel

\* The end of the rows of a node keeps the level.
LEMMA EndRowsLevel ==
  ASSUME WalkTypeOK, NEW l \in Nat, AtLevel(l), EndRows
  PROVE  AtLevel(l)'
  <1>1. /\ \A k : Within(k)' = Within(k)
        /\ \A n : EdgesAt(n)' = EdgesAt(n)
    BY SameWithin DEF EndRows, request
  <1>2. UNCHANGED <<nodes, seen, frontier, rows, maxDepth, maxNodes>> /\ path' = <<>> /\ rows = {}
    BY DEF EndRows, request
  <1>3. Waiting' = Waiting /\ \A n, k : WaitsFor(n, k)' = WaitsFor(n, k)
    BY <1>2 DEF Waiting, WaitsFor
  <1>4. Reached(l)'
    BY <1>1, <1>2 DEF Reached, AtLevel
  <1>5. Queued(l) => Queued(l)'
    BY <1>1, <1>2, <1>3 DEF Queued
  <1>6. Owed(l) => Owed(l)'
    BY <1>1, <1>2, <1>3 DEF Owed
  <1> QED BY <1>2, <1>4, <1>5, <1>6 DEF AtLevel

\* And so does a row that is known.
LEMMA KnownRowLevel ==
  ASSUME WalkTypeOK, NEW l \in Nat, AtLevel(l), NEW e \in graph, KnownRow(e)
  PROVE  AtLevel(l)'
  <1>1. /\ \A k : Within(k)' = Within(k)
        /\ \A n : EdgesAt(n)' = EdgesAt(n)
    BY SameWithin DEF KnownRow, request
  <1>2. /\ UNCHANGED <<nodes, seen, frontier, path, maxDepth, maxNodes>>
        /\ rows' = rows \ {e} /\ e \in seen
    BY DEF KnownRow, request
  <1>3. /\ Waiting' = Waiting /\ Current' = Current
        /\ \A n, k : WaitsFor(n, k)' = WaitsFor(n, k)
    BY <1>2 DEF Waiting, WaitsFor, Current
  <1>4. Reached(l)'
    BY <1>1, <1>2 DEF Reached, AtLevel
  <1>5. Queued(l) => Queued(l)'
    BY <1>1, <1>2, <1>3 DEF Queued
  <1>6. seen \cup rows \subseteq seen' \cup rows'
    BY <1>2
  <1>7. Owed(l) => Owed(l)'
    BY <1>1, <1>2, <1>3, <1>6 DEF Owed
  <1> QED BY <1>2, <1>4, <1>5, <1>7 DEF AtLevel

\* A new edge leads to this level or the next, and its end waits.
LEMMA NewRowLevel ==
  ASSUME WalkTypeOK, CapInv, NEW l \in Nat, AtLevel(l), NEW e \in graph, NewRow(e)
  PROVE  AtLevel(l)'
  <1>1. /\ \A k : Within(k)' = Within(k)
        /\ \A n : EdgesAt(n)' = EdgesAt(n)
    BY SameWithin DEF NewRow, request
  <1>2. path # <<>> /\ Cardinality(nodes) < maxNodes
    BY DEF CapInv, NewRow
  <1>3. Reached(l) /\ Queued(l) /\ Owed(l)
    BY <1>2 DEF AtLevel
  <1>4. /\ Current \in Within(l) /\ rows \subseteq EdgesAt(Current)
        /\ DepthOf(path) = l /\ l < maxDepth
    BY <1>2, <1>3 DEF Queued
  <1>5. e \in EdgesAt(Current)
    BY <1>4 DEF NewRow
  <1> PICK n : n = OtherOf(e)
    OBVIOUS
  <1> PICK p : p = Append(path, n)
    OBVIOUS
  <1>6. /\ Current \in {e.source, e.target}
        /\ {e.source, e.target} = {Current, n}
        /\ n \in {Current} \cup Neighbours({Current})
    BY <1>5, OtherEnd DEF OtherOf
  <1>7. Within(l + 1) = Within(l) \cup Neighbours(Within(l))
    BY WithinMore DEF WalkTypeOK
  <1>8. n \in Within(l + 1) /\ Current \in nodes
    BY <1>3, <1>4, <1>6, <1>7, NeighboursOf DEF Reached
  <1>9. n \in Nodes
    BY <1>8, WithinNodes
  <1>10. /\ p \in Seq(Nodes) \ {<<>>} /\ DepthOf(p) = l + 1 /\ Last(p) = n
    BY <1>2, <1>4, <1>9, PathOn DEF WalkTypeOK
  <1>11. /\ UNCHANGED <<path, maxDepth, maxNodes>>
         /\ nodes' = nodes \cup {n} /\ seen' = seen \cup {e} /\ frontier' = Append(frontier, p)
    BY DEF NewRow, request
  <1>12. /\ Waiting' = Waiting \cup {p}
         /\ \A i, j \in 1..Len(frontier') : i <= j => DepthOf(frontier'[i]) <= DepthOf(frontier'[j])
    <2>1. \A q \in Waiting : DepthOf(q) <= DepthOf(p)
      BY <1>3, <1>10 DEF Queued
    <2> QED BY <1>3, <1>10, <1>11, <2>1, WaitAppend DEF Queued
  <1>13. \A m, k : WaitsFor(m, k) => WaitsFor(m, k)'
    BY <1>12 DEF WaitsFor
  <1>14. WaitsFor(n, l + 1)'
    BY <1>10, <1>12 DEF WaitsFor
  <1>15. Reached(l)'
    <2>1. l < maxDepth' /\ maxDepth' # 0
      BY <1>4, <1>11 DEF WalkTypeOK
    <2>2. Within(l)' \subseteq nodes' /\ nodes' \subseteq Within(l + 1)'
      BY <1>1, <1>3, <1>8, <1>11 DEF Reached
    <2>3. \A f \in seen' : f.source \in nodes' /\ f.target \in nodes'
      BY <1>3, <1>6, <1>8, <1>11 DEF Reached
    <2>4. \A f \in seen' : \E m \in Within(l)' : f \in EdgesAt(m)'
      BY <1>1, <1>3, <1>4, <1>5, <1>11 DEF Reached
    <2> QED BY <2>1, <2>2, <2>3, <2>4 DEF Reached
  <1>16. Current' = Current
    BY <1>11 DEF Current
  <1>17. rows' \subseteq rows
    BY DEF NewRow
  <1>18. Queued(l)'
    <2>1. \A q \in Waiting' : /\ DepthOf(q) \in {l, l + 1} /\ Last(q) \in nodes'
                              /\ DepthOf(q) = l => Last(q) \in Within(l)'
      <3>1. l + 1 # l
        OBVIOUS
      <3> QED BY <1>1, <1>3, <1>10, <1>11, <1>12, <3>1 DEF Queued
    <2>2. \E m \in Within(l)' : m = Current' /\ rows' \subseteq EdgesAt(m)'
      BY <1>1, <1>4, <1>16, <1>17
    <2> QED BY <1>4, <1>11, <1>12, <2>1, <2>2 DEF Queued
  <1>19. ASSUME Cardinality(nodes') < maxNodes PROVE Owed(l)'
    <2>1. rows' = rows \ {e}
      <3>1. Cardinality(nodes') \in Nat /\ maxNodes \in Nat
        BY <1>11, OneMore DEF WalkTypeOK
      <3>2. ~(Cardinality(nodes') >= maxNodes)
        BY ONLY <1>19, <3>1
      <3> QED BY <3>2 DEF NewRow
    <2>2. seen \cup rows \subseteq seen' \cup rows' /\ seen \subseteq seen'
      BY <1>11, <2>1
    <2>3. \A m \in Within(l) :
            \/ EdgesAt(m) \subseteq seen'
            \/ WaitsFor(m, l)'
            \/ m = Current' /\ EdgesAt(m) \subseteq seen' \cup rows'
      BY <1>3, <1>4, <1>13, <1>16, <2>2 DEF Owed
    <2>4. l + 1 < maxDepth => \A m \in nodes' \ Within(l) : WaitsFor(m, l + 1)'
      BY <1>3, <1>11, <1>13, <1>14 DEF Owed
    <2> QED BY <1>1, <1>2, <1>11, <2>3, <2>4 DEF Owed
  <1> QED BY <1>11, <1>15, <1>18, <1>19 DEF AtLevel

\* A step keeps a level or reaches the next.
LEMMA LevelStep ==
  ASSUME WalkTypeOK, CapInv, LevelInv, [WalkNext]_walkVars
  PROVE  LevelInv'
  <1>1. PICK l \in Nat : AtLevel(l)
    BY DEF LevelInv
  <1>2. AtLevel(l)' => LevelInv'
    BY DEF LevelInv
  <1>3. AtLevel(l + 1)' => LevelInv'
    BY DEF LevelInv
  <1>4. CASE Skip
    BY <1>1, <1>2, <1>4, SkipLevel
  <1>5. CASE Full
    BY <1>1, <1>2, <1>5, FullLevel
  <1>6. CASE Expand
    <2>1. Queued(l) /\ frontier # <<>>
      BY <1>1, <1>6 DEF AtLevel, Expand
    <2>2. Taken \in Waiting
      BY <1>6, <2>1, WaitTail DEF Expand, Queued
    <2>3. DepthOf(Taken) \in {l, l + 1}
      BY <2>1, <2>2 DEF Queued
    <2> QED BY <1>1, <1>2, <1>3, <1>6, <2>3, ExpandHere, ExpandNext
  <1>7. ASSUME NEW e \in graph, Follow(e) PROVE LevelInv'
    <2>1. NewRow(e) \/ KnownRow(e)
      BY <1>7, FollowCases
    <2> QED BY <1>1, <1>2, <2>1, NewRowLevel, KnownRowLevel
  <1>8. CASE EndRows
    BY <1>1, <1>2, <1>8, EndRowsLevel
  <1>9. CASE UNCHANGED walkVars
    <2>1. /\ \A k : Within(k)' = Within(k)
          /\ \A n : EdgesAt(n)' = EdgesAt(n)
      BY <1>9, SameWithin DEF walkVars
    <2>2. UNCHANGED <<nodes, seen, frontier, rows, path, maxDepth, maxNodes>>
      BY <1>9 DEF walkVars
    <2>3. Waiting' = Waiting /\ Current' = Current /\ \A n, k : WaitsFor(n, k)' = WaitsFor(n, k)
      BY <2>2 DEF Waiting, WaitsFor, Current
    <2>4. Reached(l) => Reached(l)'
      BY <2>1, <2>2 DEF Reached
    <2>5. Queued(l) => Queued(l)'
      BY <2>1, <2>2, <2>3 DEF Queued
    <2>6. Owed(l) => Owed(l)'
      BY <2>1, <2>2, <2>3 DEF Owed
    <2> QED BY <1>1, <1>2, <2>2, <2>4, <2>5, <2>6 DEF AtLevel
  <1>10. (\E e \in graph : Follow(e)) => LevelInv'
    BY <1>7
  <1>11. Skip \/ Full \/ Expand \/ EndRows \/ (\E e \in graph : Follow(e)) \/ UNCHANGED walkVars
    BY DEF WalkNext
  <1> QED BY <1>4, <1>5, <1>6, <1>8, <1>9, <1>10, <1>11

\* The walk has found what a reader may rely on.
LEMMA LevelComplete ==
  ASSUME WalkTypeOK, CapInv, LevelInv
  PROVE  WalkIsComplete
  <1>1. PICK l \in Nat : AtLevel(l)
    BY DEF LevelInv
  <1>2. /\ graph \subseteq Edges /\ maxDepth \in Nat /\ maxNodes \in Nat
        /\ Cardinality(nodes) \in Nat
    BY FS_CardinalityType DEF WalkTypeOK
  <1>3. Reached(l)
    BY <1>1 DEF AtLevel
  <1>4. nodes \subseteq Within(maxDepth)
    <2>1. CASE maxDepth = 0
      BY <1>3, <2>1 DEF Reached
    <2>2. CASE l < maxDepth
      <3>1. l + 1 \in Nat /\ l + 1 <= maxDepth
        BY <1>2, <2>2
      <3> QED BY <1>2, <1>3, <3>1, WithinFrom DEF Reached
    <2> QED BY <1>2, <1>3, <2>1, <2>2 DEF Reached
  <1>5. ASSUME NEW k \in 1..maxDepth
        PROVE  nodes \subseteq Within(k - 1) \/ Within(k - 1) \subseteq nodes
    <2>1. k - 1 \in Nat /\ l + 1 \in Nat /\ (k - 1 <= l \/ l + 1 <= k - 1)
      BY <1>2
    <2>2. CASE k - 1 <= l
      BY <1>2, <1>3, <2>1, <2>2, WithinFrom DEF Reached
    <2>3. CASE l + 1 <= k - 1
      BY <1>2, <1>3, <2>1, <2>3, WithinFrom DEF Reached
    <2> QED BY <2>1, <2>2, <2>3
  <1>6. ASSUME Done, Cardinality(nodes) < maxNodes
        PROVE  /\ nodes = Within(maxDepth)
               /\ seen = IF maxDepth = 0 THEN {} ELSE Touching(Within(maxDepth - 1))
    <2>1. Queued(l) /\ Owed(l)
      BY <1>1, <1>6 DEF AtLevel
    <2>2. cut = FALSE
      BY <1>2, <1>6 DEF CapInv, WalkTypeOK
    <2>3. path = <<>> /\ frontier = <<>>
      BY <1>6, <2>2 DEF Done
    <2>4. Waiting = {} /\ \A n, k : ~WaitsFor(n, k)
      <3>1. Len(frontier) = 0
        BY <2>3
      <3> QED BY <3>1 DEF Waiting, WaitsFor
    <2>5. CASE maxDepth = 0
      <3>1. l = 0
        BY <1>2, <1>3, <2>5 DEF Reached
      <3> QED BY <1>3, <2>5, <3>1 DEF Reached
    <2>6. CASE maxDepth # 0
      <3>1. l < maxDepth
        BY <1>2, <1>3, <2>6 DEF Reached
      <3>2. nodes = Within(l + 1) /\ seen = Touching(Within(l))
        BY <1>3, <2>1, <2>3, <2>4, <3>1, LevelFull DEF Owed
      <3>3. CASE l + 1 = maxDepth
        <4>1. maxDepth - 1 = l
          BY <1>2, <3>3
        <4> QED BY <2>6, <3>2, <3>3, <4>1
      <3>4. CASE l + 1 < maxDepth
        <4>1. nodes \subseteq Within(l)
          BY <2>1, <2>4, <3>4 DEF Owed
        <4>2. l <= maxDepth /\ l <= maxDepth - 1 /\ maxDepth - 1 \in Nat
          BY <1>2, <2>6, <3>1
        <4>3. Within(l + 1) \subseteq Within(l) /\ Within(l) \subseteq nodes
          BY <1>3, <3>2, <4>1 DEF Reached
        <4>4. Within(maxDepth) = Within(l) /\ Within(maxDepth - 1) = Within(l)
          BY <1>2, <4>2, <4>3, WithinAll
        <4> QED BY <2>6, <3>2, <4>1, <4>3, <4>4
      <3> QED BY <1>2, <3>1, <3>3, <3>4
    <2> QED BY <2>5, <2>6
  <1> QED BY <1>4, <1>5, <1>6 DEF WalkIsComplete, CapInv

\* The walk of graph-traverse finds the nearest nodes first and none too far
\* away, and when the cap does not end it, all of them and their edges.
THEOREM WalkFindsAll == WalkSpec => []WalkIsComplete
  <1> DEFINE Inv == WalkTypeOK /\ CapInv /\ LevelInv
  <1>1. WalkInit => Inv
    BY WalkStart, LevelStart
  <1>2. Inv /\ [WalkNext]_walkVars => Inv'
    BY WalkTyped, LevelStep
  <1>3. Inv => WalkIsComplete
    BY LevelComplete
  <1> QED BY <1>1, <1>2, <1>3, PTL DEF WalkSpec

-----------------------------------------------------------------------------
(* What a store, a transaction and a session may be, in LegalSources.      *)

Stores == [text : [Docs -> Texts \cup {None}],
           atoms : [Docs \X Atoms -> Texts \cup {None}],
           edges : SUBSET (Docs \X (Docs \cup {Elsewhere})),
           part : [Docs -> Sessions \cup {None}]]

Steps == {"closed", "open", "sync", "rebuild", "commit", "extract", "examine", "report"}

\* What the database and the open transaction hold, and who writes.
StoreOK == db \in Stores /\ draft \in Stores /\ writer \in Sessions \cup {None}

\* What a session knows.
SessionOK ==
  /\ pc \in [Sessions -> Steps]
  /\ read \in [Sessions -> [Docs -> Texts \cup {None}]]
  /\ todo \in [Sessions -> SUBSET Docs]
  /\ evidence \in [Sessions -> SUBSET Docs]
  /\ blocked \in [Sessions -> SUBSET Docs]
  /\ populated \in [Sessions -> BOOLEAN]
  /\ fresh \in [Sessions -> SUBSET Docs]
  /\ moved \in [Sessions -> BOOLEAN]

TypeOK == StoreOK /\ SessionOK

USE PublishedAssumption, RepealsAssumption, NoneAssumption, SessionAssumption, ElsewhereAssumption
    DEF Sessions

-----------------------------------------------------------------------------
(* Types.                                                                  *)

LEMMA EmptyType == Empty \in Stores
  BY DEF Empty, Nothing, Stores

LEMMA StoreMade ==
  ASSUME NEW te \in [Docs -> Texts \cup {None}],
         NEW at \in [Docs \X Atoms -> Texts \cup {None}],
         NEW ed \in SUBSET (Docs \X (Docs \cup {Elsewhere})),
         NEW pa \in [Docs -> Sessions \cup {None}]
  PROVE  [text |-> te, atoms |-> at, edges |-> ed, part |-> pa] \in Stores
  BY DEF Stores

\* What a session sees is a store.
LEMMA ViewType ==
  ASSUME StoreOK, NEW c \in Sessions
  PROVE  View(c) \in Stores
  BY DEF StoreOK, View

\* What an atom of version x becomes when text t of its document is compiled.
Relabelled(x, a, t) ==
  IF t = None THEN x ELSE IF a \in Says[t] THEN t ELSE IF x = t THEN None ELSE x

LEMMA CompiledOf ==
  ASSUME NEW at \in [Docs \X Atoms -> Texts \cup {None}],
         NEW texts \in [Docs -> Texts \cup {None}]
  PROVE  /\ Compiled(at, texts) \in [Docs \X Atoms -> Texts \cup {None}]
         /\ \A d \in Docs, a \in Atoms :
              Compiled(at, texts)[<<d, a>>] = Relabelled(at[<<d, a>>], a, texts[d])
  <1>1. \A x \in Docs \X Atoms : x[1] \in Docs /\ x[2] \in Atoms
    OBVIOUS
  <1>. QED BY <1>1 DEF Compiled, Relabelled

\* And so is what it makes of it.
LEMMA StoreWith ==
  ASSUME NEW v \in Stores, NEW c \in Sessions, NEW d \in Docs, NEW t \in Texts
  PROVE  [text |-> [v.text EXCEPT ![d] = t],
          atoms |-> Compiled(v.atoms, [Nothing EXCEPT ![d] = t]),
          edges |-> v.edges, part |-> [v.part EXCEPT ![d] = c]] \in Stores
  <1>1. [v.text EXCEPT ![d] = t] \in [Docs -> Texts \cup {None}]
    BY DEF Stores
  <1>2. [v.part EXCEPT ![d] = c] \in [Docs -> Sessions \cup {None}]
    BY DEF Stores
  <1>3. [Nothing EXCEPT ![d] = t] \in [Docs -> Texts \cup {None}]
    BY DEF Nothing
  <1>4. v.atoms \in [Docs \X Atoms -> Texts \cup {None}]
    BY DEF Stores
  <1>5. Compiled(v.atoms, [Nothing EXCEPT ![d] = t]) \in [Docs \X Atoms -> Texts \cup {None}]
    BY ONLY <1>3, <1>4, CompiledOf
  <1>6. v.edges \in SUBSET (Docs \X (Docs \cup {Elsewhere}))
    BY DEF Stores
  <1>. QED BY ONLY <1>1, <1>2, <1>5, <1>6, StoreMade

LEMMA StoredType ==
  ASSUME StoreOK, NEW c \in Sessions, NEW d \in Docs, NEW t \in Texts
  PROVE  Stored(c, d, t) \in Stores
  <1>1. View(c) \in Stores
    BY ViewType
  <1>. QED BY <1>1, StoreWith DEF Stored

LEMMA RebuiltType ==
  ASSUME NEW base \in Stores, NEW texts \in [Docs -> Texts \cup {None}]
  PROVE  Rebuilt(base, texts) \in Stores
  <1>1. base.atoms \in [Docs \X Atoms -> Texts \cup {None}]
    BY DEF Stores
  <1>2. Compiled(base.atoms, texts) \in [Docs \X Atoms -> Texts \cup {None}]
    BY ONLY <1>1, CompiledOf
  <1>. QED BY <1>2 DEF Rebuilt, Stores

LEMMA EdgesType ==
  ASSUME NEW base \in Stores, NEW more \in SUBSET (Docs \X (Docs \cup {Elsewhere}))
  PROVE  [base EXCEPT !.edges = @ \cup more] \in Stores
  BY DEF Stores

LEMMA PublishType ==
  ASSUME StoreOK, SessionOK, NEW c \in Sessions, Publish(c)
  PROVE  db' \in Stores
  BY DEF Publish, StoreOK, SessionOK, Stores

LEMMA WriteType ==
  ASSUME StoreOK, NEW c \in Sessions, NEW base \in Stores, Write(c, base)
  PROVE  StoreOK'
  BY DEF Write, StoreOK

LEMMA RollbackType ==
  ASSUME StoreOK, NEW c \in Sessions, Rollback(c)
  PROVE  StoreOK'
  BY EmptyType DEF Rollback, StoreOK, store

LEMMA SameType ==
  ASSUME StoreOK, UNCHANGED store
  PROVE  StoreOK'
  BY DEF StoreOK, store

LEMMA FailType ==
  ASSUME StoreOK, NEW c \in Sessions, Fail(c)
  PROVE  StoreOK'
  BY RollbackType, SameType DEF Fail, Close, store

-----------------------------------------------------------------------------
(* Every step keeps the types.                                             *)

LEMMA StoreStep ==
  ASSUME TypeOK, NEW c \in Sessions, Start(c) \/ Step(c) \/ Stop(c)
  PROVE  StoreOK'
  <1>. USE DEF TypeOK
  <1>1. ASSUME \/ Open(c) \/ StartSync(c) \/ StartRebuild(c)
               \/ \E found \in SUBSET Docs : StartAnalysis(c, found)
               \/ \E d \in Docs : Examine(c, d)
               \/ Report(c)
        PROVE  StoreOK'
    BY <1>1, SameType DEF Open, StartSync, StartRebuild, StartAnalysis, Examine, Report, store
  <1>2. ASSUME FetchFails(c) \/ GiveUp(c)
        PROVE  StoreOK'
    BY <1>2, FailType DEF FetchFails, GiveUp
  <1>3. ASSUME EndExtract(c) \/ Stop(c)
        PROVE  StoreOK'
    BY <1>3, RollbackType DEF EndExtract, Stop, Close
  <1>4. CASE OtherTool(c)
    BY <1>4, ViewType, WriteType DEF OtherTool
  <1>5. CASE StartExtract(c)
    <2>1. [db EXCEPT !.edges = {}] \in Stores
      BY DEF StoreOK, Stores
    <2>. QED BY <1>5, <2>1 DEF StartExtract, ResetEdges, StoreOK, store
  <1>6. ASSUME NEW p \in Published, IngestUrn(c, p[1], p[2])
        PROVE  StoreOK'
    <2>1. p[1] \in Docs /\ p[2] \in Texts
      BY DEF TypeOK
    <2>2. Stored(c, p[1], p[2]) \in Stores
      BY <2>1, StoredType
    <2>. QED BY <1>6, <2>2, WriteType DEF IngestUrn
  <1>7. ASSUME NEW p \in Published, NEW edges \in SUBSET (Repeals \cap (Docs \X Docs)),
               IngestJson(c, p[1], p[2], edges)
        PROVE  StoreOK'
    <2>1. p[1] \in Docs /\ p[2] \in Texts
      BY DEF TypeOK
    <2>2. Stored(c, p[1], p[2]) \in Stores
      BY <2>1, StoredType
    <2>3. edges \in SUBSET (Docs \X (Docs \cup {Elsewhere}))
      OBVIOUS
    <2>4. [Stored(c, p[1], p[2]) EXCEPT !.edges = @ \cup edges] \in Stores
      BY <2>2, <2>3, EdgesType
    <2>. QED BY <1>7, <2>4, WriteType DEF IngestJson
  <1>8. ASSUME NEW t \in Texts, FetchArticle(c, t)
        PROVE  StoreOK'
    <2>1. Bundle[next[c]] \in Docs
      BY <1>8 DEF FetchArticle
    <2>2. Stored(c, Bundle[next[c]], t) \in Stores
      BY <2>1, StoredType
    <2>. QED BY <1>8, <2>2, WriteType DEF FetchArticle
  <1>9. CASE Rebuild(c)
    <2>1. Rebuilt(View(c), read[c]) \in Stores
      BY ViewType, RebuiltType DEF SessionOK
    <2>. QED BY <1>9, <2>1, WriteType DEF Rebuild
  <1>10. CASE Commit(c)
    <2>1. db' \in Stores
      BY <1>10, PublishType DEF Commit
    <2>. QED BY <1>10, <2>1, EmptyType DEF Commit, Publish, StoreOK
  <1>11. ASSUME NEW d \in Docs, NEW targets \in SUBSET (Docs \cup {Elsewhere}),
                ExtractDoc(c, d, targets)
         PROVE  StoreOK'
    <2>1. {d} \X targets \in SUBSET (Docs \X (Docs \cup {Elsewhere}))
      OBVIOUS
    <2>2. [View(c) EXCEPT !.edges = @ \cup ({d} \X targets)] \in Stores
      BY <2>1, ViewType, EdgesType
    <2>. QED BY <1>11, <2>2, WriteType DEF ExtractDoc
  <1>. QED
    BY <1>1, <1>2, <1>3, <1>4, <1>5, <1>6, <1>7, <1>8, <1>9, <1>10, <1>11 DEF Start, Step

LEMMA LeaveType ==
  ASSUME SessionOK, NEW c \in Sessions, Leave(c)
  PROVE  /\ read' \in [Sessions -> [Docs -> Texts \cup {None}]]
         /\ todo' \in [Sessions -> SUBSET Docs]
         /\ evidence' \in [Sessions -> SUBSET Docs]
         /\ blocked' \in [Sessions -> SUBSET Docs]
         /\ populated' \in [Sessions -> BOOLEAN]
  BY DEF Leave, SessionOK, Nothing

LEMMA CloseSession ==
  ASSUME SessionOK, NEW c \in Sessions, Close(c)
  PROVE  SessionOK'
  BY LeaveType DEF Close, Goto, SessionOK, Steps

LEMMA FailSession ==
  ASSUME SessionOK, NEW c \in Sessions, Fail(c)
  PROVE  SessionOK'
  BY LeaveType, CloseSession DEF Fail, Goto, SessionOK, Steps

LEMMA SessionStep ==
  ASSUME TypeOK, NEW c \in Sessions, Start(c) \/ Step(c) \/ Stop(c)
  PROVE  SessionOK'
  <1>. USE DEF TypeOK
  <1>. SUFFICES ASSUME SessionOK PROVE SessionOK'
    OBVIOUS
  <1>1. ASSUME Open(c) \/ StartSync(c) \/ OtherTool(c)
        PROVE  SessionOK'
    BY <1>1 DEF Open, StartSync, OtherTool, SessionOK, Goto, Steps, analysis
  <1>2. ASSUME FetchFails(c) \/ GiveUp(c)
        PROVE  SessionOK'
    BY <1>2, FailSession DEF FetchFails, GiveUp
  <1>3. ASSUME EndExtract(c) \/ Stop(c)
        PROVE  SessionOK'
    BY <1>3, CloseSession DEF EndExtract, Stop
  <1>4. CASE StartRebuild(c)
    <2>1. View(c).text \in [Docs -> Texts \cup {None}]
      BY ViewType DEF Stores
    <2>. QED BY <1>4, <2>1 DEF StartRebuild, SessionOK, Goto, Steps, analysis
  <1>5. CASE StartExtract(c)
    <2>1. moved' \in [Sessions -> BOOLEAN]
      BY <1>5 DEF StartExtract, ResetEdges, SessionOK
    <2>2. OnRecord(db) \in SUBSET Docs
      BY DEF OnRecord
    <2>. QED BY <1>5, <2>1, <2>2 DEF StartExtract, SessionOK, Goto, Steps
  <1>6. ASSUME NEW p \in Published, IngestUrn(c, p[1], p[2])
        PROVE  SessionOK'
    BY <1>6 DEF IngestUrn, SessionOK, Goto, Steps, analysis
  <1>7. ASSUME NEW p \in Published, NEW edges \in SUBSET (Repeals \cap (Docs \X Docs)),
               IngestJson(c, p[1], p[2], edges)
        PROVE  SessionOK'
    BY <1>7 DEF IngestJson, SessionOK, Goto, Steps, analysis
  <1>8. ASSUME NEW t \in Texts, FetchArticle(c, t)
        PROVE  SessionOK'
    <2>1. Bundle[next[c]] \in Docs
      BY <1>8 DEF FetchArticle
    <2>. QED BY <1>8, <2>1 DEF FetchArticle, SessionOK, Goto, Steps, analysis
  <1>9. CASE Rebuild(c)
    BY <1>9 DEF Rebuild, SessionOK, Goto, Steps, analysis, Nothing
  <1>10. CASE Commit(c)
    BY <1>10 DEF Commit, Publish, SessionOK, Goto, Steps
  <1>11. ASSUME NEW d \in Docs, NEW targets \in SUBSET (Docs \cup {Elsewhere}),
                ExtractDoc(c, d, targets)
         PROVE  SessionOK'
    BY <1>11 DEF ExtractDoc, SessionOK, analysis
  <1>12. ASSUME NEW found \in SUBSET Docs, StartAnalysis(c, found)
         PROVE  SessionOK'
    BY <1>12 DEF StartAnalysis, SessionOK, Goto, Steps
  <1>13. ASSUME NEW d \in Docs, Examine(c, d)
         PROVE  SessionOK'
    BY <1>13 DEF Examine, SessionOK
  <1>14. CASE Report(c)
    BY <1>14 DEF Report, SessionOK, Goto, Steps
  <1>. QED
    BY <1>1, <1>2, <1>3, <1>4, <1>5, <1>6, <1>7, <1>8, <1>9, <1>10, <1>11, <1>12, <1>13, <1>14
       DEF Start, Step

LEMMA InitType == Init => TypeOK
  BY EmptyType DEF Init, TypeOK, StoreOK, SessionOK, Steps, Nothing

LEMMA NextType == TypeOK /\ [Next]_vars => TypeOK'
  <1>1. ASSUME TypeOK, UNCHANGED vars
        PROVE  TypeOK'
    BY <1>1 DEF TypeOK, StoreOK, SessionOK, vars
  <1>. QED BY <1>1, StoreStep, SessionStep DEF Next, TypeOK

\* The database, the transaction and what each session knows keep their types,
\* for any corpus, bundle and number of sessions.
THEOREM TypeCorrect == Spec => []TypeOK
  BY InitType, NextType, PTL DEF Spec

-----------------------------------------------------------------------------
(* Failed bundles.                                                         *)

\* What a request or a command has stored and not committed is in its own
\* transaction, among the documents its job has stored.
Mine == \A d \in Docs :
  draft.part[d] \in Short => writer = draft.part[d] /\ d \in fresh[writer]

WholeInv == TypeOK /\ BundleIsWhole /\ Mine

LEMMA NoPart == BundleIsWhole /\ draft = Empty => Mine
  BY DEF Mine, Empty, Nothing

LEMMA ViewMine ==
  ASSUME WholeInv, NEW c \in Sessions, MayWrite(c), NEW d \in Docs,
         View(c).part[d] \in Short
  PROVE  View(c).part[d] = c /\ d \in fresh[c]
  BY DEF WholeInv, BundleIsWhole, Mine, View, MayWrite

\* Writing on nothing but what a session sees, it marks only what it has stored.
LEMMA WriteWhole ==
  ASSUME WholeInv, NEW c \in Sessions, NEW base, Write(c, base),
         fresh[c] \subseteq fresh'[c],
         \A d \in Docs : base.part[d] = View(c).part[d] \/ (base.part[d] = c /\ d \in fresh'[c])
  PROVE  BundleIsWhole' /\ Mine'
  BY ViewMine DEF Write, Mine, BundleIsWhole, WholeInv

LEMMA RollbackWhole ==
  ASSUME WholeInv, NEW c \in Sessions, Rollback(c),
         \A o \in Sessions : o # c => fresh'[o] = fresh[o]
  PROVE  BundleIsWhole' /\ Mine'
  BY DEF Rollback, store, Mine, BundleIsWhole, WholeInv, TypeOK, StoreOK, Empty, Nothing

LEMMA FailWhole ==
  ASSUME WholeInv, NEW c \in Sessions, Fail(c)
  PROVE  BundleIsWhole' /\ Mine'
  <1>0. \A o \in Sessions : o # c => fresh'[o] = fresh[o]
    BY DEF Fail, Close, WholeInv, TypeOK, SessionOK
  <1>1. CASE c \in Short
    BY <1>0, <1>1, RollbackWhole DEF Fail, Close
  <1>2. CASE c \notin Short
    BY <1>0, <1>2 DEF Fail, store, Mine, BundleIsWhole, WholeInv, TypeOK, StoreOK
  <1>. QED BY <1>1, <1>2

LEMMA WholeStep ==
  ASSUME WholeInv, NEW c \in Sessions, Start(c) \/ Step(c) \/ Stop(c)
  PROVE  BundleIsWhole' /\ Mine'
  <1>1. ASSUME UNCHANGED <<db, draft, writer, fresh>>
        PROVE  BundleIsWhole' /\ Mine'
    BY <1>1 DEF Mine, BundleIsWhole, WholeInv
  <1>2. ASSUME \/ Open(c) \/ StartSync(c) \/ StartRebuild(c)
               \/ \E found \in SUBSET Docs : StartAnalysis(c, found)
               \/ \E d \in Docs : Examine(c, d)
               \/ Report(c)
        PROVE  BundleIsWhole' /\ Mine'
    BY <1>1, <1>2 DEF Open, StartSync, StartRebuild, StartAnalysis, Examine, Report, store
  <1>3. ASSUME FetchFails(c) \/ GiveUp(c)
        PROVE  BundleIsWhole' /\ Mine'
    BY <1>3, FailWhole DEF FetchFails, GiveUp
  <1>4. ASSUME EndExtract(c) \/ Stop(c)
        PROVE  BundleIsWhole' /\ Mine'
    <2>1. \A o \in Sessions : o # c => fresh'[o] = fresh[o]
      BY <1>4 DEF EndExtract, Stop, Close, WholeInv, TypeOK, SessionOK
    <2>. QED BY <1>4, <2>1, RollbackWhole DEF EndExtract, Stop, Close
  <1>5. CASE OtherTool(c)
    BY <1>5, WriteWhole DEF OtherTool
  <1>6. CASE StartExtract(c)
    <2>1. db'.part = db.part /\ UNCHANGED <<draft, writer, fresh>>
      BY <1>6 DEF StartExtract, ResetEdges, store, WholeInv, TypeOK, StoreOK, Stores
    <2>. QED BY <2>1 DEF Mine, BundleIsWhole, WholeInv
  <1>7. ASSUME NEW p \in Published, IngestUrn(c, p[1], p[2])
        PROVE  BundleIsWhole' /\ Mine'
    <2>1. /\ p[1] \in Docs
          /\ fresh'[c] = fresh[c] \cup {p[1]}
      BY <1>7 DEF IngestUrn, WholeInv, TypeOK, SessionOK
    <2>2. \A d \in Docs : \/ Stored(c, p[1], p[2]).part[d] = View(c).part[d]
                          \/ Stored(c, p[1], p[2]).part[d] = c /\ d = p[1]
      BY <2>1, ViewType DEF Stored, WholeInv, TypeOK, Stores
    <2>. QED BY <1>7, <2>1, <2>2, WriteWhole DEF IngestUrn
  <1>8. ASSUME NEW p \in Published, NEW edges \in SUBSET (Repeals \cap (Docs \X Docs)),
               IngestJson(c, p[1], p[2], edges)
        PROVE  BundleIsWhole' /\ Mine'
    <2>. DEFINE base == [Stored(c, p[1], p[2]) EXCEPT !.edges = @ \cup edges]
    <2>1. /\ p[1] \in Docs
          /\ fresh'[c] = fresh[c] \cup {p[1]}
      BY <1>8 DEF IngestJson, WholeInv, TypeOK, SessionOK
    <2>2. base.part = Stored(c, p[1], p[2]).part
      BY DEF Stored
    <2>3. \A d \in Docs : \/ Stored(c, p[1], p[2]).part[d] = View(c).part[d]
                          \/ Stored(c, p[1], p[2]).part[d] = c /\ d = p[1]
      BY <2>1, ViewType DEF Stored, WholeInv, TypeOK, Stores
    <2>4. Write(c, base)
      BY <1>8 DEF IngestJson
    <2>. HIDE DEF base
    <2>. QED BY <2>1, <2>2, <2>3, <2>4, WriteWhole
  <1>9. ASSUME NEW t \in Texts, FetchArticle(c, t)
        PROVE  BundleIsWhole' /\ Mine'
    <2>. DEFINE e == Bundle[next[c]]
    <2>1. /\ e \in Docs
          /\ fresh'[c] = fresh[c] \cup {e}
          /\ Write(c, Stored(c, e, t))
      BY <1>9 DEF FetchArticle, WholeInv, TypeOK, SessionOK
    <2>. HIDE DEF e
    <2>2. \A d \in Docs : \/ Stored(c, e, t).part[d] = View(c).part[d]
                          \/ Stored(c, e, t).part[d] = c /\ d = e
      BY <2>1, ViewType DEF Stored, WholeInv, TypeOK, Stores
    <2>. QED BY <2>1, <2>2, WriteWhole
  <1>10. CASE Rebuild(c)
    <2>1. Rebuilt(View(c), read[c]).part = View(c).part
      BY ViewType DEF Rebuilt, WholeInv, TypeOK, Stores
    <2>. QED BY <1>10, <2>1, WriteWhole DEF Rebuild
  <1>11. CASE Commit(c)
    <2>1. \A d \in Docs : db'.part[d] = IF d \in fresh[c] THEN None ELSE draft.part[d]
      BY <1>11 DEF Commit, Publish, WholeInv, TypeOK, StoreOK, Stores
    <2>2. writer = c /\ draft' = Empty
      BY <1>11 DEF Commit, Publish
    <2>. QED BY <2>1, <2>2 DEF Mine, BundleIsWhole, WholeInv, Empty, Nothing
  <1>12. ASSUME NEW d \in Docs, NEW targets \in SUBSET (Docs \cup {Elsewhere}),
                ExtractDoc(c, d, targets)
         PROVE  BundleIsWhole' /\ Mine'
    <2>. DEFINE base == [View(c) EXCEPT !.edges = @ \cup ({d} \X targets)]
    <2>1. base.part = View(c).part
      BY ViewType DEF WholeInv, TypeOK, Stores
    <2>2. Write(c, base) /\ fresh' = fresh
      BY <1>12 DEF ExtractDoc
    <2>. HIDE DEF base
    <2>. QED BY <2>1, <2>2, WriteWhole
  <1>. QED
    BY <1>2, <1>3, <1>4, <1>5, <1>6, <1>7, <1>8, <1>9, <1>10, <1>11, <1>12 DEF Start, Step

\* No request and no command leaves a part of a bundle behind or shows it before
\* it is over: what it stores and does not commit is rolled back when it closes.
THEOREM WholeBundles == Spec => []BundleIsWhole
  <1>1. Init => WholeInv
    BY InitType DEF WholeInv, Init, BundleIsWhole, Mine, Empty, Nothing
  <1>2. WholeInv /\ [Next]_vars => WholeInv'
    <2>1. ASSUME WholeInv, UNCHANGED vars
          PROVE  BundleIsWhole' /\ Mine'
      BY <2>1 DEF WholeInv, BundleIsWhole, Mine, vars
    <2>. QED BY <2>1, NextType, WholeStep DEF WholeInv, Next
  <1>. QED BY <1>1, <1>2, PTL DEF Spec, WholeInv

-----------------------------------------------------------------------------
(* Atoms.                                                                  *)

\* An atom is of a text that says it, and what the text of a document says has an
\* atom: that of the text itself, unless a rebuild was of an older one.
Atomed(base, old) ==
  /\ \A d \in Docs, a \in Atoms :
       base.atoms[<<d, a>>] # None => a \in Says[base.atoms[<<d, a>>]]
  /\ \A d \in Docs : base.text[d] # None =>
       \A a \in Says[base.text[d]] :
         /\ base.atoms[<<d, a>>] # None
         /\ base.atoms[<<d, a>>] = base.text[d] \/ old

\* What a rebuild has read is what it sees, as long as nobody commits.
Unmoved ==
  \A c \in Sessions : pc[c] = "rebuild" /\ ~moved[c] => read[c] = View(c).text

AtomsInv == TypeOK /\ Atomed(db, stale) /\ Atomed(draft, stale) /\ Unmoved

LEMMA EmptyAtomed == \A old : Atomed(Empty, old)
  BY DEF Atomed, Empty, Nothing

LEMMA ViewAtomed ==
  ASSUME AtomsInv, NEW c \in Sessions
  PROVE  Atomed(View(c), stale)
  BY DEF AtomsInv, View

\* Compiling the texts on record, or others once that is allowed for.
LEMMA CompiledAtomed ==
  ASSUME NEW base \in Stores, NEW old, NEW new, old => new, Atomed(base, old),
         NEW texts \in [Docs -> Texts \cup {None}], NEW made \in Stores,
         made.atoms = Compiled(base.atoms, texts),
         \A d \in Docs : \/ made.text[d] = base.text[d] /\ texts[d] = None
                         \/ made.text[d] = texts[d]
                         \/ made.text[d] = base.text[d] /\ new
  PROVE  Atomed(made, new)
  <1>1. /\ base.atoms \in [Docs \X Atoms -> Texts \cup {None}]
        /\ texts \in [Docs -> Texts \cup {None}]
    BY DEF Stores
  <1>2. \A d \in Docs, a \in Atoms :
          made.atoms[<<d, a>>] = Relabelled(base.atoms[<<d, a>>], a, texts[d])
    <2>1. \A d \in Docs, a \in Atoms :
            Compiled(base.atoms, texts)[<<d, a>>] = Relabelled(base.atoms[<<d, a>>], a, texts[d])
      BY ONLY <1>1, CompiledOf
    <2>2. made.atoms = Compiled(base.atoms, texts)
      OBVIOUS
    <2>. QED BY ONLY <2>1, <2>2
  <1>3. \A t \in Texts : Says[t] \subseteq Atoms
    BY SaysAssumption
  <1>4. ASSUME NEW d \in Docs, NEW a \in Atoms, made.atoms[<<d, a>>] # None
        PROVE  a \in Says[made.atoms[<<d, a>>]]
    BY <1>2, <1>4 DEF Atomed, Relabelled
  <1>5. ASSUME NEW d \in Docs, made.text[d] # None, NEW a \in Says[made.text[d]]
        PROVE  made.atoms[<<d, a>>] # None /\ (made.atoms[<<d, a>>] = made.text[d] \/ new)
    <2>1. made.text[d] \in Texts /\ a \in Atoms
      BY <1>3, <1>5 DEF Stores
    <2>2. CASE made.text[d] = texts[d]
      BY <1>2, <1>5, <2>1, <2>2 DEF Relabelled
    <2>3. CASE made.text[d] = base.text[d] /\ (texts[d] = None \/ new)
      <3>1. base.atoms[<<d, a>>] # None /\ (base.atoms[<<d, a>>] = base.text[d] \/ old)
        BY <1>5, <2>3 DEF Atomed
      <3>2. a \in Says[base.atoms[<<d, a>>]]
        BY <2>1, <3>1 DEF Atomed
      <3>. QED BY <1>2, <2>1, <2>3, <3>1, <3>2 DEF Relabelled
    <2>. QED BY <2>2, <2>3
  <1>. QED BY <1>4, <1>5 DEF Atomed

LEMMA StoredAtomed ==
  ASSUME AtomsInv, NEW c \in Sessions, NEW d \in Docs, NEW t \in Texts
  PROVE  Atomed(Stored(c, d, t), stale)
  <1>. DEFINE texts == [Nothing EXCEPT ![d] = t]
  <1>1. View(c) \in Stores /\ Atomed(View(c), stale) /\ Stored(c, d, t) \in Stores
    BY ViewType, ViewAtomed, StoredType DEF AtomsInv, TypeOK
  <1>2. /\ Stored(c, d, t).text = [View(c).text EXCEPT ![d] = t]
        /\ Stored(c, d, t).atoms = Compiled(View(c).atoms, texts)
    BY DEF Stored
  <1>3. /\ texts \in [Docs -> Texts \cup {None}]
        /\ \A e \in Docs : texts[e] = IF e = d THEN t ELSE None
    BY DEF Nothing
  <1>. HIDE DEF texts
  <1>4. \A e \in Docs : Stored(c, d, t).text[e] = IF e = d THEN t ELSE View(c).text[e]
    BY <1>1, <1>2 DEF Stores
  <1>5. \A e \in Docs : \/ Stored(c, d, t).text[e] = View(c).text[e] /\ texts[e] = None
                        \/ Stored(c, d, t).text[e] = texts[e]
    BY <1>3, <1>4
  <1>6. PICK old : old = stale
    OBVIOUS
  <1>7. PICK base \in Stores : base = View(c)
    BY <1>1
  <1>8. PICK made \in Stores : made = Stored(c, d, t)
    BY <1>1
  <1>9. /\ Atomed(base, old)
        /\ made.atoms = Compiled(base.atoms, texts)
        /\ \A e \in Docs : \/ made.text[e] = base.text[e] /\ texts[e] = None
                          \/ made.text[e] = texts[e]
    BY <1>1, <1>2, <1>5, <1>6, <1>7, <1>8
  <1>10. Atomed(made, old)
    BY ONLY <1>3, <1>9, CompiledAtomed
  <1>. QED BY <1>6, <1>8, <1>10

LEMMA RebuiltAtomed ==
  ASSUME NEW base \in Stores, NEW old, NEW new, old => new, Atomed(base, old),
         NEW texts \in [Docs -> Texts \cup {None}], texts = base.text \/ new
  PROVE  Atomed(Rebuilt(base, texts), new)
  <1>1. /\ Rebuilt(base, texts).text = base.text
        /\ Rebuilt(base, texts).atoms = Compiled(base.atoms, texts)
    BY DEF Rebuilt, Stores
  <1>2. Rebuilt(base, texts) \in Stores
    BY RebuiltType
  <1>. QED BY <1>1, <1>2, CompiledAtomed

LEMMA EdgesAtomed ==
  ASSUME NEW base \in Stores, NEW old, Atomed(base, old), NEW edges
  PROVE  Atomed([base EXCEPT !.edges = edges], old)
  BY DEF Atomed, Stores

LEMMA WriteAtomed ==
  ASSUME AtomsInv, NEW c \in Sessions, NEW base, stale => stale',
         Atomed(base, stale'), Write(c, base)
  PROVE  Atomed(db', stale') /\ Atomed(draft', stale')
  BY DEF Write, AtomsInv, Atomed

LEMMA RollbackAtomed ==
  ASSUME AtomsInv, NEW c \in Sessions, Rollback(c), stale' = stale
  PROVE  Atomed(db', stale') /\ Atomed(draft', stale')
  BY EmptyAtomed DEF Rollback, AtomsInv

LEMMA AtomsStep ==
  ASSUME AtomsInv, NEW c \in Sessions, Start(c) \/ Step(c) \/ Stop(c)
  PROVE  Atomed(db', stale') /\ Atomed(draft', stale')
  <1>1. ASSUME UNCHANGED <<store, stale>>
        PROVE  Atomed(db', stale') /\ Atomed(draft', stale')
    BY <1>1 DEF store, AtomsInv
  <1>2. ASSUME \/ Open(c) \/ StartSync(c) \/ StartRebuild(c)
               \/ \E found \in SUBSET Docs : StartAnalysis(c, found)
               \/ \E d \in Docs : Examine(c, d)
               \/ Report(c)
        PROVE  Atomed(db', stale') /\ Atomed(draft', stale')
    BY <1>1, <1>2 DEF Open, StartSync, StartRebuild, StartAnalysis, Examine, Report
  <1>3. ASSUME FetchFails(c) \/ GiveUp(c) \/ EndExtract(c) \/ Stop(c)
        PROVE  Atomed(db', stale') /\ Atomed(draft', stale')
    <2>1. (Rollback(c) \/ UNCHANGED store) /\ stale' = stale
      BY <1>3 DEF FetchFails, GiveUp, EndExtract, Stop, Fail, Close, store
    <2>. QED BY <1>1, <2>1, RollbackAtomed
  <1>4. CASE OtherTool(c)
    <2>1. stale' = stale /\ Write(c, View(c))
      BY <1>4 DEF OtherTool
    <2>. QED BY <2>1, ViewAtomed, WriteAtomed
  <1>5. CASE StartExtract(c)
    <2>1. Atomed([db EXCEPT !.edges = {}], stale)
      BY EdgesAtomed DEF AtomsInv, TypeOK, StoreOK
    <2>. QED BY <1>1, <1>5, <2>1 DEF StartExtract, ResetEdges, AtomsInv
  <1>6. ASSUME NEW p \in Published, IngestUrn(c, p[1], p[2])
        PROVE  Atomed(db', stale') /\ Atomed(draft', stale')
    <2>1. p[1] \in Docs /\ p[2] \in Texts
      OBVIOUS
    <2>2. Write(c, Stored(c, p[1], p[2])) /\ stale' = stale
      BY <1>6 DEF IngestUrn
    <2>. QED BY <2>1, <2>2, StoredAtomed, WriteAtomed
  <1>7. ASSUME NEW p \in Published, NEW edges \in SUBSET (Repeals \cap (Docs \X Docs)),
               IngestJson(c, p[1], p[2], edges)
        PROVE  Atomed(db', stale') /\ Atomed(draft', stale')
    <2>. DEFINE base == [Stored(c, p[1], p[2]) EXCEPT !.edges = @ \cup edges]
    <2>1. p[1] \in Docs /\ p[2] \in Texts
      OBVIOUS
    <2>2. /\ Stored(c, p[1], p[2]) \in Stores
          /\ Atomed(Stored(c, p[1], p[2]), stale)
      BY <2>1, StoredType, StoredAtomed DEF AtomsInv, TypeOK
    <2>3. Atomed(base, stale)
      BY <2>2, EdgesAtomed
    <2>4. Write(c, base) /\ stale' = stale
      BY <1>7 DEF IngestJson
    <2>. HIDE DEF base
    <2>. QED BY <2>3, <2>4, WriteAtomed
  <1>8. ASSUME NEW t \in Texts, FetchArticle(c, t)
        PROVE  Atomed(db', stale') /\ Atomed(draft', stale')
    <2>. DEFINE e == Bundle[next[c]]
    <2>1. e \in Docs /\ Write(c, Stored(c, e, t)) /\ stale' = stale
      BY <1>8 DEF FetchArticle
    <2>. HIDE DEF e
    <2>. QED BY <2>1, StoredAtomed, WriteAtomed
  <1>9. CASE Rebuild(c)
    <2>. DEFINE base == View(c)
    <2>. DEFINE texts == read[c]
    <2>1. /\ stale' = (stale \/ moved[c])
          /\ Write(c, Rebuilt(base, texts))
          /\ pc[c] = "rebuild"
      BY <1>9 DEF Rebuild
    <2>2. texts = base.text \/ stale'
      BY <2>1 DEF AtomsInv, Unmoved
    <2>3. /\ base \in Stores /\ texts \in [Docs -> Texts \cup {None}]
          /\ Atomed(base, stale)
      BY ViewType, ViewAtomed DEF AtomsInv, TypeOK, SessionOK
    <2>. HIDE DEF base, texts
    <2>4. PICK new : new = stale'
      OBVIOUS
    <2>5. Atomed(Rebuilt(base, texts), new)
      BY <2>1, <2>2, <2>3, <2>4, RebuiltAtomed
    <2>. QED BY <2>1, <2>4, <2>5, WriteAtomed
  <1>10. CASE Commit(c)
    <2>1. /\ db'.text = draft.text /\ db'.atoms = draft.atoms /\ draft' = Empty
          /\ stale' = stale
      BY <1>10 DEF Commit, Publish, AtomsInv, TypeOK, StoreOK, Stores
    <2>. QED BY <2>1, EmptyAtomed DEF AtomsInv, Atomed
  <1>11. ASSUME NEW d \in Docs, NEW targets \in SUBSET (Docs \cup {Elsewhere}),
                ExtractDoc(c, d, targets)
         PROVE  Atomed(db', stale') /\ Atomed(draft', stale')
    <2>. DEFINE base == [View(c) EXCEPT !.edges = @ \cup ({d} \X targets)]
    <2>1. Atomed(base, stale)
      BY ViewType, ViewAtomed, EdgesAtomed DEF AtomsInv, TypeOK
    <2>2. Write(c, base) /\ stale' = stale
      BY <1>11 DEF ExtractDoc
    <2>. HIDE DEF base
    <2>. QED BY <2>1, <2>2, WriteAtomed
  <1>. QED
    BY <1>2, <1>3, <1>4, <1>5, <1>6, <1>7, <1>8, <1>9, <1>10, <1>11 DEF Start, Step

\* What a step leaves of what another session has read.
LEMMA UnmovedOthers ==
  ASSUME AtomsInv, NEW c \in Sessions, NEW o \in Sessions, o # c,
         UNCHANGED <<pc[o], read[o]>>, moved[o] => moved'[o],
         View(o).text' = View(o).text \/ moved'[o] \/ pc[o] # "rebuild"
  PROVE  pc'[o] = "rebuild" /\ ~moved'[o] => read'[o] = View(o).text'
  BY DEF AtomsInv, Unmoved

LEMMA ViewStays ==
  ASSUME TypeOK, NEW c \in Sessions, NEW o \in Sessions, o # c,
         Start(c) \/ Step(c) \/ Stop(c)
  PROVE  View(o).text' = View(o).text \/ moved'[o] \/ pc[o] # "rebuild"
  <1>. USE DEF TypeOK, StoreOK, View, store
  <1>1. ASSUME UNCHANGED store
        PROVE  View(o).text' = View(o).text
    BY <1>1
  <1>2. ASSUME NEW base, Write(c, base)
        PROVE  View(o).text' = View(o).text
    BY <1>2 DEF Write, MayWrite
  <1>3. ASSUME Rollback(c)
        PROVE  View(o).text' = View(o).text
    BY <1>3 DEF Rollback
  <1>4. ASSUME \/ Open(c) \/ StartSync(c) \/ StartRebuild(c)
               \/ \E found \in SUBSET Docs : StartAnalysis(c, found)
               \/ \E d \in Docs : Examine(c, d)
               \/ Report(c)
        PROVE  View(o).text' = View(o).text
    BY <1>1, <1>4 DEF Open, StartSync, StartRebuild, StartAnalysis, Examine, Report
  <1>5. ASSUME FetchFails(c) \/ GiveUp(c) \/ EndExtract(c) \/ Stop(c)
        PROVE  View(o).text' = View(o).text
    <2>1. Rollback(c) \/ UNCHANGED store
      BY <1>5 DEF FetchFails, GiveUp, EndExtract, Stop, Fail, Close
    <2>. QED BY <1>1, <1>3, <2>1
  <1>6. ASSUME \/ OtherTool(c)
               \/ \E p \in Published :
                    \/ IngestUrn(c, p[1], p[2])
                    \/ \E edges \in SUBSET (Repeals \cap (Docs \X Docs)) :
                         IngestJson(c, p[1], p[2], edges)
               \/ \E t \in Texts : FetchArticle(c, t)
               \/ Rebuild(c)
               \/ \E d \in Docs : \E targets \in SUBSET (Docs \cup {Elsewhere}) :
                    ExtractDoc(c, d, targets)
        PROVE  View(o).text' = View(o).text
    <2>1. \E base : Write(c, base)
      BY <1>6 DEF OtherTool, IngestUrn, IngestJson, FetchArticle, Rebuild, ExtractDoc
    <2>. QED BY <1>2, <2>1
  <1>7. ASSUME StartExtract(c)
        PROVE  View(o).text' = View(o).text
    BY <1>1, <1>7 DEF StartExtract, ResetEdges, Stores
  <1>8. ASSUME Commit(c), pc[o] = "rebuild"
        PROVE  moved'[o]
    BY <1>8 DEF Commit, Publish
  <1>. QED BY <1>4, <1>5, <1>6, <1>7, <1>8 DEF Start, Step

\* What a step leaves to the others of what they know.
LEMMA KnowledgeStays ==
  ASSUME TypeOK, NEW c \in Sessions, NEW o \in Sessions, o # c,
         Start(c) \/ Step(c) \/ Stop(c)
  PROVE  UNCHANGED <<pc[o], read[o]>> /\ (moved[o] => moved'[o])
  <1>. USE DEF TypeOK, SessionOK, Goto, Leave, analysis
  <1>1. ASSUME \/ Open(c) \/ StartSync(c) \/ StartRebuild(c) \/ OtherTool(c)
               \/ \E found \in SUBSET Docs : StartAnalysis(c, found)
               \/ \E d \in Docs : Examine(c, d)
               \/ Report(c)
        PROVE  UNCHANGED <<pc[o], read[o]>> /\ (moved[o] => moved'[o])
    BY <1>1 DEF Open, StartSync, StartRebuild, OtherTool, StartAnalysis, Examine, Report
  <1>2. ASSUME FetchFails(c) \/ GiveUp(c) \/ EndExtract(c) \/ Stop(c)
        PROVE  UNCHANGED <<pc[o], read[o]>> /\ (moved[o] => moved'[o])
    <2>1. Close(c) \/ Fail(c)
      BY <1>2 DEF FetchFails, GiveUp, EndExtract, Stop
    <2>. QED BY <2>1 DEF Close, Fail
  <1>3. ASSUME NEW p \in Published, IngestUrn(c, p[1], p[2])
        PROVE  UNCHANGED <<pc[o], read[o]>> /\ (moved[o] => moved'[o])
    BY <1>3 DEF IngestUrn
  <1>4. ASSUME NEW p \in Published, NEW edges \in SUBSET (Repeals \cap (Docs \X Docs)),
               IngestJson(c, p[1], p[2], edges)
        PROVE  UNCHANGED <<pc[o], read[o]>> /\ (moved[o] => moved'[o])
    BY <1>4 DEF IngestJson
  <1>5. ASSUME NEW t \in Texts, FetchArticle(c, t)
        PROVE  UNCHANGED <<pc[o], read[o]>> /\ (moved[o] => moved'[o])
    BY <1>5 DEF FetchArticle
  <1>6. ASSUME Rebuild(c) \/ Commit(c)
        PROVE  UNCHANGED <<pc[o], read[o]>> /\ (moved[o] => moved'[o])
    BY <1>6 DEF Rebuild, Commit, Publish
  <1>7. ASSUME StartExtract(c)
        PROVE  UNCHANGED <<pc[o], read[o]>> /\ (moved[o] => moved'[o])
    BY <1>7 DEF StartExtract, ResetEdges
  <1>8. ASSUME NEW d \in Docs, NEW targets \in SUBSET (Docs \cup {Elsewhere}),
               ExtractDoc(c, d, targets)
        PROVE  UNCHANGED <<pc[o], read[o]>> /\ (moved[o] => moved'[o])
    BY <1>8 DEF ExtractDoc
  <1>. QED
    BY <1>1, <1>2, <1>3, <1>4, <1>5, <1>6, <1>7, <1>8 DEF Start, Step

\* A session that is to rebuild has just read, or has left it alone.
LEMMA UnmovedOwn ==
  ASSUME TypeOK, NEW c \in Sessions, Start(c) \/ Step(c) \/ Stop(c), pc'[c] = "rebuild"
  PROVE  read'[c] = View(c).text'
  <1>. USE DEF TypeOK, SessionOK, Goto
  <1>1. CASE StartRebuild(c)
    BY <1>1 DEF StartRebuild, View, store
  <1>2. ASSUME \/ Open(c) \/ StartSync(c) \/ OtherTool(c) \/ StartExtract(c)
               \/ \E p \in Published :
                    \/ IngestUrn(c, p[1], p[2])
                    \/ \E edges \in SUBSET (Repeals \cap (Docs \X Docs)) :
                         IngestJson(c, p[1], p[2], edges)
               \/ \E found \in SUBSET Docs : StartAnalysis(c, found)
               \/ Rebuild(c) \/ Commit(c) \/ Report(c)
        PROVE  pc'[c] # "rebuild"
    BY <1>2 DEF Open, StartSync, OtherTool, StartExtract, IngestUrn, IngestJson,
                StartAnalysis, Rebuild, Commit, Report
  <1>3. ASSUME FetchFails(c) \/ GiveUp(c) \/ EndExtract(c) \/ Stop(c)
        PROVE  pc'[c] # "rebuild"
    BY <1>3 DEF FetchFails, GiveUp, EndExtract, Stop, Fail, Close
  <1>4. ASSUME \/ \E t \in Texts : FetchArticle(c, t)
               \/ \E d \in Docs : \E targets \in SUBSET (Docs \cup {Elsewhere}) :
                    ExtractDoc(c, d, targets)
               \/ \E d \in Docs : Examine(c, d)
        PROVE  pc'[c] # "rebuild"
    BY <1>4 DEF FetchArticle, ExtractDoc, Examine
  <1>. QED BY <1>1, <1>2, <1>3, <1>4 DEF Start, Step

LEMMA UnmovedStep ==
  ASSUME AtomsInv, NEW c \in Sessions, Start(c) \/ Step(c) \/ Stop(c)
  PROVE  Unmoved'
  <1>1. ASSUME NEW o \in Sessions, o # c
        PROVE  pc'[o] = "rebuild" /\ ~moved'[o] => read'[o] = View(o).text'
    BY <1>1, KnowledgeStays, ViewStays, UnmovedOthers DEF AtomsInv
  <1>2. pc'[c] = "rebuild" => read'[c] = View(c).text'
    BY UnmovedOwn DEF AtomsInv
  <1>. QED BY <1>1, <1>2 DEF Unmoved

\* Whatever ingestions, rebuilds of the atoms and failures overlap, what the text
\* of a document says has its atom, under a version that says it: the version of
\* now, unless a rebuild has compiled a text that was replaced meanwhile.
THEOREM AtomsKept == Spec => []AtomsOfText
  <1>1. Init => AtomsInv
    BY InitType, EmptyAtomed DEF AtomsInv, Init, Unmoved
  <1>2. AtomsInv /\ [Next]_vars => AtomsInv'
    <2>1. ASSUME AtomsInv, UNCHANGED vars
          PROVE  Atomed(db', stale') /\ Atomed(draft', stale') /\ Unmoved'
      BY <2>1 DEF AtomsInv, Unmoved, View, vars
    <2>2. ASSUME AtomsInv, NEW c \in Sessions, Start(c) \/ Step(c) \/ Stop(c)
          PROVE  Atomed(db', stale') /\ Atomed(draft', stale') /\ Unmoved'
      BY <2>2, AtomsStep, UnmovedStep
    <2>. QED BY <2>1, <2>2, NextType DEF AtomsInv, Next
  <1>3. AtomsInv => AtomsOfText
    <2>. SUFFICES ASSUME AtomsInv, NEW d \in Docs, db.text[d] # None, NEW a \in Says[db.text[d]]
                  PROVE  /\ db.atoms[<<d, a>>] # None /\ a \in Says[db.atoms[<<d, a>>]]
                         /\ (db.atoms[<<d, a>>] = db.text[d] \/ stale)
      BY DEF AtomsOfText, OnRecord
    <2>1. a \in Atoms
      BY SaysAssumption DEF AtomsInv, TypeOK, StoreOK, Stores
    <2>. QED BY <2>1 DEF AtomsInv, Atomed
  <1>. QED BY <1>1, <1>2, <1>3, PTL DEF Spec

-----------------------------------------------------------------------------
(* The report of the citator.                                              *)

Repealed(c) == {d \in evidence[c] \ todo[c] : Abrogated(db, d)}

\* What an analysis has found so far, as long as nobody commits.
Analysed(c) ==
  /\ pc[c] \notin {"examine", "report"} => blocked[c] = {}
  /\ pc[c] \in {"examine", "report"} /\ ~moved[c] =>
       todo[c] \subseteq evidence[c] /\ blocked[c] = Repealed(c)
  /\ pc[c] = "report" => todo[c] = {}
  /\ pc[c] = "report" /\ ~moved[c] /\ blocked[c] # {} => populated[c]

ReportInv == TypeOK /\ \A c \in Sessions : Analysed(c)

\* A step leaves a session alone, or marks it if it commits.
Spared(o) ==
  /\ UNCHANGED <<pc[o], todo[o], evidence[o], blocked[o], populated[o]>>
  /\ db' = db \/ moved'[o] \/ pc[o] \notin {"examine", "report"}
  /\ moved[o] => moved'[o]

LEMMA Untouched ==
  ASSUME ReportInv, NEW o \in Sessions, Spared(o)
  PROVE  Analysed(o)'
  BY DEF ReportInv, Analysed, Repealed, Spared

LEMMA ClosedAnalysis ==
  ASSUME ReportInv, NEW c \in Sessions, Leave(c), pc'[c] \notin {"examine", "report"}
  PROVE  Analysed(c)'
  BY DEF ReportInv, TypeOK, SessionOK, Analysed, Leave

\* A step of a session that is no step of its analysis.
LEMMA OtherStep ==
  ASSUME ReportInv, NEW c \in Sessions,
         pc[c] \notin {"examine", "report"}, pc'[c] \notin {"examine", "report"},
         UNCHANGED <<blocked>>
  PROVE  Analysed(c)'
  BY DEF ReportInv, Analysed

\* What the steps of one session leave to the others.
LEMMA OthersStay ==
  ASSUME ReportInv, NEW c \in Sessions, Start(c) \/ Step(c) \/ Stop(c),
         NEW o \in Sessions, o # c
  PROVE  Spared(o)
  <1>. USE DEF ReportInv, TypeOK, SessionOK, Goto, Leave, analysis, store, Spared
  <1>1. ASSUME \/ Open(c) \/ StartSync(c) \/ StartRebuild(c) \/ OtherTool(c)
               \/ \E found \in SUBSET Docs : StartAnalysis(c, found)
               \/ \E d \in Docs : Examine(c, d)
               \/ Report(c)
        PROVE  Spared(o)
    BY <1>1 DEF Open, StartSync, StartRebuild, OtherTool, Write, StartAnalysis, Examine, Report
  <1>2. ASSUME FetchFails(c) \/ GiveUp(c) \/ EndExtract(c) \/ Stop(c)
        PROVE  Spared(o)
    <2>1. Close(c) \/ Fail(c)
      BY <1>2 DEF FetchFails, GiveUp, EndExtract, Stop
    <2>. QED BY <2>1 DEF Close, Fail, Rollback
  <1>3. ASSUME StartExtract(c) \/ Commit(c)
        PROVE  Spared(o)
    BY <1>3 DEF StartExtract, ResetEdges, Commit, Publish
  <1>4. ASSUME \/ \E p \in Published :
                    \/ IngestUrn(c, p[1], p[2])
                    \/ \E edges \in SUBSET (Repeals \cap (Docs \X Docs)) :
                         IngestJson(c, p[1], p[2], edges)
               \/ \E t \in Texts : FetchArticle(c, t)
               \/ Rebuild(c)
               \/ \E d \in Docs : \E targets \in SUBSET (Docs \cup {Elsewhere}) :
                    ExtractDoc(c, d, targets)
        PROVE  Spared(o)
    BY <1>4 DEF IngestUrn, IngestJson, FetchArticle, Rebuild, ExtractDoc, Write
  <1>. HIDE DEF Spared
  <1>. QED BY <1>1, <1>2, <1>3, <1>4 DEF Start, Step

LEMMA OwnStep ==
  ASSUME ReportInv, NEW c \in Sessions, Start(c) \/ Step(c) \/ Stop(c)
  PROVE  Analysed(c)'
  <1>. USE DEF ReportInv, TypeOK, SessionOK, Goto
  <1>1. ASSUME \/ Open(c) \/ StartSync(c) \/ StartRebuild(c) \/ OtherTool(c)
               \/ StartExtract(c) \/ Rebuild(c) \/ Commit(c)
               \/ \E p \in Published :
                    \/ IngestUrn(c, p[1], p[2])
                    \/ \E edges \in SUBSET (Repeals \cap (Docs \X Docs)) :
                         IngestJson(c, p[1], p[2], edges)
               \/ \E t \in Texts : FetchArticle(c, t)
               \/ \E d \in Docs : \E targets \in SUBSET (Docs \cup {Elsewhere}) :
                    ExtractDoc(c, d, targets)
        PROVE  /\ pc[c] \notin {"examine", "report"} /\ pc'[c] \notin {"examine", "report"}
               /\ UNCHANGED blocked
    BY <1>1 DEF Open, StartSync, StartRebuild, OtherTool, StartExtract, Rebuild, Commit,
                IngestUrn, IngestJson, FetchArticle, ExtractDoc, analysis
  <1>2. ASSUME FetchFails(c) \/ GiveUp(c) \/ EndExtract(c) \/ Stop(c)
        PROVE  Leave(c) /\ pc'[c] \notin {"examine", "report"}
    <2>1. Close(c) \/ Fail(c)
      BY <1>2 DEF FetchFails, GiveUp, EndExtract, Stop
    <2>. QED BY <2>1 DEF Close, Fail
  <1>3. ASSUME NEW found \in SUBSET Docs, StartAnalysis(c, found)
        PROVE  Analysed(c)'
    BY <1>3 DEF StartAnalysis, Analysed, Repealed
  <1>4. ASSUME NEW d \in Docs, Examine(c, d)
        PROVE  Analysed(c)'
    <2>1. /\ pc[c] = "examine" /\ pc' = pc /\ d \in todo[c] /\ db' = db
          /\ todo'[c] = todo[c] \ {d} /\ evidence' = evidence /\ moved' = moved
          /\ blocked'[c] = IF Abrogated(db, d) THEN blocked[c] \cup {d} ELSE blocked[c]
      BY <1>4 DEF Examine, Found, store
    <2>2. ASSUME ~moved[c]
          PROVE  /\ todo'[c] \subseteq evidence'[c]
                 /\ blocked'[c] = Repealed(c)'
      <3>1. todo[c] \subseteq evidence[c] /\ blocked[c] = Repealed(c)
        BY <2>1, <2>2 DEF Analysed
      <3>2. Repealed(c)' = {e \in evidence[c] \ (todo[c] \ {d}) : Abrogated(db, e)}
        BY <2>1 DEF Repealed, Abrogated
      <3>. QED BY <2>1, <3>1, <3>2 DEF Repealed
    <2>. QED BY <2>1, <2>2 DEF Analysed
  <1>5. CASE Report(c)
    <2>1. Analysed(c) /\ pc[c] = "examine" /\ todo[c] = {}
      BY <1>5 DEF Report
    <2>2. /\ pc'[c] = "report" /\ UNCHANGED <<todo, evidence, blocked, moved, db>>
          /\ populated'[c] = (db.edges # {})
      BY <1>5 DEF Report, store
    <2>3. Repealed(c)' = Repealed(c)
      BY <2>2 DEF Repealed, Abrogated
    <2>4. Repealed(c) # {} => db.edges # {}
      BY DEF Repealed, Abrogated
    <2>. QED BY <2>1, <2>2, <2>3, <2>4 DEF Analysed
  <1>. QED
    BY <1>1, <1>2, <1>3, <1>4, <1>5, OtherStep, ClosedAnalysis DEF Start, Step

LEMMA ReportStep == ReportInv /\ [Next]_vars => ReportInv'
  <1>1. ASSUME ReportInv, UNCHANGED vars
        PROVE  \A c \in Sessions : Analysed(c)'
    BY <1>1 DEF ReportInv, Analysed, Repealed, Abrogated, OnRecord, vars
  <1>2. ASSUME ReportInv, NEW c \in Sessions, Start(c) \/ Step(c) \/ Stop(c), NEW o \in Sessions
        PROVE  Analysed(o)'
    <2>1. CASE o = c
      BY <1>2, <2>1, OwnStep
    <2>2. CASE o # c
      BY <1>2, <2>2, OthersStay, Untouched
    <2>. QED BY <2>1, <2>2
  <1>. QED BY <1>1, <1>2, NextType DEF ReportInv, Next

\* For any corpus, a report made while nobody commits is the repeals of the
\* corpus among the evidence, and says that the graph is populated if it has any.
THEOREM ReportIsOfCorpus == Spec => []ReportHolds
  <1>1. Init => ReportInv
    BY InitType DEF Init, ReportInv, Analysed
  <1>2. ReportInv => ReportHolds
    BY DEF ReportInv, Analysed, Repealed, ReportHolds
  <1>. QED BY <1>1, <1>2, ReportStep, PTL DEF Spec
=============================================================================
