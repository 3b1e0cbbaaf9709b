---- MODULE CausalGraph ----
(* Directed graphs of phase 3: ancestry, d-separation, adjustment sets and   *)
(* topological depths, from d_separation.go, backdoor_engine.go and          *)
(* causal_enricher.go. A graph is its set of edges <<from, to>>; the order   *)
(* of the slice graph.Edges is that of a Go map (pcmci.go:121), so nothing   *)
(* here depends on it.                                                       *)
EXTENDS Naturals, FiniteSets, FiniteSetsExt, Sequences, SequencesExt

CONSTANTS Nodes,   \* the services in the dataset
          NoNode   \* the empty node name

ASSUME NodesAssumption == NoNode \notin Nodes /\ IsFiniteSet(Nodes)

Pairs == {e \in Nodes \X Nodes : e[1] # e[2]}

Parents(E, n) == {e[1] : e \in {d \in E : d[2] = n}}
Children(E, n) == {e[2] : e \in {d \in E : d[1] = n}}
EdgesInto(E, S) == {e \in E : e[2] \in S}

\* A set with everything the edges lead to from it; as many rounds as there
\* are nodes left to find are enough.
Onward(E, found) == found \union {e[2] : e \in {d \in E : d[1] \in found}}
Closure(E, S) ==
    LET grow[k \in 0..Cardinality(Nodes) + 1] == IF k = 0 THEN S ELSE Onward(E, grow[k - 1])
    IN  grow[Cardinality(Nodes) + 1]

Turned(E) == {<<e[2], e[1]>> : e \in E}

(* allAncestors, descendants: what a walk against or along the edges marks.  *)
(* A node is its own ancestor only when it lies on a cycle.                  *)
AncestorsOf(E, S) == Closure(Turned(E), UNION {Parents(E, n) : n \in S})
Ancestors(E, n) == AncestorsOf(E, {n})
Descendants(E, n) == Closure(E, Children(E, n))
Acyclic(E) == \A n \in Nodes : n \notin Ancestors(E, n)
Reaches(E, m, n) == m = n \/ m \in Ancestors(E, n)

\* Mutant: what is below a collider does not open it.
ColliderItselfOnly(E, prev, at, next, Z) ==
    \/ prev = NoNode
    \/ IF <<prev, at>> \in E /\ <<next, at>> \in E THEN at \in Z ELSE at \notin Z

(* isActiveTriplet: prev -> at <- next is open when at, or something below   *)
(* it, is conditioned on; every other triplet when at is not.                *)
IsActiveTriplet(E, prev, at, next, Z) ==
    \/ prev = NoNode
    \/ IF <<prev, at>> \in E /\ <<next, at>> \in E
       THEN at \in Z \union AncestorsOf(E, Z)
       ELSE at \notin Z

(* IsDSeparated: no walk of active triplets leads from X to Y. A state of    *)
(* the walk is a node and the node it was entered from (pathNode), and the   *)
(* walk ends in Y.                                                           *)
Walk(E, Y, Z, s) ==
    IF s[1] = Y THEN {}
    ELSE {<<next, s[1]>> : next \in {n \in Parents(E, s[1]) \union Children(E, s[1]) :
              n # s[2] /\ IsActiveTriplet(E, s[2], s[1], n, Z)}}

IsDSeparated(E, X, Y, Z) ==
    LET grow[k \in 0..Cardinality(E) * 2 + 1] ==
            IF k = 0 THEN {<<X, NoNode>>}
            ELSE LET found == grow[k - 1] IN found \union UNION {Walk(E, Y, Z, s) : s \in found}
    IN  \A s \in grow[Cardinality(E) * 2 + 1] : s[1] # Y

\* Mutant: the edges are read the wrong way round.
CandidatesBelow(E, X, Y) == Children(E, X) \ {Y}

(* FindMinimalAdjustmentSet: the parents of X that are neither below X nor   *)
(* Y. They are shrunk only when they separate X from Y, edge X -> Y and all; *)
(* then each is dropped if the rest still separates, in the order of the     *)
(* edges, which may be any.                                                  *)
Candidates(E, X, Y) == Parents(E, X) \ (Descendants(E, X) \union {Y})

Shrunk(E, X, Y, order) ==
    LET left[k \in 0..Len(order)] ==
            IF k = 0 THEN Candidates(E, X, Y)
            ELSE IF IsDSeparated(E, X, Y, left[k - 1] \ {order[k]}) THEN left[k - 1] \ {order[k]}
                 ELSE left[k - 1]
    IN  left[Len(order)]

FindMinimalAdjustmentSets(E, X, Y) ==
    IF ~IsDSeparated(E, X, Y, Candidates(E, X, Y)) THEN {Candidates(E, X, Y)}
    ELSE {Shrunk(E, X, Y, order) : order \in SetToSeqs(Candidates(E, X, Y))}

(* findBackdoorSet: what ComputeBackdoorEffect conditions on.                *)
FindBackdoorSet(E, X, Y) == Parents(E, X) \ {Y}

(* The nodes Kahn's algorithm takes out: those no cycle is above.            *)
Sorted(E) == {n \in Nodes : \A m \in Ancestors(E, n) \union {n} : m \notin Ancestors(E, m)}

\* Mutant: the in-degree that Kahn's algorithm counts down is taken for the depth.
DepthsByInDegree(E) == [n \in Nodes |-> Cardinality(Parents(E, n))]

(* AssignTimestampsFromTopologicalOrder: one more than the deepest parent    *)
(* that is taken out; a node on or below a cycle keeps the depth last pushed *)
(* to it, or 0.                                                              *)
Depths(E) ==
    LET sorted == Sorted(E)
        depth[n \in Nodes] ==
            LET above == Parents(E, n) \intersect sorted
            IN  IF above = {} THEN 0 ELSE 1 + Max({depth[p] : p \in above})
    IN  depth
====
