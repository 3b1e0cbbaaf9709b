---- MODULE CausalHypotheses ----
(* From the graph to the causes: causal_builder.go, the filter and the       *)
(* reverse hypothesis of pipeline.go, causal_inference.go and                *)
(* queue_propagator.go. A hypothesis is the set of edges of its subgraph.    *)
EXTENDS CausalDiscovery

CONSTANT MaxCauses   \* how many edges into the target a hypothesis starts with

ASSUME MaxCausesAssumption == MaxCauses \in Nat \ {0}

(* greedySelectEffectAware: the best edges into the target by a score that   *)
(* also holds the lagged correlation, so any of them may be the best.        *)
Selected(E, target) ==
    LET into == EdgesInto(E, {target})
    IN  IF Cardinality(into) <= MaxCauses THEN {into} ELSE kSubset(MaxCauses, into)

\* Mutant: the chain also grows along the edges that leave its nodes.
ExpandedBothWays(E, selected) ==
    LET sources == {e[1] : e \in selected}
        above == sources \union AncestorsOf(E, sources)
    IN  selected \union {e \in E : e[1] \in above \/ e[2] \in above}

(* expandCausalChainRecursive: and every edge above their sources.           *)
Expanded(E, selected) ==
    LET sources == {e[1] : e \in selected}
    IN  selected \union EdgesInto(E, sources \union AncestorsOf(E, sources))

(* resolveConflicts: of the edges that leave a node the first is kept, or    *)
(* one that no other exceeds in the product of probability and strength. A   *)
(* product that is no number neither exceeds another nor is exceeded.        *)
Score(edge) == edge.prob * edge.strength
Beats(d, e) == d.strength # NaN /\ e.strength # NaN /\ Score(d) > Score(e)
OneEdgePerSource(F) ==
    {H \in SUBSET F : /\ \A e \in F : \E h \in H : h[1] = e[1]
                     /\ \A g, h \in H : g[1] = h[1] => g = h}
Resolved(graph, F) ==
    OneEdgePerSource({e \in F : \A d \in F : d[1] = e[1] => ~Beats(graph[d], graph[e])})

\* The subgraphs that BuildCausalHypotheses can build for a target.
Hypotheses(graph, strong, target) ==
    UNION {Resolved(graph, Expanded(DOMAIN graph, selected)) : selected \in Selected(strong, target)}

\* buildSubgraph: its nodes are the target and the sources of its edges.
SubgraphNodes(H, target) == {target} \union {e[1] : e \in H}

(* applyDSeparationFilter keeps a hypothesis with an edge into its target    *)
(* that is an active path, and everything when none has one.                 *)
HasActivePath(H, target) ==
    \/ H = {}
    \/ \E e \in H : e[2] = target /\ ~IsDSeparated(H, e[1], target, {})

OtherTargets(strong, target) == {e[2] : e \in strong} \ {target}
OtherMayBeActive(graph, strong, target) ==
    \E t \in OtherTargets(strong, target) : \E H \in Hypotheses(graph, strong, t) : HasActivePath(H, t)
OthersMayBeInactive(graph, strong, target) ==
    \A t \in OtherTargets(strong, target) : \E H \in Hypotheses(graph, strong, t) : ~HasActivePath(H, t)

(* buildReverseHypothesis: every edge that leaves the target, turned.        *)
Reversed(E, target) == Turned({e \in E : e[1] = target})

(* extractRootCausesDistance: the sources that reach the target in the       *)
(* subgraph. Idle ones and saturated ones whose series fail the              *)
(* intervention test are left out, and any of the rest may come first.       *)
Reaching(H, target) == Ancestors(H, target) \ {target}

(* FindRootCauseByPropagation: walks up from the target along edges that do  *)
(* not go forward in time, and takes the nodes without any incoming edge.    *)
Traced(E, target) ==
    LET depth == Depths(E)
    IN  Closure(Turned({e \in E : depth[e[1]] <= depth[e[2]]}), {target})
PhysicsRoots(E, target) == {n \in Traced(E, target) : Parents(E, n) = {}}

(* PropagateQueueLoad: a chain is physically valid when it got to its end.   *)
IsPhysicallyValid(E, root, target) == Reaches(E, root, target)

(* findLocalPhysicsRoot: the target itself under pressure, else the node     *)
(* under the most pressure, if any is. Only nodes of the graph have a state. *)
LocalRoots(hot, target) == IF target \in hot THEN {target} ELSE hot
====
