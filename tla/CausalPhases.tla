---- MODULE CausalPhases ----
(* Phases 3 to 5 of one analysis (ExecuteFullPipelineFromStore from the      *)
(* discovery of the graph on): one action per call that decides something,   *)
(* with every early return to the queue-physics fallback. What the numbers   *)
(* of a call decide is chosen by the action: which edges the tests let       *)
(* through, which effects vanish, which nodes are under pressure.            *)
EXTENDS CausalHypotheses, CausalExplanation

CONSTANTS Infra,      \* services in the dataset that are kept out of the graph
          MaxEdges,   \* bound on the edges discovered
          MaxTraced,  \* bound on those of them that only a trace shows
          MaxFlat,    \* bound on the services whose correlations are no numbers
          TraceAges   \* minutes since the traces were received

ASSUME PhasesAssumption ==
    /\ Infra \intersect (Nodes \union {NoNode}) = {}
    /\ {MaxEdges, MaxTraced, MaxFlat} \subseteq Nat /\ TraceAges \subseteq Nat

VARIABLES
    step,      \* the call that comes next
    graph,     \* discoveredGraph, then causalGraph: edge -> probability, strength
    target,    \* targetNodeID
    hyp,       \* the edges of the hypothesis for the target
    reverse,   \* that hypothesis is buildReverseHypothesis's
    first,     \* Phase3Result.Causes[0]
    physics,   \* PhysicsRootCauses, and which of them is first
    lead,
    causes,    \* Phase4Explanation.Causes
    fusion,    \* SafetyResult.Fusion
    chain,     \* Phase5CausalChain: its root, and its links at their places
    advised,   \* the node that Phase5WhatIf and Phase5SafestAction act on
    simulated, \* the nodes SimulateWhatIf evaluates
    gate       \* which of the three safety gates was evaluated

vars == <<step, graph, target, hyp, reverse, first, physics, lead, causes, fusion, chain, advised, simulated, gate>>
results == <<fusion, chain, advised, simulated>>

Edges == DOMAIN graph
NoFusion == [roots |-> {}, mediators |-> {}, rejected |-> {}]
NoLinks(root) == [root |-> root, links |-> <<>>]

Init ==
    /\ step = "discover" /\ graph = <<>> /\ target = NoNode
    /\ hyp = {} /\ reverse = FALSE /\ first = NoNode
    /\ physics = {} /\ lead = NoNode /\ causes = {}
    /\ fusion = NoFusion /\ chain = NoLinks(NoNode)
    /\ advised = NoNode /\ simulated = {} /\ gate = "none"

(* DiscoverGraph tests every ordered pair by itself, so nothing keeps a pair *)
(* from being an edge in both directions, nor a cycle from closing.          *)
Discover ==
    /\ step = "discover" /\ step' = "enrich"
    /\ \E k \in 0..MaxEdges : \E found \in kSubset(k, Pairs) :
       \E m \in 0..MaxFlat : \E flat \in kSubset(m, Nodes) :
       \E t \in 0..MaxTraced : \E traced \in kSubset(t, found) :
       \E age \in TraceAges :
           /\ \A e \in found \ traced : ~Undefined(e, flat)
           /\ graph' = Discovered(found \ traced, traced, age, flat)
    /\ UNCHANGED <<target, hyp, reverse, first, physics, lead, causes, results, gate>>

\* Every effect is weak or none is, which are the two extremes.
Enrich ==
    /\ step = "enrich" /\ step' = "intervene"
    /\ \E weak \in {{}, Edges} : graph' = Enriched(graph, weak)
    /\ UNCHANGED <<target, hyp, reverse, first, physics, lead, causes, results, gate>>

Intervene ==
    /\ step = "intervene" /\ step' = "manage"
    /\ \E valid \in {{}, Edges} : graph' = Intervened(graph, valid)
    /\ UNCHANGED <<target, hyp, reverse, first, physics, lead, causes, results, gate>>

Manage ==
    /\ step = "manage" /\ step' = "resolve"
    /\ \E n \in CloneCounts(graph) :
           \/ OriginalMayWin(n) /\ graph' = CopyBack(graph, graph)
           \/ CloneMayWin(n) /\ \E best \in Clones(graph) : graph' = CopyBack(graph, best)
    /\ UNCHANGED <<target, hyp, reverse, first, physics, lead, causes, results, gate>>

(* resolveTarget: the node asked for when it is in the dataset, else         *)
(* mostDownstreamNode. Both look at the services kept out of the graph too.  *)
OutDegree(n) == Cardinality({e \in Edges : e[1] = n})
MostDownstream == {n \in Nodes \union Infra : \A m \in Nodes \union Infra : OutDegree(n) <= OutDegree(m)}

Resolve ==
    /\ step = "resolve" /\ step' = "hypothesise"
    /\ \E hint \in Nodes \union Infra \union {NoNode} :
           target' \in IF hint = NoNode THEN MostDownstream ELSE {hint}
    /\ UNCHANGED <<graph, hyp, reverse, first, physics, lead, causes, results, gate>>

(* finishWithLocalPhysicsRoot, which makes up the results of phase 5 for its *)
(* root, and the empty gate when no node is under pressure: the end of every *)
(* early return of phase 3.                                                  *)
FinishEarly ==
    /\ step' = "done"
    /\ \E hot \in SUBSET Nodes :
           IF LocalRoots(hot, target) = {}
           THEN gate' = "empty" /\ UNCHANGED <<first, physics, lead, fusion, chain, advised>>
           ELSE \E root \in LocalRoots(hot, target) :
                    /\ gate' = "local" /\ first' = root /\ lead' = root /\ physics' = {root}
                    /\ fusion' = [NoFusion EXCEPT !.roots = {root}]
                    /\ chain' = NoLinks(root) /\ advised' = root
    /\ UNCHANGED <<graph, target, hyp, reverse, causes, simulated>>

(* Too few points, or no edge strong enough for any hypothesis: return.      *)
(* Otherwise the hypotheses are built and the graph is pruned.               *)
Hypothesise ==
    /\ step = "hypothesise"
    /\ \/ FinishEarly
       \/ /\ Strong(graph) # {} /\ step' = "filter"
          /\ hyp' \in Hypotheses(graph, Strong(graph), target)
          /\ graph' = Pruned(graph)
          /\ UNCHANGED <<target, reverse, first, physics, lead, causes, results, gate>>

(* applyDSeparationFilter keeps what has an active edge into its target, and *)
(* everything when nothing has, which depends on what the hypotheses of the  *)
(* other targets kept. With none left for the target, what it calls is taken *)
(* for its causes.                                                           *)
Kept == hyp # {} /\ (HasActivePath(hyp, target) \/ OthersMayBeInactive(graph, Strong(graph), target))
Dropped == hyp = {} \/ (~HasActivePath(hyp, target) /\ OtherMayBeActive(graph, Strong(graph), target))

Filter ==
    /\ step = "filter"
    /\ \/ /\ Kept /\ step' = "infer"
          /\ UNCHANGED <<graph, target, hyp, reverse, first, physics, lead, causes, results, gate>>
       \/ /\ Dropped /\ Reversed(Edges, target) # {} /\ step' = "infer"
          /\ hyp' = Reversed(Edges, target) /\ reverse' = TRUE
          /\ UNCHANGED <<graph, target, first, physics, lead, causes, results, gate>>
       \/ Dropped /\ Reversed(Edges, target) = {} /\ FinishEarly

(* RunCausalInference: any source that reaches the target may score best,    *)
(* and none may be left.                                                     *)
Infer ==
    /\ step = "infer"
    /\ \/ /\ first' \in Reaching(hyp, target) /\ step' = "trace"
          /\ UNCHANGED <<graph, target, hyp, reverse, physics, lead, causes, results, gate>>
       \/ FinishEarly

\* Mutant: the node under pressure comes before the roots of queue physics.
TraceHotFirst ==
    /\ step = "trace" /\ step' = "explain"
    /\ \E hot \in SUBSET Nodes :
           /\ physics' \in IF LocalRoots(hot, target) = {} THEN {PhysicsRoots(Edges, target)}
                           ELSE {{r} : r \in LocalRoots(hot, target)}
           /\ lead' \in IF physics' = {} THEN {NoNode} ELSE physics'
    /\ UNCHANGED <<graph, target, hyp, reverse, first, causes, results, gate>>

(* The roots of queue physics, any of which may score best; the node under   *)
(* most pressure when there is none.                                         *)
Trace ==
    /\ step = "trace" /\ step' = "explain"
    /\ \E hot \in SUBSET Nodes :
           /\ physics' \in IF PhysicsRoots(Edges, target) # {} THEN {PhysicsRoots(Edges, target)}
                           ELSE {{r} : r \in LocalRoots(hot, target)} \union {r \in {{}} : LocalRoots(hot, target) = {}}
           /\ lead' \in IF physics' = {} THEN {NoNode} ELSE physics'
    /\ UNCHANGED <<graph, target, hyp, reverse, first, causes, results, gate>>

\* GenerateExplanation, which may leave no cause: return.
Explain ==
    /\ step = "explain"
    /\ causes' \in SUBSET CauseSet(Edges, target)
    /\ IF causes' = {} THEN gate' = "empty" /\ step' = "done" ELSE step' = "act" /\ UNCHANGED gate
    /\ UNCHANGED <<graph, target, hyp, reverse, first, physics, lead, results>>

(* PrimaryRootCause, of a result with causes of phase 3.                     *)
PrimaryRootCauses ==
    IF lead # NoNode THEN {lead} ELSE IF causes # {} THEN causes ELSE {first} \ {NoNode}

(* The policy (see ServerProcess), the evidence chain and the simulation for *)
(* PrimaryRootCause, and the gate on the fused result.                       *)
Act ==
    /\ step = "act" /\ step' = "done"
    /\ \E primary \in PrimaryRootCauses :
           /\ \E path \in FindPathBFS(Edges, primary, target) :
                  \E skipped \in SUBSET (1..Len(path) - 1) : chain' = BuildCausalChain(path, skipped)
           /\ advised' = primary /\ simulated' = Evaluated(Edges, primary)
    /\ fusion' = FuseCausalResults(Edges, first, causes, target)
    /\ gate' = "full"
    /\ UNCHANGED <<graph, target, hyp, reverse, first, physics, lead, causes>>

Next ==
    \/ Discover \/ Enrich \/ Intervene \/ Manage \/ Resolve
    \/ Hypothesise \/ Filter \/ Infer \/ Trace \/ Explain \/ Act

Spec == Init /\ [][Next]_vars

-----------------------------------------------------------------------------
(* No edge with a strength is lost on the way to the hypotheses: all decays  *)
(* together leave even the weakest above the limits of filterStrongEdges     *)
(* (pipeline.go:535), and pruning drops nothing at all. No boost takes a     *)
(* probability past 1. The graph manager explores, but the graph it ranks    *)
(* first is the discovered one, so copying the probabilities of the best     *)
(* graph back changes nothing (pipeline.go:508).                             *)
GraphIsKept ==
    [][/\ step # "discover" => DOMAIN graph' = Edges
       /\ step = "manage" => graph' = graph
       /\ step = "hypothesise" => {e \in Edges : graph[e].strength # NaN} \subseteq Strong(graph)
       /\ \A e \in DOMAIN graph' : graph'[e].prob \in 0..1000]_vars

(* IsDSeparated is d-separation on every acyclic graph: X and Y are          *)
(* separated by Z exactly when Z cuts them apart in the moral graph of their *)
(* ancestors and those of Z.                                                 *)
Separated(D, X, Y, Z) ==
    LET kept == {X, Y} \union Z \union AncestorsOf(D, {X, Y} \union Z)
        married == {e \in kept \X kept : Children(D, e[1]) \intersect Children(D, e[2]) \intersect kept # {}}
        moral == D \union Turned(D) \union married
    IN  Y \notin Closure({e \in moral : e[1] \in kept \ Z /\ e[2] \in kept \ Z}, {X})

DSepIsTextbook ==
    step = "intervene" /\ Acyclic(Edges) =>
        \A X, Y \in Nodes : X # Y =>
            \A Z \in SUBSET (Nodes \ {X, Y}) : IsDSeparated(Edges, X, Y, Z) <=> Separated(Edges, X, Y, Z)

(* What the effect of an edge is adjusted for meets the backdoor criterion   *)
(* on every acyclic graph, in both implementations: nothing below its        *)
(* source, and source and target are separated once the edges out of the     *)
(* source are cut (d_separation.go:46, backdoor_engine.go:76).               *)
Cut(D, X) == {d \in D : d[1] # X}
MeetsBackdoor(D, X, Y, Z) == Z \intersect Descendants(D, X) = {} /\ Separated(Cut(D, X), X, Y, Z)

AdjustmentIsValid ==
    step = "intervene" /\ Acyclic(Edges) =>
        \A e \in Edges :
            \A Z \in FindMinimalAdjustmentSets(Edges, e[1], e[2]) \union {FindBackdoorSet(Edges, e[1], e[2])} :
                MeetsBackdoor(Edges, e[1], e[2], Z)

(* On an acyclic graph a target with strong edges into it is explained by a  *)
(* forward hypothesis, and although resolveConflicts keeps one edge for each source, *)
(* every source still leads to the target inside the subgraph                *)
(* (causal_builder.go:205).                                                  *)
HypothesisLeadsToTarget ==
    step = "infer" /\ Acyclic(Edges) =>
        /\ reverse = (Parents(Strong(graph), target) = {})
        /\ \A n \in SubgraphNodes(hyp, target) : Reaches(hyp, n, target)
        /\ \A e \in hyp : e[2] \in SubgraphNodes(hyp, target)

(* On an acyclic graph the timestamps made up from topological depths never  *)
(* hide a root: queue physics finds all parentless nodes above the target,   *)
(* and at least one, each with a chain to it (causal_enricher.go:116,        *)
(* queue_propagator.go:280).                                                 *)
PhysicsRootsAreOrigins ==
    step \in {"explain", "act"} /\ Acyclic(Edges) =>
        /\ physics = {n \in Nodes : Parents(Edges, n) = {} /\ Reaches(Edges, n, target)}
        /\ physics # {}
        /\ \A n \in physics : IsPhysicallyValid(Edges, n, target)

(* Fusion gives each cause, and the root of phase 3, exactly one role. What  *)
(* the gate then takes for granted holds: every cause has a path to the      *)
(* target, every root and mediator is a cause with an effect, and a target   *)
(* with parents is its own cause only on a cycle. When fusion rejects none   *)
(* of the ancestors of the target and all have an effect, its roots are      *)
(* those of queue physics, which it never looks at.                          *)
FusionAgreesWithPhysics ==
    gate = "full" =>
        /\ causes \union ({first} \ {NoNode}) = fusion.roots \union fusion.mediators \union fusion.rejected
        /\ fusion.roots \intersect fusion.mediators = {}
        /\ fusion.rejected \intersect (fusion.roots \union fusion.mediators) = {}
        /\ fusion.roots \union fusion.mediators \subseteq causes
        /\ \A c \in causes : Reaches(Edges, c, target)
        /\ target \in causes => Parents(Edges, target) = {} \/ target \in Ancestors(Edges, target)
        /\ Acyclic(Edges) /\ causes = Ancestors(Edges, target) /\ causes # {} /\ fusion.rejected = {}
               => fusion.roots = physics

(* On an acyclic graph the published chain starts at the primary root cause  *)
(* and runs along one path of the graph to the target: its links are edges   *)
(* in the order of that path, neighbours meet, and where links were skipped  *)
(* the graph still leads on. The fallback for a missing path is never shown  *)
(* (evidence/chain.go:140).                                                  *)
ChainIsReal ==
    gate = "full" /\ Acyclic(Edges) =>
        /\ chain.root = lead
        /\ \A i \in DOMAIN chain.links :
              /\ chain.links[i] \in Edges
              /\ Reaches(Edges, chain.root, chain.links[i][1])
              /\ Reaches(Edges, chain.links[i][2], target)
              /\ \A j \in DOMAIN chain.links : i < j =>
                    /\ Reaches(Edges, chain.links[i][2], chain.links[j][1])
                    /\ j = i + 1 => chain.links[i][2] = chain.links[j][1]

(* Once the graph is published (pipeline.go:618) the answer names a root,    *)
(* with an explanation or without one, and never for a service kept out of   *)
(* the graph. On an acyclic graph that root is an origin that leads to the   *)
(* target, whatever else is under pressure; the advice is about the root     *)
(* that is named, and the simulation behind it evaluates the target          *)
(* (pipeline.go:107, 754, whatif.go:229).                                    *)
GraphIsPublished == gate = "full" \/ (gate = "empty" /\ first # NoNode)

RootLeadsToTarget ==
    GraphIsPublished =>
        /\ target \notin Infra /\ PrimaryRootCauses # {}
        /\ Acyclic(Edges) => \A root \in PrimaryRootCauses :
               /\ Parents(Edges, root) = {} /\ Reaches(Edges, root, target)
               /\ gate = "full" => advised = root /\ target \in simulated
====
