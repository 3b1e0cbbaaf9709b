---- MODULE CausalDiscovery ----
(* The evidence of an edge in per mille, from its discovery to the pruning:  *)
(* pcmci.go, topology/discovery.go, causal_enricher.go,                      *)
(* intervention_engine.go, graph_manager.go and pipeline.go. An edge has a   *)
(* probability and a strength; only the first changes on the way.            *)
EXTENDS CausalGraph, Integers, TLC

(* A strength may be no number at all, of which every comparison is false.   *)
NaN == -1
AtLeast(value, limit) == value # NaN /\ value >= limit
Below(value, limit) == value # NaN /\ value < limit

(* GetEdgePrior: 0.95 for an edge seen in a trace, less 0.01 for every       *)
(* minute since, never below the uniform prior.                              *)
EdgePrior(age) == Max({500, 950 - 10 * age})

(* RunMCI: a correlation is no number when the variance of one of the two    *)
(* series, and not of the other, comes out below zero. That is rounding, and *)
(* happens to series that are constant, here those of the services in flat.  *)
Undefined(e, flat) == (e[1] \in flat) # (e[2] \in flat)

(* DiscoverGraph: an edge is measured, with a p-value below 0.05 and a       *)
(* correlation above 0.1, or is inferred from a prior above 0.8. The two     *)
(* weakest edges the tests let through stand for all of them; what is no     *)
(* number is not measured, and is not raised to 0.05 either.                 *)
IsInferred(prior) == prior > 800
MeasuredEdge == [prob |-> 951, strength |-> 101]
\* Mutant: an inferred edge keeps the correlation that failed the test.
InferredUnboosted(prior, corr) == [prob |-> prior, strength |-> corr]
InferredEdge(prior, corr) ==
    [prob |-> prior, strength |-> IF Below(corr, 50) THEN 50 ELSE corr]

Discovered(measured, traced, age, flat) ==
    [e \in measured \union {t \in traced : IsInferred(EdgePrior(age))} |->
        IF e \in measured THEN MeasuredEdge
        ELSE InferredEdge(EdgePrior(age), IF Undefined(e, flat) THEN NaN ELSE 0)]

Scaled(edge, permille) == [edge EXCEPT !.prob = Min({(@ * permille) \div 1000, 1000})]

(* EnrichGraphWithCausalIdentification: an edge whose ends are separated or  *)
(* whose adjusted effect is weak loses seven tenths, any other gains a       *)
(* twentieth for every node of its adjustment set.                           *)
Weakening == 300

Enriched(graph, weak) ==
    LET E == DOMAIN graph
        boosts(e) == {1000 + 50 * Cardinality(Z) : Z \in FindMinimalAdjustmentSets(E, e[1], e[2])}
    IN  [e \in E |->
            IF IsDSeparated(E, e[1], e[2], {}) \/ e \in weak THEN Scaled(graph[e], Weakening)
            ELSE Scaled(graph[e], Min(boosts(e)))]

(* RunIntervention: an edge whose effect the simulated do-operator confirms  *)
(* gains a fifth, any other loses a fifth.                                   *)
Intervened(graph, valid) ==
    [e \in DOMAIN graph |-> Scaled(graph[e], IF e \in valid THEN 1200 ELSE 800)]

(* generateNewGraphs: a clone without an edge, one with an edge turned and   *)
(* one with an edge added, each at half the weight of the original. Looking  *)
(* up an edge finds the added one last.                                      *)
AddedEdge == [prob |-> 500, strength |-> 100]
Without(graph, e) == [d \in DOMAIN graph \ {e} |-> graph[d]]
Flipped(graph, e) == (<<e[2], e[1]>> :> graph[e]) @@ Without(graph, e)
Added(graph, e) == (e :> AddedEdge) @@ graph

Clones(graph) ==
    LET E == DOMAIN graph
    IN  {Without(graph, e) : e \in E} \union {Flipped(graph, e) : e \in E} \union {Added(graph, e) : e \in Pairs}

\* With edges there are two clones, and a third unless the pair drawn is a loop.
CloneCounts(graph) == IF DOMAIN graph = {} THEN {0, 1} ELSE {2, 3}

(* GraphManager.Update: every weight is multiplied by e to the twentieth of  *)
(* a score between -1 and 1 and smoothed towards the mean. The original gets *)
(* the worst score and its clones the best; the heaviest graph comes first.  *)
CloneShare == 500
Weight(initial, factor, clones) == (7 * initial * factor) \div 10000 + 300 \div (clones + 1)
CloneMayWin(clones) == clones > 0 /\ Weight(CloneShare, 1051, clones) >= Weight(1000, 951, clones)
OriginalMayWin(clones) == clones = 0 \/ Weight(CloneShare, 1051, clones) <= Weight(1000, 951, clones)

(* The pipeline copies the probabilities of the best graph back.             *)
CopyBack(graph, best) ==
    [e \in DOMAIN graph |-> IF e \in DOMAIN best THEN [graph[e] EXCEPT !.prob = best[e].prob]
                            ELSE graph[e]]

(* filterStrongEdges keeps what is at least the limits, and                  *)
(* pruneWeakCausalEdges drops what is below them.                            *)
MinProbability == 100
MinStrength == 50
Strong(graph) ==
    {e \in DOMAIN graph : AtLeast(graph[e].prob, MinProbability) /\ AtLeast(graph[e].strength, MinStrength)}
Weak(graph) ==
    {e \in DOMAIN graph : Below(graph[e].prob, MinProbability) \/ Below(graph[e].strength, MinStrength)}
Pruned(graph) == [e \in DOMAIN graph \ Weak(graph) |-> graph[e]]
====
