---- MODULE CausalExplanation ----
(* Phases 4 and 5 on the pruned graph: the causes of explainer.go, the       *)
(* fusion of causal_fusion.go, the evidence chain of evidence/chain.go and   *)
(* the simulation of whatif.go. The graphs of the three packages have the    *)
(* same nodes and edges (bridge/converters.go).                              *)
EXTENDS CausalGraph

(* extractPaths walks up from the target, on every path separately, until a  *)
(* node has no parents or a parent is on the path already: both ends begin a *)
(* path. Paths are given from their first node to the target.                *)
Paths(E, target) ==
    LET onward(p) == {<<n>> \o p : n \in Parents(E, Head(p)) \ Range(p)}
    IN  LET walk[k \in 0..Cardinality(Nodes)] ==
                IF k = 0 THEN {<<target>>}
                ELSE LET found == walk[k - 1] IN found \union UNION {onward(p) : p \in found}
        IN  {p \in walk[Cardinality(Nodes)] :
                Parents(E, Head(p)) = {} \/ Parents(E, Head(p)) \intersect Range(p) # {}}

(* GenerateExplanation: the heads of the paths, the parents and the          *)
(* ancestors of the target, of which those with a measurable effect on it    *)
(* are the causes. A constant series or opposite paths can take the effect   *)
(* of any of them away.                                                      *)
CauseSet(E, target) ==
    {Head(p) : p \in Paths(E, target)} \union Parents(E, target) \union Ancestors(E, target)

(* isConfounder: a node without parents and with two children of which two   *)
(* reach the target, or one that is a cause does not.                        *)
IsConfounder(E, node, target, causes) ==
    LET children == Children(E, node)
        reaching == {c \in children : Reaches(E, c, target)}
    IN  /\ Parents(E, node) = {}
        /\ Cardinality(children) >= 2
        /\ Cardinality(reaching) >= 2 \/ (causes \intersect children) \ reaching # {}

\* Mutant: only a direct edge to the target counts.
DirectMediator(E, node, target, causes, rejected) ==
    Parents(E, node) \ rejected # {} /\ target \in Children(E, node)

(* isMediator: has a parent that was not rejected, and leads to the target   *)
(* or to another cause that was not.                                         *)
IsMediator(E, node, target, causes, rejected) ==
    /\ Parents(E, node) \ rejected # {}
    /\ Children(E, node) \intersect ({target} \union (causes \ (rejected \union {node}))) # {}

(* FuseCausalResults: two passes over the causes of phase 4; the root of     *)
(* phase 3 is rejected when it is not among them.                            *)
FuseCausalResults(E, phase3Root, causes, target) ==
    LET rejected == {n \in causes : IsConfounder(E, n, target, causes)}
        mediators == {n \in causes \ rejected : IsMediator(E, n, target, causes, rejected)}
    IN  [roots |-> causes \ (rejected \union mediators),
         mediators |-> mediators,
         rejected |-> rejected \union ({phase3Root} \ (causes \union {NoNode}))]

(* findPathBFS: a shortest path; when there is none the two ends themselves. *)
PathsFrom(E, from, to) ==
    LET onward(p) == {Append(p, n) : n \in Children(E, Last(p)) \ Range(p)}
    IN  LET walk[k \in 0..Cardinality(Nodes)] ==
                IF k = 0 THEN {<<from>>}
                ELSE LET found == walk[k - 1] IN found \union UNION {onward(p) : p \in found}
        IN  {p \in walk[Cardinality(Nodes)] : Last(p) = to}

\* Mutant: the search gives up after the first hop.
FindPathOneHop(E, from, to) == IF from = to THEN {<<from>>} ELSE {<<from, to>>}
FindPathBFS(E, from, to) ==
    LET paths == PathsFrom(E, from, to)
    IN  IF from = to THEN {<<from>>}
        ELSE IF paths = {} THEN {<<from, to>>}
        ELSE {p \in paths : \A q \in paths : Len(p) <= Len(q)}

(* BuildCausalChain: the links of such a path at their places. A link is     *)
(* skipped when the store has no sample of one of its ends, which is asked   *)
(* for every link anew.                                                      *)
BuildCausalChain(path, skipped) ==
    [root |-> path[1],
     links |-> [i \in (1..Len(path) - 1) \ skipped |-> <<path[i], path[i + 1]>>]]

(* SimulateWhatIf: cloneAndMutilate cuts the edges into the node acted on,   *)
(* and evaluateGraph evaluates what Kahn's algorithm takes out. A node left  *)
(* over reads 0, which is below the threshold and so "recovered".            *)
Mutilated(E, node) == {e \in E : e[2] # node}
Evaluated(E, node) == Sorted(Mutilated(E, node))
====
