---------------------------- MODULE MetricsStore ----------------------------
(***************************************************************************)
(* The sliding-window store of node samples (pkg/metricsstore/store.go).   *)
(* Every method holds the store's mutex for its whole body, so each one is *)
(* a single step; what callers do between two methods is up to them and is *)
(* modelled in StoreAnalysis and Collector, which extend this module.      *)
(*                                                                         *)
(* The Go map has a key for a node exactly when the node has a sample (Put *)
(* appends before it trims, RemoveNode deletes the key), so a node without *)
(* a key is a node whose window is the empty sequence.                     *)
(***************************************************************************)
EXTENDS Naturals, Sequences

CONSTANTS
    NodeIDs,      \* names a sample can be stored under
    Samples,      \* the observations, opaque to the store
    WindowArg,    \* the argument of New; main passes 60
    MinSamples    \* 4 in the source: least window, least samples to analyse

ASSUME StoreAssumption ==
    /\ WindowArg \in Nat
    /\ MinSamples \in Nat \ {0}

VARIABLE nodes    \* nodes[id]: the retained samples of id, oldest first

\* New: a window of fewer than MinSamples is raised to MinSamples.
WindowSize == IF WindowArg < MinSamples THEN MinSamples ELSE WindowArg

New == nodes = [id \in NodeIDs |-> << >>]

\* The last k elements of s (all of them when s is shorter).
LastOf(s, k) == IF Len(s) > k THEN SubSeq(s, Len(s) - k + 1, Len(s)) ELSE s

\* Mutant of Trimmed: the trim keeps the oldest samples.
OldestKept(s, x) == IF Len(s) < WindowSize THEN Append(s, x) ELSE s

\* What Put leaves in a window: append, then keep the newest WindowSize.
Trimmed(s, x) == LastOf(Append(s, x), WindowSize)

Put(id, x) == nodes' = [nodes EXCEPT ![id] = Trimmed(@, x)]

RemoveNode(id) == nodes' = [nodes EXCEPT ![id] = << >>]

-----------------------------------------------------------------------------
(* Reads.                                                                  *)

\* GetSamples, GetArrivalRateSeries, GetServiceRateSeries: a copy of the
\* window, nil (here the empty sequence) for an unknown node.
GetSamples(id) == nodes[id]

SampleCount(id) == Len(nodes[id])

GetAllNodeIDs == {id \in NodeIDs : nodes[id] # << >>}

\* GetLatestSample: its second result is HasLatest(id).
HasLatest(id) == nodes[id] # << >>
GetLatestSample(id) == nodes[id][Len(nodes[id])]

HasRealData == \E id \in NodeIDs : SampleCount(id) >= MinSamples
=============================================================================
