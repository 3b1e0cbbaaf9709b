---------------------------- MODULE StoreWindow -----------------------------
(***************************************************************************)
(* The store alone, with any caller: samples are put under any node in any *)
(* order and nodes are removed at any time.  The history variable log      *)
(* records, for each node, every sample accepted since the node was last   *)
(* removed; the store itself has no such memory.                           *)
(***************************************************************************)
EXTENDS MetricsStore

CONSTANT MaxPuts   \* bound on the samples accepted for a node between removals

ASSUME MaxPutsAssumption == MaxPuts \in Nat

VARIABLE log

vars == <<nodes, log>>

Init == New /\ log = [id \in NodeIDs |-> << >>]

PutSample(id, x) ==
    /\ Len(log[id]) < MaxPuts
    /\ Put(id, x)
    /\ log' = [log EXCEPT ![id] = Append(@, x)]

Remove(id) ==
    /\ RemoveNode(id)
    /\ log' = [log EXCEPT ![id] = << >>]

Next == \E id \in NodeIDs : Remove(id) \/ \E x \in Samples : PutSample(id, x)

Spec == Init /\ [][Next]_vars

-----------------------------------------------------------------------------
\* Type correctness; a window never holds more than WindowSize samples.
TypeOK ==
    /\ nodes \in [NodeIDs -> Seq(Samples)]
    /\ log \in [NodeIDs -> Seq(Samples)]
    /\ \A id \in NodeIDs : Len(nodes[id]) <= WindowSize

\* "Each node retains the last WindowSize samples in insertion order" (the
\* comment on Store): a window is exactly the newest samples of the node's
\* history, whatever was put under or removed from the other nodes.
WindowIsNewest ==
    \A id \in NodeIDs : nodes[id] = LastOf(log[id], WindowSize)

\* HasRealData reports the history, not only the window: trimming never
\* takes a node that once had enough samples below the analysis minimum.
ReadyIffEnoughSeen ==
    HasRealData <=> \E id \in NodeIDs : Len(log[id]) >= MinSamples

=============================================================================
