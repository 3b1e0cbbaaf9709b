---------------------------- MODULE StoreAnalysis ---------------------------
(***************************************************************************)
(* One analysis (ExecuteFullPipelineFromStore, pkg/orchestrator/pipeline.go)*)
(* reading the metrics store while ingestion, the OTLP receiver and the    *)
(* Docker collector write to it.  The analysis takes no snapshot: each     *)
(* store call locks and unlocks by itself, so writers run between any two  *)
(* of them, and the dataset is assembled one sample per call.              *)
(*                                                                         *)
(* Only what the store reads decide is kept: which nodes and samples enter *)
(* the dataset, the early returns, and the index that can be out of range. *)
(* Concurrent analyses only read the store, so one is enough.              *)
(***************************************************************************)
EXTENDS StoreWindow, FiniteSetsExt

\* MaxPuts of StoreWindow bounds here the samples ever written, to any node.
CONSTANT MaxRemovals   \* bound on the nodes ever removed

ASSUME AnalysisAssumption ==
    /\ MaxRemovals \in Nat
    /\ NodeIDs \subseteq Nat      \* node names, in their sorted order

(***************************************************************************)
(* A sample is its arrival number and whether validateStoreData accepts it *)
(* (finite, arrival >= 0, service > 0, queue >= 0).  OTLP metrics without a*)
(* latency are stored with service rate 0, which it rejects.               *)
(***************************************************************************)
AnalysisSamples == [seq : 1..MaxPuts, ok : BOOLEAN]

VARIABLES
    pc,          \* where the analysis is, or how it ended
    todo,        \* nodes the current loop has still to visit
    qualified,   \* nodes of the dataset
    maxLen,      \* points of the dataset
    t,           \* index of the point being filled
    dataset,     \* dataset[id]: arrival numbers read so far for id
    input,       \* samples handed to phase 1
    synthetic,   \* nodes whose state was made up for want of a sample
    clock,       \* samples written so far
    removals,    \* nodes removed so far
    startClock,  \* history: clock when validation started
    removedSince \* history: nodes removed since the analysis started

run == <<pc, todo, qualified, maxLen, t, dataset, input, synthetic>>
history == <<startClock, removedSince>>
env == <<nodes, log, clock, removals>>
analysisVars == <<run, history, env>>

Ended == {"nodata", "invalid", "insufficient", "panic", "done"}
Loops == {"validate", "qualify", "build", "quality", "phase1", "states"}

EmptyRun ==
    /\ pc = "idle" /\ todo = {} /\ qualified = {} /\ maxLen = 0 /\ t = 0
    /\ dataset = [id \in NodeIDs |-> << >>] /\ input = {} /\ synthetic = {}

AnalysisInit ==
    /\ Init
    /\ EmptyRun
    /\ clock = 0 /\ removals = 0 /\ startClock = 0 /\ removedSince = {}

-----------------------------------------------------------------------------
(* Writers.                                                                *)

\* /ingest, OTLP metrics or a Docker poll stores one sample.
Write(id, ok) ==
    /\ clock < MaxPuts
    /\ clock' = clock + 1
    /\ PutSample(id, [seq |-> clock + 1, ok |-> ok])
    /\ UNCHANGED <<run, history, removals>>

\* The Docker collector drops a node whose container is gone.
Evict(id) ==
    /\ removals < MaxRemovals
    /\ HasLatest(id)
    /\ removals' = removals + 1
    /\ Remove(id)
    /\ removedSince' = removedSince \union {id}
    /\ UNCHANGED <<run, startClock, clock>>

-----------------------------------------------------------------------------
(* The analysis.                                                           *)

\* A loop over a list of nodes in sorted order: the current one, and the rest.
Current == Min(todo)
Rest == todo \ {Current}

\* A request arrives; HasRealData decides whether it is answered at all.
Start ==
    /\ pc \in {"idle"} \union Ended
    /\ pc' = IF HasRealData THEN "list" ELSE "nodata"
    /\ todo' = {} /\ qualified' = {} /\ maxLen' = 0 /\ t' = 0
    /\ dataset' = [id \in NodeIDs |-> << >>] /\ input' = {} /\ synthetic' = {}
    /\ startClock' = clock /\ removedSince' = {}
    /\ UNCHANGED env

\* validateStoreData lists the nodes ...
ListForValidation ==
    /\ pc = "list"
    /\ todo' = GetAllNodeIDs
    /\ pc' = "validate"
    /\ UNCHANGED <<qualified, maxLen, t, dataset, input, synthetic, history, env>>

\* Mutant of Accepted: only the newest sample is looked at.
NewestAccepted(id) == HasLatest(id) => GetLatestSample(id).ok

\* ... and rejects the whole analysis for one bad sample of one node.
Accepted(id) == \A i \in DOMAIN GetSamples(id) : GetSamples(id)[i].ok

ValidateNode ==
    /\ pc = "validate" /\ todo # {}
    /\ IF Accepted(Current)
       THEN todo' = Rest /\ pc' = pc
       ELSE todo' = {} /\ pc' = "invalid"
    /\ UNCHANGED <<qualified, maxLen, t, dataset, input, synthetic, history, env>>

\* convertStoreToDataset lists the nodes again; no node is a nil dataset.
ListForDataset ==
    /\ pc = "validate" /\ todo = {}
    /\ todo' = GetAllNodeIDs
    /\ pc' = IF GetAllNodeIDs = {} THEN "insufficient" ELSE "qualify"
    /\ UNCHANGED <<qualified, maxLen, t, dataset, input, synthetic, history, env>>

Qualifies(n) == n >= MinSamples

\* Mutant of QualifyNode: wait for a node that is short of samples.
QualifyWaits ==
    /\ pc = "qualify" /\ todo # {}
    /\ Qualifies(SampleCount(Current))
    /\ qualified' = qualified \union {Current}
    /\ maxLen' = Max({maxLen, SampleCount(Current)})
    /\ todo' = Rest
    /\ UNCHANGED <<pc, t, dataset, input, synthetic, history, env>>

\* Nodes that are short of samples are left out of the dataset.
QualifyNode ==
    /\ pc = "qualify" /\ todo # {}
    /\ LET n == SampleCount(Current) IN
         IF Qualifies(n)
         THEN /\ qualified' = qualified \union {Current}
              /\ maxLen' = Max({maxLen, n})
         ELSE UNCHANGED <<qualified, maxLen>>
    /\ todo' = Rest
    /\ UNCHANGED <<pc, t, dataset, input, synthetic, history, env>>

FinishQualify ==
    /\ pc = "qualify" /\ todo = {}
    /\ IF qualified = {} \/ maxLen < MinSamples
       THEN pc' = "insufficient" /\ UNCHANGED todo
       ELSE pc' = "build" /\ todo' = qualified
    /\ UNCHANGED <<qualified, maxLen, t, dataset, input, synthetic, history, env>>

\* Mutant of PointOf: a short series is padded with its first sample.
PaddedWithFirst(series, i) == IF i < Len(series) THEN series[i + 1] ELSE series[1]

\* The value of point i: the i-th sample, or the last one of a short series.
PointOf(series, i) == IF i < Len(series) THEN series[i + 1] ELSE series[Len(series)]

\* Whether that index exists: the series is read again for every point, and
\* is empty (the index -1) when the node was removed since it qualified.
Readable(series, i) == Len(series) > 0

BuildPoint ==
    /\ pc = "build" /\ todo # {}
    /\ LET series == GetSamples(Current) IN
         IF Readable(series, t)
         THEN /\ dataset' = [dataset EXCEPT ![Current] = Append(@, PointOf(series, t).seq)]
              /\ todo' = Rest /\ pc' = pc
         ELSE /\ pc' = "panic" /\ todo' = {} /\ UNCHANGED dataset
    /\ UNCHANGED <<qualified, maxLen, t, input, synthetic, history, env>>

NextPoint ==
    /\ pc = "build" /\ todo = {}
    /\ t' = t + 1
    /\ todo' = qualified
    /\ pc' = IF t + 1 < maxLen THEN "build" ELSE "quality"
    /\ UNCHANGED <<qualified, maxLen, dataset, input, synthetic, history, env>>

\* The metric quality of the latest samples is averaged; a node without one
\* is skipped.
ReadQuality ==
    /\ pc = "quality" /\ todo # {}
    /\ todo' = Rest
    /\ UNCHANGED <<pc, qualified, maxLen, t, dataset, input, synthetic, history, env>>

\* Phase 1 is fed with the retained samples, read once more.
FeedPhase1 ==
    /\ pc = "phase1" /\ todo # {}
    /\ input' = input \union {GetSamples(Current)[i] : i \in DOMAIN GetSamples(Current)}
    /\ todo' = Rest
    /\ UNCHANGED <<pc, qualified, maxLen, t, dataset, synthetic, history, env>>

\* Phase 3 takes each node's state from its latest sample; a node that has
\* none any more gets the constant state (load 0.5).
ReadState ==
    /\ pc = "states" /\ todo # {}
    /\ synthetic' = IF HasLatest(Current) THEN synthetic ELSE synthetic \union {Current}
    /\ todo' = Rest
    /\ UNCHANGED <<pc, qualified, maxLen, t, dataset, input, history, env>>

\* The end of one of the three loops above starts the next one.
FinishLoop ==
    /\ pc \in {"quality", "phase1", "states"} /\ todo = {}
    /\ pc' = CASE pc = "quality" -> "phase1" [] pc = "phase1" -> "states" [] OTHER -> "done"
    /\ todo' = IF pc = "states" THEN {} ELSE qualified
    /\ UNCHANGED <<qualified, maxLen, t, dataset, input, synthetic, history, env>>

Step ==
    \/ ListForValidation \/ ValidateNode \/ ListForDataset \/ QualifyNode
    \/ FinishQualify \/ BuildPoint \/ NextPoint \/ ReadQuality \/ FeedPhase1
    \/ ReadState \/ FinishLoop

AnalysisNext ==
    \/ \E id \in NodeIDs : Evict(id) \/ \E ok \in BOOLEAN : Write(id, ok)
    \/ Start
    \/ Step

\* The goroutine of an accepted request keeps running; writers and new
\* requests owe nothing.
AnalysisSpec ==
    AnalysisInit /\ [][AnalysisNext]_analysisVars /\ WF_analysisVars(Step)

-----------------------------------------------------------------------------
\* The types of the analysis (proved in StoreAnalysis_proofs); the loop over
\* the points stops at the length of the dataset.
AnalysisTypeOK ==
    /\ pc \in {"idle", "list"} \union Loops \union Ended
    /\ todo \subseteq NodeIDs /\ qualified \subseteq NodeIDs
    /\ maxLen \in 0..WindowSize /\ t \in 0..maxLen
    /\ dataset \in [NodeIDs -> Seq(1..MaxPuts)]
    /\ input \subseteq AnalysisSamples /\ synthetic \subseteq qualified
    /\ clock \in 0..MaxPuts /\ removals \in 0..MaxRemovals

\* The values of a node enter the dataset in the order they arrived, though
\* the window slides while convertStoreToDataset walks it (a sample may be
\* skipped by a slide, never taken twice out of order), and an analysis that
\* completes has a dataset of at least MinSamples real points of every node.
DatasetInArrivalOrder ==
    /\ \A id \in NodeIDs : \A i, j \in DOMAIN dataset[id] :
          i <= j => dataset[id][i] <= dataset[id][j]
    /\ pc = "done" =>
          /\ qualified # {} /\ maxLen >= MinSamples
          /\ \A id \in qualified : Len(dataset[id]) = maxLen

\* The three ways an analysis goes wrong need a write in the middle of it:
\* the out-of-range index of convertStoreToDataset and a made-up state in
\* phase 3 a node removed since it started, and an input of phase 1 that
\* validateStoreData would have rejected one written after it began.
\* Appends and slides of valid samples never cause any of them.
FaultsAreRaces ==
    /\ pc = "panic" => qualified \intersect removedSince # {}
    /\ synthetic \subseteq removedSince
    /\ \A x \in input : ~x.ok => x.seq > startClock

\* Every analysis that starts is answered: no interleaving with the writers
\* keeps it in one of its loops.
Answered == pc = "list" ~> pc \in Ended

\* "If the store is nil or has insufficient data it returns an explicit error"
\* (comment on ExecuteFullPipelineFromStore): no analysis ends in a panic.
MissingDataIsAnError == pc # "panic"
=============================================================================
