---------------------------- MODULE SignalPhase -----------------------------
(***************************************************************************)
(* Phase 1 of one analysis (ExecuteFullPipelineFromStore): the samples of  *)
(* every node are put into an aggregator, which aligns them to ticks and   *)
(* flushes them through the manager's pool of processors; each processor   *)
(* has a channel and a worker goroutine, and the analysis reads the state  *)
(* of one processor and the matrices of all of them.  Manager and          *)
(* aggregator are made for the analysis and are used by nothing else.      *)
(*                                                                         *)
(* FlushAll walks a Go map, so the order of ticks, and of the nodes in a   *)
(* tick, is any order.  Between the flush and the reads the code only      *)
(* sleeps 50 ms, which orders nothing: a worker may be at any point of its *)
(* channel when its processor is read.                                     *)
(*                                                                         *)
(* The store is read twice: the dataset, which gives the nodes and the     *)
(* rows of the matrix, and then the samples.  In between the store may     *)
(* have taken samples, evicted a node or seen it come back, so the samples *)
(* of a node can be more or fewer than the rows, and none at all.          *)
(***************************************************************************)
EXTENDS SignalProcessor, FiniteSetsExt, SequencesExt

CONSTANTS
    NodeIDs,      \* the nodes of the dataset: naturals, in their sorted order
    MaxTick,      \* bound on the 8-second ticks the samples fall into
    MaxSamples,   \* bound on the samples the store holds for a node
    PoolSizes,    \* values of maxProcessors (1000 in the source), some below
                  \* and some above the number of nodes
    ChannelSize   \* capacity of inputCh; 1000 in the source

ASSUME SignalAssumption ==
    /\ NodeIDs \subseteq Nat /\ IsFiniteSet(NodeIDs)
    /\ MaxTick \in Nat /\ MaxSamples \in Nat \ {0} /\ ChannelSize \in Nat \ {0}
    /\ PoolSizes \subseteq Nat \ {0}

Ticks == 1..MaxTick

VARIABLES
    rows,           \* points of the dataset: window of every processor, rows of
                    \* the matrix
    samples,        \* samples[id]: ticks of the samples read, in arrival order
    maxProcessors,  \* the pool's limit
    phase,          \* "add", "flush", "state", "matrix" or "done"
    todo,           \* nodes the current loop has still to visit
    buffer,         \* buffer[id][t]: sample aggregated for tick t, 0 for none
    tick,           \* the tick being flushed, 0 between two
    pool,           \* nodes with a processor, least recently accessed first
    procs,          \* procs[id]: state of the processor of id, if it is in pool
    channel,        \* channel[id]: inputs its worker has not taken yet
    arrivals,       \* gaps behind the primary node's arrival rate
    columns,        \* columns of the signal matrix
    lost,           \* history: nodes that lost an input (refused or evicted)
    undrained       \* history: nodes read before their worker had finished

input == <<rows, samples, maxProcessors>>
manager == <<pool, procs, channel>>
result == <<arrivals, columns>>
signalVars == <<input, phase, todo, buffer, tick, manager, result, lost, undrained>>

\* Samples are stamped with the time they arrive.
Arrivals == {s \in UNION {[1..n -> Ticks] : n \in 0..MaxSamples} :
                \A i \in 2..Len(s) : s[i - 1] <= s[i]}

SignalInit ==
    /\ rows \in 1..MaxSamples
    /\ samples \in [NodeIDs -> Arrivals]
    /\ maxProcessors \in PoolSizes
    /\ phase = "add" /\ todo = NodeIDs
    /\ buffer = [id \in NodeIDs |-> [t \in Ticks |-> 0]]
    /\ tick = 0
    /\ pool = << >>
    /\ procs = [id \in NodeIDs |-> NewProcessor]
    /\ channel = [id \in NodeIDs |-> << >>]
    /\ arrivals = << >>
    /\ columns = [id \in NodeIDs |-> << >>]
    /\ lost = {} /\ undrained = {}

Current == Min(todo)
Rest == todo \ {Current}

-----------------------------------------------------------------------------
(* The aggregator.                                                         *)

\* Add, for every sample of a node and all its features: a later sample of
\* the same tick replaces the earlier one.
AddSamples ==
    /\ phase = "add" /\ todo # {}
    /\ buffer' = [buffer EXCEPT ![Current] =
                    [t \in Ticks |-> Max({0} \union {i \in DOMAIN samples[Current] : samples[Current][i] = t})]]
    /\ todo' = Rest
    /\ phase' = IF Rest = {} THEN "flush" ELSE phase
    /\ UNCHANGED <<input, tick, manager, result, lost, undrained>>

Buffered == {t \in Ticks : \E id \in NodeIDs : buffer[id][t] # 0}

-----------------------------------------------------------------------------
(* The manager's pool.                                                     *)

\* Mutant of EvictOne: the pool is filled before its size is looked at.
EvictTooLate(id) ==
    IF id \in ToSet(pool) \/ Len(pool) <= maxProcessors THEN {} ELSE {Head(pool)}

\* Mutant of EvictOne: room is made for a processor the pool already has.
EvictAlways(id) == IF Len(pool) < maxProcessors THEN {} ELSE {Head(pool)} \ {id}

\* The processor a call of GetProcessor(id) throws out: the one accessed
\* least recently, when a new one is needed and the pool is full.
EvictOne(id) ==
    IF id \in ToSet(pool) \/ Len(pool) < maxProcessors THEN {} ELSE {Head(pool)}

\* Nodes whose processor is not the one they had before GetProcessor(id):
\* the new one starts empty, and nothing reaches the one thrown out.
Replaced(id) == EvictOne(id) \union ({id} \ ToSet(pool))

PoolWith(id) == Append(RemoveFirst(IF EvictOne(id) = {} THEN pool ELSE Tail(pool), id), id)
ProcsWith(id) == [k \in NodeIDs |-> IF k \in Replaced(id) THEN NewProcessor ELSE procs[k]]
ChannelsWith(id) == [k \in NodeIDs |-> IF k \in Replaced(id) THEN << >> ELSE channel[k]]

-----------------------------------------------------------------------------
(* The flush and the workers.                                              *)

\* One node of one tick, in any order: its processor is looked up and the
\* input is sent, or dropped when the channel is full (Ingest's error is
\* ignored).  The tick is deleted when its last node is done.
FlushGroup(id, t) ==
    /\ phase = "flush"
    /\ buffer[id][t] # 0 /\ tick \in {0, t}
    /\ pool' = PoolWith(id)
    /\ procs' = ProcsWith(id)
    /\ LET ch == ChannelsWith(id)
           full == Len(ch[id]) >= ChannelSize
       IN /\ channel' = IF full THEN ch
                        ELSE [ch EXCEPT ![id] = Append(@, Point(t, buffer[id][t]))]
          /\ lost' = lost \union EvictOne(id) \union (IF full THEN {id} ELSE {})
    /\ buffer' = [buffer EXCEPT ![id][t] = 0]
    /\ tick' = IF \E k \in NodeIDs \ {id} : buffer[k][t] # 0 THEN t ELSE 0
    /\ UNCHANGED <<input, phase, todo, result, undrained>>

\* The flush is over; the sleep that follows changes nothing.
FlushEnds ==
    /\ phase = "flush" /\ Buffered = {}
    /\ phase' = "state"
    /\ UNCHANGED <<input, todo, buffer, tick, manager, result, lost, undrained>>

\* Mutant of Work: the worker ends at the first channel it finds full.
WorkUntilFull(id) ==
    /\ channel[id] # << >> /\ Len(channel[id]) < ChannelSize
    /\ procs' = [procs EXCEPT ![id] = Process(@, Head(channel[id]), rows)]
    /\ channel' = [channel EXCEPT ![id] = Tail(@)]
    /\ UNCHANGED <<input, phase, todo, buffer, tick, pool, result, lost, undrained>>

\* The worker goroutine of a processor takes one input.
Work(id) ==
    /\ channel[id] # << >>
    /\ procs' = [procs EXCEPT ![id] = Process(@, Head(channel[id]), rows)]
    /\ channel' = [channel EXCEPT ![id] = Tail(@)]
    /\ UNCHANGED <<input, phase, todo, buffer, tick, pool, result, lost, undrained>>

-----------------------------------------------------------------------------
(* The reads.                                                              *)

\* The nodes whose worker is behind at a read of id.
Behind(id) == IF ChannelsWith(id)[id] # << >> THEN {id} ELSE {}

\* The state of the primary node (the hint, or the last node).
ReadState(primary) ==
    /\ phase = "state"
    /\ arrivals' = ArrivalGaps(ProcsWith(primary)[primary])
    /\ pool' = PoolWith(primary)
    /\ procs' = ProcsWith(primary)
    /\ channel' = ChannelsWith(primary)
    /\ lost' = lost \union EvictOne(primary)
    /\ undrained' = undrained \union Behind(primary)
    /\ phase' = "matrix" /\ todo' = NodeIDs
    /\ UNCHANGED <<input, buffer, tick, columns>>

\* The matrix, one column after the other.
ReadColumn ==
    /\ phase = "matrix" /\ todo # {}
    /\ columns' = [columns EXCEPT ![Current] = Column(ProcsWith(Current)[Current], rows)]
    /\ pool' = PoolWith(Current)
    /\ procs' = ProcsWith(Current)
    /\ channel' = ChannelsWith(Current)
    /\ lost' = lost \union EvictOne(Current)
    /\ undrained' = undrained \union Behind(Current)
    /\ todo' = Rest
    /\ phase' = IF Rest = {} THEN "done" ELSE phase
    /\ UNCHANGED <<input, buffer, tick, arrivals>>

Phase1 ==
    \/ AddSamples
    \/ \E id \in NodeIDs, t \in Ticks : FlushGroup(id, t)
    \/ FlushEnds
    \/ \E id \in NodeIDs : ReadState(id)
    \/ ReadColumn

SignalNext == Phase1 \/ \E id \in NodeIDs : Work(id)

\* The Go scheduler runs every goroutine that can go on.
SignalSpec ==
    /\ SignalInit /\ [][SignalNext]_signalVars
    /\ WF_signalVars(Phase1) /\ \A id \in NodeIDs : WF_signalVars(Work(id))

-----------------------------------------------------------------------------
Points == [tick : 0..MaxTick, sample : 0..MaxSamples]

\* Types; the pool holds each node once and never more than its limit.
SignalTypeOK ==
    /\ phase \in {"add", "flush", "state", "matrix", "done"}
    /\ todo \subseteq NodeIDs /\ tick \in 0..MaxTick
    /\ buffer \in [NodeIDs -> [Ticks -> 0..MaxSamples]]
    /\ ToSet(pool) \subseteq NodeIDs /\ IsInjective(pool) /\ Len(pool) <= maxProcessors
    /\ channel \in [NodeIDs -> Seq(Points)]
    /\ lost \subseteq NodeIDs /\ undrained \subseteq NodeIDs

\* Whatever order the map was walked in, a processor's window is a gapless run
\* of ticks that ends in its last real point, never longer than the dataset
\* (skipped ticks are filled, late and repeated ones dropped, the oldest
\* trimmed), and a column that was read after its worker had finished ends
\* with the newest sample of its node: only an eviction, a refused input or a
\* worker that is behind can take it away.
WindowIsContiguous ==
    /\ \A id \in NodeIDs : LET w == procs[id].window IN
          /\ Len(w) <= rows
          /\ \A i \in 2..Len(w) : w[i].tick = w[i - 1].tick + 1
          /\ w # << >> => Last(w).tick = procs[id].lastTick /\ Last(w).sample # 0
    /\ phase = "done" => \A id \in NodeIDs \ (lost \union undrained) :
          samples[id] # << >> => columns[id][rows] = Point(Last(samples[id]), Len(samples[id]))

\* An input is refused, or thrown out with its processor, only when there are
\* more nodes than processors or more samples than places in a channel: with
\* the limits of the source above the store's ring, neither happens although
\* Ingest's error is ignored.  (An input that reaches its worker late, after a
\* newer tick, is dropped there all the same: WindowIsContiguous.)
NothingLostWithinLimits ==
    (/\ Cardinality(NodeIDs) <= maxProcessors
     /\ \A id \in NodeIDs : Len(samples[id]) <= ChannelSize) => lost = {}

\* The phase ends and its workers run dry, though the flush and the workers
\* share channels that are bounded.
PhaseEnds == <>[](phase = "done" /\ \A id \in NodeIDs : channel[id] = << >>)
=============================================================================
