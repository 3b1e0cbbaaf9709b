-------------------------- MODULE TemporalMemory ----------------------------
(***************************************************************************)
(* Phase 2's memory of a node: the energies, states and patterns of its    *)
(* last analyses.  The cache holds a pointer to it; an analysis gets the   *)
(* pointer, or makes a memory of its own if the node has none, appends its *)
(* observation under the memory's lock, and puts the pointer back.         *)
(*                                                                         *)
(* A memory is named by the analysis that made it.  An observation is the  *)
(* analysis that added it: the three histories grow and shrink together.   *)
(***************************************************************************)
EXTENDS SequencesExt, Naturals

CONSTANTS
    Nodes,        \* nodes an analysis can be about
    CacheSizes,   \* capacities of the temporal cache (1000 in the source)
    HistorySizes  \* observations a memory keeps: 20 in the source

VARIABLES
    cacheSize,    \* the capacity
    maxHistory,   \* the length of a memory
    recent,       \* nodes in the cache, least recently used first
    memory,       \* memory[n]: the memory cached for n, if n is in recent
    history       \* history[r]: observations in the memory r has made

memoryVars == <<cacheSize, maxHistory, recent, memory, history>>

MemoryInit(Analyses, none) ==
    /\ cacheSize \in CacheSizes /\ maxHistory \in HistorySizes
    /\ recent = << >>
    /\ memory = [n \in Nodes |-> none]
    /\ history = [r \in Analyses |-> << >>]

Used(n) == Append(RemoveFirst(recent, n), n)

Cached(n) == n \in ToSet(recent)

\* The memory an analysis r goes on with.  Get marks the node as used.
Remembered(n, r) == IF Cached(n) THEN memory[n] ELSE r

GetMemory(n) ==
    /\ recent' = IF Cached(n) THEN Used(n) ELSE recent
    /\ UNCHANGED <<cacheSize, maxHistory, memory, history>>

\* Mutant of Observed: the newest observation is trimmed.
ObservedOldest(s, r) == IF Len(s) = maxHistory THEN s ELSE Append(s, r)

\* updateMemory, one critical section.
Observed(s, r) ==
    IF Len(s) = maxHistory THEN Append(Tail(s), r) ELSE Append(s, r)

UpdateMemory(m, r) ==
    /\ history' = [history EXCEPT ![m] = Observed(@, r)]
    /\ UNCHANGED <<cacheSize, maxHistory, recent, memory>>

\* Mutant of PushedOut: the cache is filled before its size is looked at.
PushedOutLate(n) ==
    IF Cached(n) \/ Len(recent) <= cacheSize THEN {} ELSE {Head(recent)}

\* Nodes that Set(n) pushes out of a full cache.
PushedOut(n) ==
    IF Cached(n) \/ Len(recent) < cacheSize THEN {} ELSE {Head(recent)}

SetMemory(n, m) ==
    /\ recent' = IF PushedOut(n) = {} THEN Used(n) ELSE Tail(Used(n))
    /\ memory' = [memory EXCEPT ![n] = m]
    /\ UNCHANGED <<cacheSize, maxHistory, history>>

\* The process is gone: the next one starts with an empty cache.
MemoryCrash(none) ==
    /\ recent' = << >>
    /\ memory' = [n \in Nodes |-> none]
    /\ history' = [r \in DOMAIN history |-> << >>]
    /\ UNCHANGED <<cacheSize, maxHistory>>
=============================================================================
