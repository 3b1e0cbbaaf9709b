--------------------------- MODULE ServerProcess ----------------------------
(***************************************************************************)
(* The life of the server: it is started, serves analyses, is told to      *)
(* terminate, drains the requests it has and exits, or dies; and is        *)
(* started again.  What an analysis leaves behind for the next one, in the *)
(* order in which ExecuteFullPipelineFromStore does it: an observation in  *)
(* the memory of its primary node (lost with the process) and weights in   *)
(* the policy file of its target (kept).  Beside it main and the watcher   *)
(* keep the configuration.                                                 *)
(*                                                                         *)
(* Every analysis happens once.  Primary node and target are chosen when   *)
(* it reaches the step that needs them: they come from the store.          *)
(***************************************************************************)
EXTENDS PolicyStore, TemporalMemory, ConfigWatch, FiniteSets

CONSTANTS
    Requests,
    Shapes,     \* numbers of actions and features a policy can have
    NotYet      \* what a request has not chosen or got

\* Trained weights: their shape and the analyses they were trained by.
Weights == [shape : Shapes, by : SUBSET Requests]

ASSUME ServerAssumption ==
    /\ NotYet \notin Requests
    /\ CacheSizes \subseteq Nat \ {0} /\ HistorySizes \subseteq Nat \ {0}
    /\ Parsed \subseteq Values /\ "" \notin Values
    /\ {Missing, Partial} \intersect Weights = {}

VARIABLES
    server,     \* "down", "up", or "draining" after SIGTERM
    pc,         \* where a request is; "new" before and "over" after
    node,       \* its primary node
    target,     \* its target
    ref,        \* the memory it got
    prior,      \* the weights it loaded, a set of at most one
    shape,      \* actions and features of its policy
    \* History:
    before,     \* before[r]: requests that were over when r arrived
    evicted,    \* nodes pushed out of the cache, in this life
    observed,   \* requests whose observation was put back, in this life
    saved,      \* requests whose weights were renamed into place
    blind,      \* requests whose Load failed
    newest      \* newest[p]: the weights last renamed to p

requestVars == <<pc, node, target, ref, prior, shape>>
pastVars == <<before, evicted, observed, saved, blind, newest>>
vars == <<policyVars, memoryVars, configVars, server, requestVars, pastVars>>

Overlap(q, r) == q \notin before[r] /\ r \notin before[q]

InFlight == {r \in Requests : pc[r] \notin {"new", "over"}}

Init ==
    /\ PolicyInit /\ MemoryInit(Requests, NotYet) /\ ConfigInit
    /\ server = "down"
    /\ pc = [r \in Requests |-> "new"]
    /\ node = [r \in Requests |-> NotYet]
    /\ target = [r \in Requests |-> NotYet]
    /\ ref = [r \in Requests |-> NotYet]
    /\ prior = [r \in Requests |-> {}]
    /\ shape = [r \in Requests |-> NotYet]
    /\ before = [r \in Requests |-> {}]
    /\ evicted = {} /\ observed = {} /\ saved = {} /\ blind = {}
    /\ newest = [p \in Paths |-> Missing]

-----------------------------------------------------------------------------
(* An analysis.                                                            *)

Goto(r, where) == pc' = [pc EXCEPT ![r] = where]

Arrive(r) ==
    /\ server = "up" /\ pc[r] = "new"
    /\ Goto(r, "memory")
    /\ before' = [before EXCEPT ![r] = {q \in Requests : pc[q] = "over"}]
    /\ UNCHANGED <<policyVars, memoryVars, configVars, server, node, target, ref, prior, shape,
                   evicted, observed, saved, blind, newest>>

\* temporalCache.Get(primaryNode), or a new memory.
GetTemporal(r, n) ==
    /\ pc[r] = "memory"
    /\ node' = [node EXCEPT ![r] = n]
    /\ GetMemory(n)
    /\ ref' = [ref EXCEPT ![r] = Remembered(n, r)]
    /\ Goto(r, "observe")
    /\ UNCHANGED <<policyVars, configVars, server, target, prior, shape, pastVars>>

\* BuildSystemState.
Observe(r) ==
    /\ pc[r] = "observe"
    /\ UpdateMemory(ref[r], r)
    /\ Goto(r, "cache")
    /\ UNCHANGED <<policyVars, configVars, server, node, target, ref, prior, shape, pastVars>>

\* temporalCache.Set(primaryNode, temporalMemory).
SetTemporal(r) ==
    /\ pc[r] = "cache"
    /\ SetMemory(node[r], ref[r])
    /\ evicted' = evicted \union PushedOut(node[r])
    /\ observed' = observed \union {r}
    /\ Goto(r, "policy")
    /\ UNCHANGED <<policyVars, configVars, server, node, target, ref, prior, shape,
                   before, saved, blind, newest>>

\* Every return of the pipeline before phase 5.
ReturnEarly(r) ==
    /\ pc[r] = "policy"
    /\ Goto(r, "over")
    /\ UNCHANGED <<policyVars, memoryVars, configVars, server, node, target, ref, prior, shape, pastVars>>

\* ps.Load: the weights of an earlier analysis, or an error reading them.
LoadPolicy(r, t, k) ==
    /\ pc[r] = "policy" /\ CanLoad
    /\ target' = [target EXCEPT ![r] = t]
    /\ shape' = [shape EXCEPT ![r] = k]
    /\ \/ prior' = [prior EXCEPT ![r] = Stored(t)] /\ blind' = blind
       \/ prior' = [prior EXCEPT ![r] = {}] /\ blind' = blind \union {r}
    /\ Goto(r, "save")
    /\ UNCHANGED <<policyVars, memoryVars, configVars, server, node, ref,
                   before, evicted, observed, saved, newest>>

\* WarmstartTrain builds on the prior when the number of actions and of
\* features is that of this analysis.  It does not ask whose they are.
Usable(r) == {w \in prior[r] : w.shape = shape[r]}

Trained(r) ==
    [shape |-> shape[r], by |-> {r} \union UNION {w.by : w \in Usable(r)}]

\* WarmstartTrain is pure; ps.Save begins.
BeginSave(r) ==
    /\ pc[r] = "save"
    /\ SaveBegins(r, target[r])
    /\ Goto(r, "write")
    /\ UNCHANGED <<memoryVars, configVars, server, node, target, ref, prior, shape, pastVars>>

WriteTemporary(r) ==
    /\ pc[r] = "write"
    /\ \/ SaveWritten(target[r], Trained(r)) /\ Goto(r, "rename")
       \/ SaveFails /\ Goto(r, "over")
    /\ UNCHANGED <<memoryVars, configVars, server, node, target, ref, prior, shape, pastVars>>

\* Rename; then the rest of phase 5, which keeps nothing, and the answer.
RenameTemporary(r) ==
    /\ pc[r] = "rename"
    /\ \/ /\ SaveRenamed(target[r])
          /\ saved' = saved \union {r}
          /\ newest' = [newest EXCEPT ![Path(target[r])] = Trained(r)]
       \/ /\ SaveNotRenamed(target[r])
          /\ UNCHANGED <<saved, newest>>
    /\ Goto(r, "over")
    /\ UNCHANGED <<memoryVars, configVars, server, node, target, ref, prior, shape,
                   before, evicted, observed, blind>>

Analysis(r) ==
    \/ Arrive(r)
    \/ \E n \in Nodes : GetTemporal(r, n)
    \/ Observe(r)
    \/ SetTemporal(r)
    \/ ReturnEarly(r)
    \/ \E t \in Targets, k \in Shapes : LoadPolicy(r, t, k)
    \/ BeginSave(r)
    \/ WriteTemporary(r)
    \/ RenameTemporary(r)

-----------------------------------------------------------------------------
(* The process.                                                            *)

Start ==
    /\ server = "down"
    /\ server' = "up"
    /\ ConfigStart
    /\ UNCHANGED <<policyVars, memoryVars, requestVars, pastVars>>

\* Watch returns when the root context is cancelled.
Poll ==
    /\ server = "up"
    /\ ConfigPoll
    /\ UNCHANGED <<policyVars, memoryVars, server, requestVars, pastVars>>

Edit ==
    /\ EditDotenv
    /\ UNCHANGED <<policyVars, memoryVars, server, requestVars, pastVars>>

\* SIGTERM or SIGINT: Shutdown accepts nothing new and waits.
Terminate ==
    /\ server = "up"
    /\ server' = "draining"
    /\ UNCHANGED <<policyVars, memoryVars, configVars, requestVars, pastVars>>

\* The process ends; what was in flight is not answered.
Exit ==
    /\ server' = "down"
    /\ PolicyCrash /\ MemoryCrash(NotYet) /\ ConfigDown
    /\ pc' = [r \in Requests |-> IF r \in InFlight THEN "over" ELSE pc[r]]
    /\ evicted' = {} /\ observed' = {}
    /\ UNCHANGED <<node, target, ref, prior, shape, before, saved, blind, newest>>

\* Shutdown returns: main logs and returns.
Drained == server = "draining" /\ InFlight = {} /\ Exit

\* The grace period of one write timeout is over: Shutdown fails and
\* log.Fatalf ends the process, whatever the handlers are doing.
GraceOver == server = "draining" /\ InFlight # {} /\ Exit

Crash == server # "down" /\ Exit

Next ==
    \/ \E r \in Requests : Analysis(r)
    \/ Start \/ Poll \/ Edit \/ Terminate \/ Drained \/ GraceOver \/ Crash

Spec == Init /\ [][Next]_vars

-----------------------------------------------------------------------------
TypeOK ==
    /\ file \in [Paths -> Weights \union {Missing, Partial}]
    /\ tmp \in [Paths -> Weights \union {Missing, Partial}]
    /\ saver \subseteq Requests /\ Cardinality(saver) <= 1
    /\ cacheSize \in CacheSizes /\ Len(recent) <= cacheSize
    /\ \A i, j \in DOMAIN recent : recent[i] = recent[j] => i = j
    /\ memory \in [Nodes -> Requests \union {NotYet}]
    /\ \A n \in ToSet(recent) : memory[n] \in Requests
    /\ \A r \in Requests : Len(history[r]) <= maxHistory /\ ToSet(history[r]) \subseteq Requests
    /\ server \in {"down", "up", "draining"}
    /\ pc \in [Requests -> {"new", "memory", "observe", "cache", "policy", "save", "write", "rename", "over"}]
    /\ {config, startup} \subseteq Parsed \union {Default}

\* A policy file is whole and is what the last rename put there, whatever
\* failed or died since: Save's temporary file and rename keep the promise
\* of "atomically" (policy/store.go:76).
SaveIsAtomic == \A p \in Paths : file[p] = newest[p]

\* The training of an analysis goes on in the file of its target, over any
\* number of restarts, unless a later save of the file overlapped it, was of
\* another shape, or could not read what was there (WarmstartTrain lets the
\* policy "accumulate knowledge across successive pipeline runs").
TrainingAccumulates ==
    \A r \in saved :
        \/ r \in file[Path(target[r])].by
        \/ \E q \in saved \ {r} :
              /\ Path(target[q]) = Path(target[r])
              /\ Overlap(q, r) \/ shape[q] # shape[r] \/ q \in blind

\* Analyses of n that put their observation back.
ObservedAt(n) == {r \in observed : node[r] = n}

\* The observation of an analysis is in the memory the cache holds for its
\* node, unless the node was pushed out, newer observations fill the memory,
\* or the memory is another one that an overlapping analysis put there.
ObservationsAreKept ==
    \A n \in Nodes \ evicted : \A r \in ObservedAt(n) :
        LET kept == history[memory[n]]
        IN  /\ Cached(n)
            /\ \/ r \in ToSet(kept)
               \/ Len(kept) = maxHistory /\ ToSet(kept) \intersect before[r] = {}
               \/ ref[r] # memory[n] /\ \E q \in Requests : ref[q] = memory[n] /\ Overlap(q, r)
=============================================================================
