----------------------------- MODULE Collector ------------------------------
(***************************************************************************)
(* The Docker collector (pkg/autodetect/autodetect.go): every tick it lists*)
(* the running containers, collects each of them in a goroutine of its own *)
(* and evicts what it no longer finds, while containers come, go and change*)
(* names and the OTLP receiver writes to the same store.                   *)
(*                                                                         *)
(* A sample is where it came from: the container, or OTLP.  Time is only   *)
(* whether the newest OTLP sample of a name is less than 15 s old, which   *)
(* may cease at any moment.                                                *)
(***************************************************************************)
EXTENDS MetricsStore, FiniteSets

CONSTANTS
    IDs,             \* container IDs, never reused
    Infrastructure,  \* names that are filtered out (the engine itself)
    NoName,          \* the name of a container that does not exist
    OTLP,            \* the origin of an OTLP sample
    MaxRenames,      \* bound on the renames of containers
    MaxFailures      \* bound on the failed listings

ASSUME CollectorAssumption ==
    /\ Samples = IDs \union {OTLP} /\ OTLP \notin IDs
    /\ Infrastructure \intersect NodeIDs = {}
    /\ NoName \notin NodeIDs \union Infrastructure
    /\ MaxRenames \in Nat /\ MaxFailures \in Nat

VARIABLES
    name, up,     \* Docker: the name of each container, and those running
    created,      \* Docker: the containers there have ever been
    pc,           \* the loop: "wait" for the tick or "collect"
    listed,       \* the names of the filtered listing
    baseline,     \* the baseline of a container: none, new or primed
    idToName,     \* the names to evict by
    task,         \* where the goroutine of a container is
    fresh,        \* names whose newest OTLP sample is fresh
    failures,     \* listings that failed
    renamed,      \* history: containers that were renamed
    arrived       \* history: tasks whose name got an OTLP sample since the check

docker == <<name, up, created, renamed>>
loop == <<pc, listed, baseline, idToName, task, failures>>
vars == <<nodes, docker, loop, fresh, arrived>>

Names == NodeIDs \union Infrastructure
Nameless == [id \in IDs |-> NoName]

Init ==
    /\ New
    /\ name = Nameless /\ up = {} /\ created = {} /\ renamed = {}
    /\ pc = "wait" /\ listed = Nameless /\ idToName = Nameless /\ failures = 0
    /\ baseline = [id \in IDs |-> "none"] /\ task = [id \in IDs |-> "done"]
    /\ fresh = {} /\ arrived = {}

-----------------------------------------------------------------------------
(* Docker: names are unique among the containers that exist.               *)

Free(n) == \A id \in IDs : name[id] # n

Create(id, n) ==
    /\ id \notin created /\ Free(n)
    /\ created' = created \union {id} /\ up' = up \union {id}
    /\ name' = [name EXCEPT ![id] = n]
    /\ UNCHANGED <<nodes, loop, fresh, renamed, arrived>>

StartOrStop(id) ==
    /\ name[id] # NoName
    /\ up' = IF id \in up THEN up \ {id} ELSE up \union {id}
    /\ UNCHANGED <<nodes, name, created, loop, fresh, renamed, arrived>>

Destroy(id) ==
    /\ name[id] # NoName
    /\ up' = up \ {id} /\ name' = [name EXCEPT ![id] = NoName]
    /\ UNCHANGED <<nodes, created, loop, fresh, renamed, arrived>>

Rename(id, n) ==
    /\ name[id] # NoName /\ Free(n)
    /\ Cardinality(renamed) < MaxRenames
    /\ name' = [name EXCEPT ![id] = n] /\ renamed' = renamed \union {id}
    /\ UNCHANGED <<nodes, up, created, loop, fresh, arrived>>

-----------------------------------------------------------------------------
(* The OTLP receiver.                                                      *)

ReceiveOTLP(n) ==
    /\ Put(n, OTLP)
    /\ fresh' = fresh \union {n}
    /\ arrived' = arrived \union {id \in IDs : task[id] = "put" /\ listed[id] = n}
    /\ UNCHANGED <<docker, loop>>

GrowOld(n) ==
    /\ n \in fresh /\ fresh' = fresh \ {n}
    /\ UNCHANGED <<nodes, docker, loop, arrived>>

-----------------------------------------------------------------------------
(* The collector.                                                          *)

\* ListContainers returns what runs; infrastructure is filtered out.
Listing == [id \in IDs |-> IF id \in up /\ name[id] \in NodeIDs THEN name[id] ELSE NoName]
Found == {id \in IDs : Listing[id] # NoName}

\* The tick: names are noted, new containers get a baseline, and one goroutine
\* per container is started.
List ==
    /\ pc = "wait"
    /\ listed' = Listing
    /\ idToName' = [id \in IDs |-> IF id \in Found THEN Listing[id] ELSE idToName[id]]
    /\ baseline' = [id \in IDs |->
           IF id \in Found /\ baseline[id] = "none" THEN "new" ELSE baseline[id]]
    /\ task' = [id \in IDs |-> IF id \in Found THEN "fetch" ELSE "done"]
    /\ pc' = "collect"
    /\ UNCHANGED <<nodes, docker, failures, fresh, arrived>>

\* Mutant of ListFails: a daemon that cannot be listed ends the loop.
ListFailsForGood ==
    /\ pc = "wait" /\ failures < MaxFailures
    /\ failures' = failures + 1 /\ pc' = "stopped"
    /\ UNCHANGED <<nodes, docker, listed, baseline, idToName, task, fresh, arrived>>

\* The daemon cannot be listed: this tick is skipped.
ListFails ==
    /\ pc = "wait" /\ failures < MaxFailures
    /\ failures' = failures + 1
    /\ UNCHANGED <<nodes, docker, pc, listed, baseline, idToName, task, fresh, arrived>>

\* A step of a goroutine that touches no store.
Goto(id, to) ==
    /\ task' = [task EXCEPT ![id] = to]
    /\ UNCHANGED <<nodes, docker, pc, listed, idToName, failures, fresh>>

\* No answer, or one without CPU time (a container that stopped).
FetchFails(id) ==
    /\ task[id] = "fetch"
    /\ Goto(id, "done") /\ UNCHANGED <<baseline, arrived>>

\* Mutant of Fetch: the first counters are taken for a difference.
FetchAtOnce(id) ==
    /\ task[id] = "fetch" /\ id \in up
    /\ baseline' = [baseline EXCEPT ![id] = "primed"]
    /\ Goto(id, "check") /\ UNCHANGED arrived

\* Counters need a second point: the first ones only prime the baseline.
Fetch(id) ==
    /\ task[id] = "fetch" /\ id \in up
    /\ baseline' = [baseline EXCEPT ![id] = "primed"]
    /\ Goto(id, IF baseline[id] = "primed" THEN "check" ELSE "done")
    /\ UNCHANGED arrived

FreshOTLP(n) == HasLatest(n) /\ GetLatestSample(n) = OTLP /\ n \in fresh

\* Mutant of Check: OTLP data is not given precedence.
CheckNothing(id) ==
    /\ task[id] = "check"
    /\ Goto(id, "put")
    /\ UNCHANGED <<baseline, arrived>>

\* A fresh OTLP sample is better than anything Docker can add.
Check(id) ==
    /\ task[id] = "check"
    /\ Goto(id, IF FreshOTLP(listed[id]) THEN "done" ELSE "put")
    /\ UNCHANGED <<baseline, arrived>>

PutSample(id) ==
    /\ task[id] = "put"
    /\ Put(listed[id], id)
    /\ arrived' = arrived \ {id}
    /\ task' = [task EXCEPT ![id] = "done"]
    /\ UNCHANGED <<docker, pc, listed, baseline, idToName, failures, fresh>>

Dead == {id \in IDs : baseline[id] # "none" /\ listed[id] = NoName}
DeadNames == {idToName[id] : id \in Dead}

Collected == pc = "collect" /\ \A id \in IDs : task[id] = "done"

\* What an eviction leaves of the collector's own state.
Dropped ==
    /\ baseline' = [id \in IDs |-> IF id \in Dead THEN "none" ELSE baseline[id]]
    /\ idToName' = [id \in IDs |-> IF id \in Dead THEN NoName ELSE idToName[id]]
    /\ pc' = "wait" /\ listed' = Nameless
    /\ UNCHANGED <<docker, task, failures, arrived>>

\* Mutant of Evict: the name is deleted before it is looked up.
EvictNameless == Collected /\ Dropped /\ UNCHANGED <<nodes, fresh>>

\* Once every goroutine is done: tracked containers that were not listed go,
\* and the store forgets their names.
Evict ==
    /\ Collected /\ Dropped
    /\ nodes' = [n \in NodeIDs |-> IF n \in DeadNames THEN << >> ELSE nodes[n]]
    /\ fresh' = fresh \ DeadNames

Collect(id) == Fetch(id) \/ FetchFails(id) \/ Check(id) \/ PutSample(id)
Poll == List \/ ListFails \/ Evict \/ \E id \in IDs : Collect(id)

Next ==
    \/ Poll
    \/ \E id \in IDs :
         \/ StartOrStop(id) \/ Destroy(id)
         \/ \E n \in Names : Create(id, n) \/ Rename(id, n)
    \/ \E n \in NodeIDs : ReceiveOTLP(n) \/ GrowOld(n)

\* The ticker keeps firing and every Docker call ends within its timeout, so
\* the loop keeps going; nothing else has to happen.
Spec == Init /\ [][Next]_vars /\ WF_vars(Poll)

-----------------------------------------------------------------------------
Tracked == {id \in IDs : baseline[id] # "none"}

\* One type invariant: what is tracked can be evicted, and a poll collects
\* only containers it tracks under the name it listed.
TypeOK ==
    /\ nodes \in [NodeIDs -> Seq(Samples)]
    /\ pc \in {"wait", "collect"} /\ failures \in 0..MaxFailures
    /\ name \in [IDs -> Names \union {NoName}] /\ up \subseteq created
    /\ baseline \in [IDs -> {"none", "new", "primed"}]
    /\ task \in [IDs -> {"done", "fetch", "check", "put"}]
    /\ \A id \in IDs : (id \in Tracked) <=> (idToName[id] \in NodeIDs)
    /\ \A id \in IDs : listed[id] # NoName => id \in Tracked /\ idToName[id] = listed[id]

\* "Evict stale baselines and completely remove their data from the store":
\* Docker samples in the store belong to a container that is tracked under
\* that name, unless the container was renamed while it was tracked (the old
\* name is then forgotten, and its data stays).
OrphansOnlyAfterRename ==
    \A n \in NodeIDs : \A i \in DOMAIN nodes[n] :
        nodes[n][i] # OTLP =>
            nodes[n][i] \in renamed \/ idToName[nodes[n][i]] = n

\* A container that takes over the name of one that is gone (a redeployment)
\* loses no sample to the eviction of its predecessor: when its first sample
\* is recorded the predecessor has been evicted.
SuccessorKeepsItsData ==
    [][\A n \in NodeIDs : \A i \in DOMAIN nodes[n] :
          nodes'[n] = << >> /\ nodes[n][i] # OTLP =>
              nodes[n][i] \in Dead \union renamed]_vars

\* OTLP over Docker: a Docker sample is recorded on top of a fresh OTLP sample
\* only if that one arrived after the goroutine had looked.
FreshOTLPWins ==
    [][\A id \in IDs :
          task[id] = "put" /\ task'[id] = "done" /\ FreshOTLP(listed[id]) =>
              id \in arrived]_vars

\* A container that stays away is dropped, though listings fail now and then.
DeadIsDropped ==
    \A id \in IDs : id \in Tracked /\ id \notin up ~> id \notin Tracked \/ id \in up
=============================================================================
