# A verification project for the causal inference engine

The program (Go) receives queue metrics of services, runs a five-phase analysis
that names the root cause of a degradation, passes the result through a safety
gate and publishes a decision: an explanation, an operational state and, when
the gate allows it, actions. This directory models the parts of it that keep
state or decide something, checks them with TLC and proves the most important
results with TLAPS. Paths below are relative to `src/`.

## Inventory

| Part | State | Operations | What makes it correct |
|---|---|---|---|
| Metrics store (`pkg/metricsstore`) | per node a window of the newest samples | Put, seven readers, RemoveNode | the window is exactly the newest samples; readiness tells the truth |
| Analysis (`pkg/orchestrator/pipeline.go`) | what it has read so far | one long read of the store, phases 1 to 5 | the dataset is consistent although writers run between its reads; it always ends with an answer |
| Safety gate (`pkg/orchestrator/safety.go`, `phase5_insight`, `pkg/confidence`) | none | latent risk, score, fallback gates, decision | no action and no automation on untrusted evidence |
| Failure semantics (`pkg/orchestrator/failure_semantics.go`) | none | category, state, remediation | never reassuring when the gate is not |
| Decision endpoints (`pkg/api`) | three cached globals | /analyze /explain /act /semantics /explore | what is published together belongs together |
| Prior ranking and profiles (`pipeline.go`, `pkg/adaptive`) | last ranking, running statistics | read, replace, observe, evaluate | a flip of the ranking is seen and judged |
| Rate limiter (`pkg/api/handlers.go`) | token buckets | allowIP, cleanup | the rate holds in every stretch of time, and nothing is refused without need |
| Cache (`pkg/cache`) | list and map | Get, Set, Delete, Clear | keeps the recently used; never stale |
| Calibration store (`pkg/confidence`) | feedback records, weights, RWMutex | feedback, report | a report describes one moment and is returned |
| Docker collector (`pkg/autodetect`) | baselines, id-to-name map | poll every tick | the store follows the containers |
| Phase 1 (`phase1_signal`) | buffered ticks, pool of processors, each with a channel, a worker and a window | aggregate, flush, evict, process, read | a window is gapless and ends with the newest sample; nothing is lost within the limits |
| Phase 2 (`phase2_pattern`) | memory of a node: its last observations | build, update, put back | no observation lost |
| Phase 3 (`phase3_causal`) | the causal graph, hypotheses | discover, enrich, intervene, explore, resolve, filter, infer | no edge dropped by accident; d-separation is the textbook's, an adjustment set is valid; a hypothesis leads to its target |
| Phases 4 and 5 (`phase4_explanation`, `phase5_insight`, `pkg/evidence`, `pkg/topology`) | the explanation, roles of the causes, chain, simulation | explain, fuse, chain, what-if | parts computed by different packages agree with each other and with the graph |
| Policy store (`pkg/policy`) | a file for each target | load, save | a crash leaves the old or the new file; training accumulates |
| Configuration (`pkg/config`) | environment, `.env`, current configuration | load, watch | an edit of `.env` reaches a running process (it does not, see the disagreements) |
| Server process (`main.go`, `StartServer`) | up, draining or down; requests in flight | start, serve, drain, exit, crash | what survives it is whole |

Interaction. Collector, /ingest and the OTLP receiver write the metrics store
while analyses read it call by call; every HTTP request is a goroutine, so
analyses overlap and share the store, the caches, the adaptive profiles and the
cached semantics. Each of these has its own lock and no lock spans two calls.
That is where the hard behaviours are: data that changes between two reads
(store, prior ranking, statistics), results published in a different order than
they were computed (cached semantics), a read lock taken twice (calibration),
an eviction in the middle of a use (store, cache, buckets, processors), state
that overlapping analyses take, change and put back (memories of nodes, policy
files), and a process that is drained or dies in between. The other hard part is
a decision that several packages compute independently (gate, decision FSM,
failure semantics, the hand-written local path; two searches for the root, two
choices of an adjustment set, two path searches).

`PROJECT.json` lists every part with its status and every hazard with its line.

## Modules

| Module | Models | State and actions |
|---|---|---|
| `MetricsStore` | the store's methods | `nodes`; operators used by the two modules below and by `Collector` |
| `StoreWindow` | the store under any sequence of calls | `PutSample`, `Remove`, with the accepted samples as history; checked as a part of `StoreAnalysis`, which extends it |
| `StoreAnalysis` | one analysis reading the store, with concurrent writers | one action per store call of `ExecuteFullPipelineFromStore`; `Write`, `Evict` in between |
| `SafetyGate` | levels, penalties, weights, thresholds, five gates, decision FSM | operators on evidence |
| `FailureSemantics` | category, operational state, remediation | operators on a gate result and load facts |
| `SafetyApi`, `MCSafetyApi` | the endpoints on top of both | `Arrive`, `PipelineError`, `Explain`, `Act`; `Analyze`, `CacheNarrative`, `CacheTitle` for the three globals written under their mutex; `Poll` |
| `LatentGuard` | ranking history and the adaptive threshold of the instability channel | one action per lock of an analysis: read prior, replace it, observe, read count, mean, deviation |
| `RateLimiter` | token buckets with a clock | `Tick`, `Allow`, `Refuse`, `Cleanup` |
| `CacheStore` | the cache interface, as an abstract specification | may forget any other key |
| `MemoryLRU` | the LRU cache, which refines `CacheStore` (its history of what was set last is the interface's state) | `Get`, `Set`, `Delete`, `Clear` |
| `Collector` | the Docker poll loop on the metrics store | `List`, per container `Fetch`, `Check`, `PutSample`, then `Evict`; containers that start, stop, go and are renamed; `ReceiveOTLP` |
| `CalibrationStore`, `MCCalibrationStore` | feedback and report under a Go RWMutex | one action per lock operation; a record without a bin makes the report panic |
| `SignalProcessor` | one processor of phase 1: what its window accepts, fills, drops and trims, and its matrix column | operators on a processor's state |
| `SignalPhase` | phase 1 of one analysis on top of it | `AddSamples`, `FlushGroup` in any order, `FlushEnds`, `Work` of each worker, `ReadState`, `ReadColumn` |
| `TemporalMemory` | the memory of a node in the LRU cache | `GetMemory`, `UpdateMemory`, `SetMemory`, `MemoryCrash` |
| `PolicyStore` | policy files with their temporaries | `SaveBegins`, `SaveWritten`, `SaveFails`, `SaveRenamed`, `SaveNotRenamed`, `PolicyCrash` |
| `ConfigWatch` | one setting: container, environment, `.env`, configuration; no property but its types | `ConfigStart`, `ConfigPoll`, `EditDotenv`, `ConfigDown` |
| `ServerProcess`, `MCServerProcess` | the life of the process around the three modules above | `Start`, `Arrive` and the steps of an analysis, `Terminate`, `Drained`, `GraceOver`, `Crash` |
| `CausalGraph` | ancestry, d-separation, adjustment sets, depths | operators on a set of edges |
| `CausalDiscovery` | what happens to an edge from the tests to the pruning, in per mille | operators on a graph with probabilities |
| `CausalHypotheses` | hypotheses for a target, filter, roots of queue physics | operators |
| `CausalExplanation` | selection of causes, fusion, evidence chain, simulation | operators |
| `CausalPhases`, `MCCausalPhases` | phases 3 to 5 of one analysis on top of the four modules above | one action per call that decides something, with every early return |
| `*_proofs` | theorems about the module of that name; `StoreAnalysis_proofs` also about `StoreWindow`, `ApiState_proofs` about `RateLimiter` and `CalibrationStore`, `Process_proofs` about `ServerProcess` with what it is built from and about `SignalPhase`, `CausalPhases_proofs` also about `CausalGraph` and the three modules that use it | |

## Abstractions and bounds

* Scores are percentages and the Monte Carlo mean is a bounded spread around the
  weighted mean; the four risk channels are evidence values on a grid that has a
  point on each side of every threshold the code compares with. Evidence is
  restricted to what the explanation can produce: causes are ancestors of the
  target with an effect, so the correlation channel is 0 and the role score is 0
  or 100.
* Samples, rankings, node names and values are model values; a sample is valid
  or not. A ranking has at most two causes in `LatentGuard`, for which the
  instability is 0 or 1 and the running statistics are two counters (`MaxObs`,
  at most 26, keeps the outlier clamp out of reach). The run warms up after
  three observations and has twelve, enough for a flip that is less than a tenth
  of them; the code warms up after ten.
* `RateLimiter` counts time in refilled units (`Cost` per token), so that a
  bucket holds fractions of a token. `MaxTime` 7 is long enough to empty, refill
  and evict a bucket of two tokens twice.
* `MemoryLRU` is checked with four keys and room for three: one key more than
  fits is enough for every eviction.
* `CalibrationStore` with two reports and two feedbacks contains every pattern
  of one writer waiting, one behind it, and readers in front and behind. The
  confidences are integers in tenths (the code takes any number): one in the
  middle of the bins, one at their upper edge, and a negative one, which has no
  bin. A feedback has all four components or not; only with them it trains.
* `Collector` has two containers and two names, which is what taking over a name
  takes, a window of one sample (sliding is the subject of `StoreWindow`), one
  rename and one failed listing. Time is reduced to the one question the code
  asks of it, whether the newest OTLP sample is under 15 seconds old. Samples of
  /ingest are left out: the collector treats them like its own. What is promised
  of a successor (`SuccessorKeepsItsData`) does not extend to a renamed container.
* `SafetyApi` has two callers and two requests: the only state requests share is
  the cache of three globals, and two writers are what mixing them takes. A
  percent stands for the scores up to the next one, so a score can be rounded up
  to the threshold it is still below. Actions are there or not: which ones and in
  what order is the policy's.
* `SignalPhase` has two nodes and pools of one and two processors, so that the
  pool is too small or just large enough; a channel of two is too small for some
  series and large enough for others (1000 in the code, above the window of the
  store). Three ticks are what a gap, a late point and a repeated one take.
  Values and what is computed from them are left out; a point is known by its
  tick and its sample. The store is read a second time after the dataset is
  built, so the rows of the matrix and the samples of a node are chosen
  independently, a node that is gone by then included.
* `ServerProcess` has two analyses that may overlap, follow each other in one
  life of the process or in two, three targets of which two share a path, caches
  and memories of one and two entries (so that they are full with the second),
  two shapes of weights, and a setting that is absent or present.
* `CausalPhases` enumerates every graph of four services with at most four edges
  (up to renaming), cycles and edges in both directions included: four edges are
  what a confounder with a mediator, a collider with a descendant, and two
  disjoint paths take. One more service is in the dataset but kept out of the
  graph. Probabilities are in per mille. Whether an edge was measured or only
  seen in a trace, every effect weak or none, every intervention valid or none,
  which nodes are under pressure and which effects vanish are chosen by the
  actions; traces are 14 or 15 minutes old, on both sides of the limit 0.8 of
  their prior. At most two causes are taken (five in the code), so that the
  truncation happens with four services. At most one service (`MaxFlat`) has a
  series whose correlations can be no number: of a constant series the variance
  under the root can round below zero (`pcmci.go:65`), which the model has happen
  to exactly one of two constant series. `NaN` is a value no comparison holds of.
  At most one edge is known from a trace alone (`MaxTraced`): what happens to an
  edge on the way depends on its own probability and strength; the theorems are
  for any number.
  Where the code takes the first of
  several equally good sets or paths in the order of a map, every one is allowed.
* `MaxSteps`, `MaxObs`, `MaxTime` and the arrival bounds of the store modules
  only bound the state space; no property mentions them.

Deadlock checking is off in the runs whose bounded system may stop.

Type invariants. `SignalPhase` and `ServerProcess` have theirs in their run as
well, because they hold a bound that the code must work for (pool, cache, memory,
one saver). Those of all modules with variables are theorems (below), except
`CausalPhases`, whose properties fix the shape of every result.

## Fairness

`StoreAnalysis`, `SignalPhase`, `CalibrationStore` and `Collector` state
liveness. The first three assume weak fairness of the goroutine of a request,
`SignalPhase` also of every worker: the Go scheduler runs a runnable goroutine,
and a request is runnable between two calls. `Collector` assumes weak fairness
of the poll loop: its ticker fires and every Docker call ends, at the latest
with the client's timeout of ten seconds. Writers, clients, containers and the
clock have no fairness: nobody has to send anything.

## Runs

| Run | Question | Answer |
|---|---|---|
| `store_analysis` | is a window the newest samples; what can an analysis read while writers run, and does it end | yes; points in arrival order; faults only after an eviction; always answered |
| `signal_phase` | what can a window and the matrix hold, whatever order the ticks are flushed in, and does the phase end | gapless windows; the newest sample unless the worker is behind, refused or evicted; nothing refused or evicted within the limits; yes |
| `causal_phases` | are separation and adjustment right, and what can hypotheses, roots, roles and chain say about each other and about the root the answer names | separation is right and adjustment valid on every acyclic graph; they agree on acyclic graphs, with gaps in the chain; no edge with a strength is lost |
| `safety_decisions` | when does /act hand out actions, when are automation and reassuring states published, and can a poll mix two analyses | only behind the gates modelled; automation only when confirmed, never under HIGH risk; no |
| `latent_guard` | when is a changed ranking seen, and what does it take for gate 5 to pass over one | for a lone analysis always seen; whatever overlaps, only a warm profile of which a tenth was unstable |
| `server_process` | what survives failures, crashes, a forced exit and overlapping analyses in policy files and memories | files are whole; training and observations are lost only to an overlap, a full memory or cache, or another shape |
| `collector` | does the store follow the containers | yes, but the data of a renamed container stays under its old name; a successor loses nothing; OTLP is only overtaken by a race |
| `rate_limiter` | what passes in a stretch of time, and is a refusal needed | burst plus rate times time, and yes |
| `memory_lru` | what is kept, is a hit current, is the interface implemented | the recently used; yes; yes |
| `calibration` | is a report of one moment, do the scores agree, how can it hang | yes; yes, when every record has a bin; only by re-entering the read lock |

Each of the following runs checks one statement of a comment in the code, which
TLC refutes with a trace; `PROJECT.json` quotes the comments under `findings`.

| Run | Claim | What happens |
|---|---|---|
| `store_analysis_panics` | missing data gives an error (`pipeline.go:217`) | a panic on an empty series |
| `calibration_deadlock` | the report is returned (`handlers.go:475`) | a feedback in between stops both for good |

Every property of the passing runs has a mutant, a plausible bug in one mapped
definition that breaks it.

## Other disagreements met while modelling

The models contain these; no run is spent on them, and no property of a passing
run states one of them as if it were intended. In the first nine the code does
not do what a comment beside it says, and TLC shows each on the model it is in
(`SafetyApi`, `LatentGuard`, `CalibrationStore`, `ServerProcess`, `CausalPhases`)
when the comment is taken for an invariant.

* `unknown_fallback.go:91`: "When IsUnknown is true, no automated action may be
  taken". `narrative_fsm.go:48` grants the permission by score and risk alone and
  uses the fallback for the wording only; a closed variance gate leaves both
  standing. What holds is `AutomationIsConfirmed`.
* `narrative_fsm.go:35`: "No other function should independently produce
  OperationalState". /semantics shows the state of `BuildFailureSemantics`
  (`explore_handler.go:81`), which can differ from that of the /analyze answer.
* `unknown_fallback.go:171`: "repeated instability in cause ranking [...] is
  unacceptable". `latent_guard.go:132` adds the instability to the profile it is
  compared with: after the ten observations of the default warm-up the second
  flip among eleven analyses passes gate 5. `RareFlipFires` says how far this
  goes: never below a tenth.
* `handlers.go:475`: the report "returns the full diagnostic report".
  `FeedbackHandler` takes any confidence; a negative one has no bin, and
  `ComputeECE` panics (`calibration_store.go:102`) until the record is replaced.
  This is why `ScoresAgree` asks for a bin.
* `config.go:163` and `main.go:96`: an edit of `.env` updates the running
  configuration. `loadEnv` (`config.go:276`) sets a variable only where it is
  empty, and the first load has filled it.
* `causal_enricher.go:55` and `d_separation.go:45`: the adjustment set is minimal,
  each member a confounder. The shrink (`d_separation.go:62`) asks whether the ends
  of an edge are separated, which they never are, so all parents of the source
  that are not below it stay: P in P -> X -> Y. It is valid (`AdjustmentIsValid`).
* `chain.go:22`: "the complete chronological spread". A link with an end that has
  no sample by then is skipped (`chain.go:56`). `ChainIsReal` says what is left.
* `pcmci.go:151`: a traced edge is boosted so that it is not dropped. Its
  correlation is no number when rounding takes the variance of a constant series
  below zero (`pcmci.go:65`); `pcmci.go:154` keeps that, `filterStrongEdges` drops
  the edge and `pruneWeakCausalEdges` keeps it. `GraphIsKept` is about the edges
  with a strength.
* `safety.go:31`: no answer without `RunSafetyGate`. `finishWithLocalPhysicsRoot`
  (`pipeline.go:891`) writes the report by hand and advises an action.
* A score of 0.7495 is rounded to 0.75 for the label (`failure_semantics.go:269`,
  `explore_handler.go:87`) but not for the title (`handlers.go:884`): the same
  analysis can be labelled "Confident" and not be titled as confirmed. The other
  direction is excluded (`PollIsOneAnalysis`).
* /analyze counts actions and shows the what-if, the safest action and a
  remediation whatever the gate says (`handlers.go:898`, `:916`). Only /act
  withholds; `HighRiskHalts` says what reaches which endpoint.
* When the explanation is empty the answer still names a root
  (`pipeline.go:683`, `handlers.go:931`), next to a closed gate;
  `RootLeadsToTarget` includes it.
* A node evicted after the dataset was built is analysed in phase 3 with a
  constant state (`pkg/orchestrator/pipeline.go:463`), though the comment at
  `:217` rules out substituted data. In `StoreAnalysis` this is `synthetic`.
* HIGH latent risk does not force the score below the threshold
  (`confidence_engine.go:216`), as `:121` of the same file says: with an inverted
  but fully explained ranking it stays near 0.47. The state and the flag are
  forced all the same (`HighRiskHalts`).
* Two overlapping analyses of a target read the same prior ranking before either
  replaces it (`pipeline.go:680`), so it is not the "immediately prior" one of
  `latent_guard.go:97`.
* `DOCUMENTATION.md:97` gives the thresholds .50 and .80, the code .45 and .75;
  `:103` has discovery shut down when Docker is unreachable, the code skips the
  tick and goes on.
* The mean and the deviation of a profile are two reads, so an analysis that
  overlaps another one can judge by a pair that never was the profile's.
* `ARCHITECTURE.md:73` calls the pipeline strict and deterministic. The ticks of
  phase 1 are flushed in the order of a map (`aggregator.go:132`) and a processor
  drops what is older than its last point (`signal_matrix.go:231`), so which
  samples survive is random; the workers have 50 ms, which orders nothing.
* A point of a window shares its value slice with the one that is being smoothed
  (`signal_matrix.go:235`), and its derivative is lost with the copy that
  `insert` works on, so the accelerations are always 0. Columns are aligned at
  the right by index, not by tick. A manager's goroutines are never stopped.
* `README.md:14` promises a DAG; `pcmci.go:118` tests every ordered pair by
  itself. The properties that need an acyclic graph say so.
* Both ends of an edge are adjacent, so the first step of `causal_enricher.go:74`
  and `ConfoundedPairs` (`causal_enrichment.go:72`) never see a separated pair.
* `resolveConflicts` (`causal_builder.go:200`) "prefers shorter path"; it compares
  scores only. On an acyclic graph the root of a reverse hypothesis is never an
  ancestor of the target, so the fusion rejects it.
* `mostDownstreamNode` (`pipeline.go:1305`) counts services that are kept out of
  the graph, which have no outgoing edge and so tend to be the default target;
  such an analysis ends without a hypothesis.
* On a cyclic graph the simulation does not reach every node, and one it does not
  reach reads 0, that is "recovered" (`whatif.go:229`); `explainer.go:51` appends
  such nodes in the order of a map, where its comment says sorted.
* `converters.go:87` sorts parents so that effects are stable between runs;
  `whatif.go:259` collects the inputs of the same functions in the order of the
  edges, which comes from a map.
* The path test of `explainer.go:225` takes a chain for a collider and a collider
  for a chain; the set it chooses is not used by `backdoorAdjustment`.
* OTLP samples are stamped in seconds (`otel_receiver.go:101`), which the evidence
  chain reads as milliseconds (`chain.go:61`). One without a median latency has
  service rate 0, which fails the validation of every analysis while it is in the
  window. A span whose parent came in another request is never linked
  (`otel_receiver.go:210`).
* "no request will be abandoned mid-execution" (`handlers.go:1302`), but the grace
  period ends in `log.Fatalf`, whatever handlers do (`GraceOver`).
* `policy/store.go` does not sync the file before the rename, so "atomically" is
  about a crash of the process, not of the machine. Two targets whose names
  differ in replaced characters share a file, and `WarmstartTrain` asks only for
  the number of weights, not whose they are.
* `ABSIA_RATE_LIMIT_RPS=0` cannot switch the limiter off as `config.go:105` says:
  `getenvInt` takes 0 for the default.

## Proofs

Every type invariant and every safety and action property of the runs is a
theorem.

* `StoreAnalysis_proofs`: for every window size, node and sample set the window
  is the newest `WindowSize` samples accepted since the last removal, and
  readiness is exact (the invariant relates each window to its history). For any
  nodes and arrivals, the dataset is in the order of arrival and an analysis
  fails or makes a state up only when an eviction overtook it. `Ascending` says
  that windows ascend and that what was read so far is not past what the window
  holds at the index read next, which a slide can only raise (`Shifted`).
  `Raced` says that as long as nothing was removed (`Clear`), a node that
  qualified still has its samples.
* `SafetyApi_proofs`: for every evidence and every Monte Carlo outcome, actions
  of /act come only from an analysis behind the five gates, HIGH risk reaches
  every endpoint, automation needs CONFIRMED, and UNKNOWN never comes with a
  reassuring state. The gate's operators are characterised by lemmas (`Sound`),
  and an answer is sound from the moment it is computed (`SoundAnswer`), also
  while its analysis still holds the mutex. That a poll never mixes two analyses:
  what stands in the cache belongs to one of them and agrees with itself, except
  while a writer is inside, and then what is written and what is left to write
  belong together (`Whole`, `CacheInv`). Rounding can only raise a label, so the
  label is never below the title (`PublishedCoherent`).
* `LatentGuard_proofs`: for any number of overlapping analyses and any rankings,
  a flip is seen by an analysis that met no other one (`OwnPrior`: what it read
  is what was published before it, and it is the only one running). That a silent
  gate 5 means a warm profile of which a tenth was unstable is an invariant of
  where an analysis stands (`Judged`) and of the profile only ever growing
  (`MeansAreOld`), with arithmetic for any number of observations (`RareExceeds`:
  a flip is above the mean by three deviations while fewer than a tenth of the
  observations were one, also when the deviation is of a later profile).
* `ApiState_proofs`, rate limiter: `WindowBound` is not inductive: it says nothing
  of the tokens a bucket holds. `Exact` does: the level of a bucket is the
  tightest of what each stretch of grants that ends now has left, or the
  capacity. From one inequality follows the bound, from the other that no refusal
  was needless. The only assumption beyond types is that five minutes refill a
  bucket.
* `ApiState_proofs`, calibration store: for any number of reports and feedbacks
  the parts of a report are of one moment. The invariant says that the locks a
  goroutine holds are those of the step it is at (`Holds`), that readers and
  writer exclude each other (`Exclusion`), so that what a report has in hand is
  still what the store holds (`OneMoment`): the records are the last feedback for
  each prediction (`AreLast`), the weights are trained on those that name every
  component (`TrainedBy`). That the two scores agree holds of any finite set of
  records whose confidences have a bin: one record more moves the gap of one bin by no more than its own miss
  (`GapMoves`, `OffMoves`), and an error that is at most the root of the number of
  records times the sum of squares stays so when a miss is added to one and its
  square to the other (`Growth`). The induction over the records goes by the set
  of the subsets of which it holds (`Growing`), so it stays first-order; the
  lemmas in front of it say that a library sum does not depend on the order in
  which `CHOOSE` takes the elements (`SumFacts`, `AddsAny`).
* `MemoryLRU_proofs`: the invariant says that what stands in front of a key in
  the list was used after it (`Ordered`), so a key pushed off a full list has
  seen as many other keys as the capacity (`PushedOut`), by counting. With it
  each step is a step of `CacheStore`; that a hit answers with the value set
  last is where `NeverStale` is needed.
* `Collector_proofs`: for any containers, names, renames and failures, no orphans
  without a rename, and no loss for a successor. The invariant says that between
  polls the tracked names are distinct (`Waiting`), and during a poll that a
  listed container with the name of a dead one was not tracked before, so its
  first counters only prime its baseline (`Succeeding`).
* `Process_proofs`, server process, for any number of requests, targets, nodes
  and sizes of cache and memory. Files: whoever writes or renames holds the lock,
  and what is renamed is what was trained (`Locked`). Training: `Past` says that a
  request that was over when another arrived is done with its file and its
  memory. The file of a saved policy has the shape of one that was saved in it
  (`Writers`), so a request about to save goes on with the training of every
  earlier one of its shape (`Loaded`), unless a later save overlapped that one,
  had another shape or read no file (`Covered`). Observations: a memory holds an observation and from
  there on nothing older, or is full without anything older (`Holds`), which is
  the same for the memory a request works on (`Remembering`) and the one the
  cache holds (`Caching`), or these are of two overlapping requests (`Sharing`).
  The run has two requests. That an observation is missing from a memory which
  later requests took over from an overlapping one takes more of them; the
  theorem covers any number.
* `Process_proofs`, phase 1, for any nodes, samples, ticks and limits. A window is
  a gapless run of ticks up to the last real point (`Contiguous`), because what
  an input adds follows it and trimming takes from the front. The newest sample
  of a node that lost nothing is in its buffer, its channel or its window, and
  nothing after it is (`Sent`, `Delivered`), so the column ends with it when all
  are empty (`Flushed`, `Columned`). Nothing is lost within the limits because
  what is buffered and what is in the channel are together no more than the
  series (`Counted`) and the pool has room for every node (`NoEviction`).
* `CausalPhases_proofs`, for any finite set of services, any graph the discovery
  may find and any choice of the calls that follow. `Graphed` bounds the
  probabilities by what each phase leaves of them (`Weighed`, `Floor`) and says
  that a strength is enough for the filter or no number (`Passes`), `Awaiting`
  says what is still empty at each step, and `Analysed` what the results are of.
  The rest is about graphs. A closure computed in as many rounds as there are
  nodes is the least closed set, by counting (`Settles`), and so is what the
  walks of d-separation find (`Found`). Depths exist on an acyclic graph: the
  largest ancestor-closed set with depths has all nodes. Resolving conflicts
  leaves every source an edge, from which a hypothesis leads to its target
  (`LeadsOn`); the roots of queue physics and of the fusion are both the
  parentless nodes above the target (`Origins`); the search for a chain finds one
  if there is one, because the simple paths found in rounds end in a closed set,
  and what is left of a path by skipping links still runs along it
  (`ChainedReaches`); the root that is named is one of those parentless nodes
  (`NamedRootsLead`).
  d-separation: every state of a walk is connected in the moral graph to its
  start (`Keeps`); conversely the kept nodes the walk visits are closed under the
  moral edges, because a collider whose descendants are not conditioned on is
  above an end (`VisitsAbove`, `AvoidsAbove`). The two ends of an edge are never
  separated, so an adjustment set is all the parents but the target, which cut
  the source off once its own edges are cut (`BackdoorFacts`); the theorem says
  no more than that it is valid.

Assumptions on constants are the named ASSUMEs of the modules, which TLC
evaluates in every run.

Model-checked only: liveness (`Answered`, `PhaseEnds`, `HangsOnlyByReentry`,
`DeadIsDropped`), which is outside the prover.

## Not modelled

* The formulas of phases 2 to 4 (spectra, partial correlations, queue models,
  effect estimates, fitted weights) are real arithmetic; what they decide is
  chosen by an action or enters as evidence, and the numbers that are only
  reported are left out. So are the learning loop of the agent and the ranking of
  its actions.
* `probability_engine.go`, `queue_models.go` and `conformal.go` are not called by
  the pipeline or a handler; the endpoint poller (`NewPoller`), the redis cache
  and the data generator are not used by the running program.
* JSON, CSV, CORS, authentication, the UI, the logger, telemetry and the docker
  client keep no state the properties are about. Utilisation formulas
  (`pkg/signals`) are about one container.
* The eviction of processors by age: a manager lives for one analysis, which is
  much shorter than the age.
* The service graph learnt from traces enters as the age of an edge; that it is
  learnt once per span is not modelled.
* That every analysis leaves a manager with its goroutines behind: nothing in the
  repository promises otherwise, so there is no property to state.

## Plan

What is left, most important first:

1. That the phases of an analysis in `StoreAnalysis` and `CausalPhases` are steps
   of one abstract analysis that always ends with an answer.
2. A module for the topology learnt from traces and the linking of spans.
3. The other three channels of the latent guard with their history.
