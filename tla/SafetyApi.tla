------------------------------ MODULE SafetyApi -----------------------------
(***************************************************************************)
(* The endpoints that publish the outcome of an analysis (pkg/api):        *)
(* /analyze, /explain, /act, /semantics and /explore.  Requests run        *)
(* concurrently.  They share one thing, what the last /analyze to finish   *)
(* said, three globals under a mutex.  A request is an arrival, which      *)
(* takes a ticket, and one step that runs the pipeline and answers;        *)
(* /analyze then takes the mutex and writes the globals one at a time.     *)
(***************************************************************************)
EXTENDS SafetyGate, FailureSemantics

CONSTANTS
    Clients,       \* concurrent callers
    MaxRequests    \* bound on the requests ever made

ASSUME ApiAssumption == MaxRequests \in Nat

VARIABLES
    ticket,     \* ticket[c]: number of c's request in progress, 0 when none
    op,         \* op[c]: the endpoint c called, "none" between requests
    issued,     \* requests made so far
    response,   \* the last answer of an endpoint that runs the pipeline, until
                \* an /analyze has its own ready
    cached,     \* the three globals, and by: whose analysis wrote each one
    writer,     \* the analysis inside cacheSemantics, with what it has left to write
    polled      \* the last answer of /semantics

vars == <<ticket, op, issued, response, cached, writer, polled>>

Ops == {"analyze", "explain", "act"}
Parts == {"sem", "narrative", "title"}

NoResponse == [op |-> "none"]
NoWriter == [ticket |-> 0]

\* Nothing cached yet: SemanticsHandler answers that it is waiting.
NoSemantics ==
    [sem |-> [state |-> "UNKNOWN", label |-> "Not sure yet", remedy |-> "none", unknown |-> TRUE],
     narrative |-> "review", title |-> "waiting", by |-> [part \in Parts |-> 0]]

Init ==
    /\ ticket = [c \in Clients |-> 0]
    /\ op = [c \in Clients |-> "none"]
    /\ issued = 0
    /\ response = NoResponse
    /\ cached = NoSemantics /\ writer = NoWriter
    /\ polled = NoSemantics

\* The end of a request, whatever it answered.
Finish(c) ==
    /\ ticket' = [ticket EXCEPT ![c] = 0]
    /\ op' = [op EXCEPT ![c] = "none"]
    /\ UNCHANGED <<issued, polled>>

Arrive(c, o) ==
    /\ ticket[c] = 0 /\ issued < MaxRequests
    /\ issued' = issued + 1
    /\ ticket' = [ticket EXCEPT ![c] = issued + 1]
    /\ op' = [op EXCEPT ![c] = o]
    /\ UNCHANGED <<response, cached, writer, polled>>

\* The request has not reached cacheSemantics yet.
Running(c) == ticket[c] # 0 /\ writer.ticket # ticket[c]

\* runPipeline fails (no data, invalid data): an error and nothing else.
PipelineError(c) ==
    /\ Running(c)
    /\ Finish(c)
    /\ UNCHANGED <<response, cached, writer>>

\* confidenceStateLabel
Label(score) ==
    IF score >= 75 THEN "Confident" ELSE IF score >= 45 THEN "Needs review" ELSE "Not sure yet"

\* round3 on a score: a percent s stands for the scores from s up to s + 1,
\* and only those next to s + 1 are rounded up to it.
Rounded(score) == {score, IF score < 100 THEN score + 1 ELSE score}

\* GenerateDecision's ConfidenceNarrative: services without telemetry, then
\* the fallback, then the score.
Narrative(r, gap) ==
    IF gap THEN "gap" ELSE IF r.unknown \/ r.score < 75 THEN "review" ELSE "automation permitted"

\* The facts behind an analysis: one that stopped before phase 3 kept its
\* graph has none.  An empty gate can also follow a failed conversion later.
FactsOf(r) ==
    CASE r.path = "full" -> Facts
      [] r.path = "local" -> NoGraphFacts
      [] OTHER -> Facts \union NoGraphFacts

\* What an analysis with gate result r and facts f publishes, n being its score
\* rounded: the three parts for the cache, and the answer.  The label is of the
\* rounded score, the title of the score itself.  The answer carries whatever the
\* pipeline advised (actions counted, what-if, safest action, remediation): no
\* gate is asked.
Published(r, f, n, gap) ==
    [sem |-> [state |-> OperationalState(r, f), label |-> Label(n),
              remedy |-> Remediation(r, f), unknown |-> r.unknown],
     narrative |-> Narrative(r, gap),
     title |-> DecisionTitle(r.score, f.dyn),
     answer |-> [op |-> "analyze", ticket |-> 0, result |-> r, actions |-> r.path = "full",
                 advice |-> r.path \in {"full", "local"}, remedy |-> Remediation(r, f),
                 state |-> DecisionState(r.score, r.level, f.dyn),
                 automation |-> AutomationPermission(r.score, r.level)]]

Publications ==
    UNION {{Published(r, f, n, gap) : f \in FactsOf(r), n \in Rounded(r.score), gap \in BOOLEAN}
             : r \in SafetyResults}

\* AnalyzeHandler: the semantics, the decision, then cacheSemantics, which takes
\* globalSemanticsMu and writes the first of the three globals.
Analyze(c) ==
    /\ Running(c) /\ op[c] = "analyze" /\ writer = NoWriter
    /\ \E p \in Publications :
         /\ cached' = [cached EXCEPT !.sem = p.sem, !.by["sem"] = ticket[c]]
         /\ writer' = [ticket |-> ticket[c], next |-> "narrative", narrative |-> p.narrative,
                       title |-> p.title, answer |-> [p.answer EXCEPT !.ticket = ticket[c]]]
    /\ response' = NoResponse
    /\ UNCHANGED <<ticket, op, issued, polled>>

CacheNarrative(c) ==
    /\ ticket[c] # 0 /\ writer.ticket = ticket[c] /\ writer.next = "narrative"
    /\ cached' = [cached EXCEPT !.narrative = writer.narrative, !.by["narrative"] = ticket[c]]
    /\ writer' = [writer EXCEPT !.next = "title"]
    /\ UNCHANGED <<ticket, op, issued, response, polled>>

\* The last global, the unlock, and the answer.
CacheTitle(c) ==
    /\ ticket[c] # 0 /\ writer.ticket = ticket[c] /\ writer.next = "title"
    /\ cached' = [cached EXCEPT !.title = writer.title, !.by["title"] = ticket[c]]
    /\ response' = writer.answer
    /\ writer' = NoWriter
    /\ Finish(c)

\* ExplainHandler publishes the gate and nothing of the decision.
Explain(c) ==
    /\ Running(c) /\ op[c] = "explain"
    /\ \E r \in SafetyResults :
         response' = [op |-> "explain", result |-> r, ticket |-> ticket[c]]
    /\ Finish(c) /\ UNCHANGED <<cached, writer>>

\* Mutant of ActionsFor: the block looks at the confidence state only.
BlockedByState(r) == r.state # "UNKNOWN" /\ r.path = "full"

\* ActHandler: HTTP 503 and no action when the fallback fired.  Only the full
\* path generates actions; the others answer 200 with an empty list.
ActionsFor(r) == ~r.unknown /\ r.path = "full"

Act(c) ==
    /\ Running(c) /\ op[c] = "act"
    /\ \E r \in SafetyResults :
         response' = [op |-> "act", result |-> r, actions |-> ActionsFor(r), ticket |-> ticket[c]]
    /\ Finish(c) /\ UNCHANGED <<cached, writer>>

\* Mutant of Readable: the globals are read without the read lock.
ReadableAnyTime == TRUE

\* cachedSemantics: the read lock is not granted while a writer is inside.
Readable == writer = NoWriter

\* SemanticsHandler and ExploreHandler read the cache without a pipeline run.
Poll ==
    /\ Readable
    /\ polled # cached
    /\ polled' = cached
    /\ UNCHANGED <<ticket, op, issued, response, cached, writer>>

Next ==
    \/ \E c \in Clients :
         \/ \E o \in Ops : Arrive(c, o)
         \/ PipelineError(c) \/ Explain(c) \/ Act(c)
         \/ Analyze(c) \/ CacheNarrative(c) \/ CacheTitle(c)
    \/ Poll

Spec == Init /\ [][Next]_vars

-----------------------------------------------------------------------------
\* One type invariant: the tickets in progress are distinct and issued.
TypeOK ==
    /\ issued \in 0..MaxRequests
    /\ ticket \in [Clients -> 0..issued] /\ op \in [Clients -> Ops \union {"none"}]
    /\ \A c, d \in Clients : c # d /\ ticket[c] # 0 => ticket[c] # ticket[d]
    /\ cached.by \in [Parts -> 0..issued] /\ polled.by \in [Parts -> 0..issued]

Answered == response # NoResponse

\* The contract of ActHandler ("Automated remediation must never proceed
\* without confirmed or probable confidence"): /act hands out actions only for
\* an analysis that went through the gates modelled with none of them firing.
ActSafe ==
    response.op = "act" /\ response.actions =>
        LET r == response.result IN
          /\ r.path = "full" /\ r.state \in {"CONFIRMED", "PROBABLE"}
          /\ FallbackReasons(r.score, r.level, r.signals, r.variance, FALSE) = {}

\* HIGH latent risk reaches every endpoint: UNKNOWN confidence and the fallback
\* flag; no actions from /act; from /analyze a CRITICAL decision, no automation and
\* a remediation list that starts with pausing automated fixes.  What /analyze
\* advises besides (actions counted, what-if, safest action) is not withheld.
HighRiskHalts ==
    Answered /\ response.result.level = "HIGH" =>
        /\ response.result.state = "UNKNOWN" /\ response.result.unknown
        /\ response.op = "act" => ~response.actions
        /\ response.op = "analyze" =>
             response.state = "CRITICAL" /\ ~response.automation /\ response.remedy = "pause"

\* Two packages keep their own copy of the 0.75 threshold: a decision permits
\* automation only for an analysis the confidence engine confirmed.
AutomationIsConfirmed ==
    response.op = "analyze" /\ response.automation => response.result.state = "CONFIRMED"

\* A poll reads three globals that any number of analyses overwrite one at a
\* time: it never combines two analyses, so it never says that automation is
\* permitted next to the remediation of an UNKNOWN gate, nor announces a
\* confirmed cause next to a lower confidence label.
PollIsOneAnalysis ==
    /\ \A p, q \in Parts : polled.by[p] = polled.by[q]
    /\ polled.narrative = "automation permitted" =>
         ~polled.sem.unknown /\ polled.sem.remedy # "pause"
    /\ polled.title = "confirmed" => polled.sem.label = "Confident"
    /\ polled.title \in {"needs investigation", "healthy"} => polled.sem.label # "Not sure yet"

\* While the gate says UNKNOWN, what /semantics tells an operator to do first
\* is to pause automated fixes, and the state shown is neither HEALTHY nor
\* WATCH.
UnknownIsNotReassuring ==
    polled.sem.unknown /\ polled.by["sem"] # 0 =>
        polled.sem.remedy = "pause" /\ polled.sem.state \notin {"HEALTHY", "WATCH"}
=============================================================================
