-------------------------- MODULE FailureSemantics --------------------------
(***************************************************************************)
(* What /semantics and /explore say about an analysis                      *)
(* (pkg/orchestrator/failure_semantics.go): the failure category, the      *)
(* operational state and the kind of remediation, as pure operators over   *)
(* the facts BuildFailureSemantics reads.                                  *)
(*                                                                         *)
(* No code calls AdaptiveNodeProfile.Update, so the load and queue         *)
(* profiles never leave warmup: a load is anomalous above 0.85, a queue    *)
(* above 100, and "extreme" is a load of at least 1.2 * 0.85.  Loads are   *)
(* percents, a queue is whether it exceeds 100.                            *)
(***************************************************************************)
EXTENDS Integers

CONSTANTS
    Loads,       \* loads a root cause can have
    MaxBlast,    \* bound on the nodes under pressure
    NameKinds    \* classes of service names that containsAny tells apart

ASSUME SemanticsAssumption ==
    /\ Loads \subseteq Nat /\ MaxBlast \in Nat
    /\ NameKinds \subseteq {"auth", "db", "gateway", "lock", "node", "other"}

DynamicsTypes == {"stable", "converging", "diverging", "oscillating", "saturating"}

LoadAnomaly(load) == load > 85
Extreme(load) == load >= 102

(***************************************************************************)
(* The facts: has, whether the root's state is known (it is not when the   *)
(* analysis ended before it kept its graph); the load and queue of the     *)
(* root and the largest among the physics roots; the number of nodes under *)
(* pressure, which counts the root; the hops of the propagation chain.     *)
(***************************************************************************)
Facts ==
    {f \in [has : {TRUE}, load : Loads, peak : Loads, queue : BOOLEAN, peakQueue : BOOLEAN,
            blast : 0..MaxBlast, depth : {0, 2}, dyn : DynamicsTypes, patterns : BOOLEAN,
            kind : NameKinds] :
        /\ f.peak >= f.load /\ (f.queue => f.peakQueue)
        /\ (LoadAnomaly(f.load) \/ f.queue) => f.blast >= 1
        /\ f.dyn = "diverging" => f.patterns}

\* GetNodeStatesMap returns nil when Phase3Graph is not set: no root state,
\* nobody under pressure, no chain.
NoGraphFacts ==
    [has : {FALSE}, load : {0}, peak : {0}, queue : {FALSE}, peakQueue : {FALSE},
     blast : {0}, depth : {0}, dyn : DynamicsTypes, patterns : {FALSE}, kind : NameKinds]

\* classifyFailureCategory: the first rule that applies.  r is the safety
\* result of the analysis.
Category(r, f) ==
    LET hot == f.has /\ (LoadAnomaly(f.load) \/ f.queue)
        surge == IF f.kind = "gateway" /\ f.blast >= 2 THEN "Retry Storm" ELSE "Traffic Surge Collapse"
    IN  IF f.kind = "auth" /\ hot THEN "Auth Bottleneck"
        ELSE IF f.kind = "db" /\ hot THEN "DB Saturation"
        ELSE IF f.depth >= 2 /\ f.blast >= 2 THEN "Cascading Failure"
        ELSE IF f.blast >= 3 THEN "Backpressure Collapse"
        ELSE IF hot /\ ~LoadAnomaly(f.load) THEN "Pool Starvation"
        ELSE IF hot \/ f.dyn = "saturating" THEN "Queue Saturation"
        ELSE IF f.dyn = "oscillating" THEN "Resource Thrashing"
        ELSE IF f.dyn = "diverging"
             THEN IF f.has /\ f.load > 100 THEN surge ELSE "Timeout Amplification"
        ELSE IF r.level = "HIGH" THEN "Hidden Upstream Failure"
        ELSE IF r.variance > 25 THEN "Telemetry Blind Spot"
        ELSE IF f.kind = "lock" THEN "Lock Contention"
        ELSE IF f.kind = "node" /\ f.has /\ Extreme(f.load) THEN "Event Loop Saturation"
        ELSE "Telemetry Blind Spot"

\* Mutant of OperationalState: the safety gate is not consulted.
GateIgnoredState(r, f) ==
    LET hot == f.has /\ (LoadAnomaly(f.peak) \/ f.peakQueue) IN
      IF f.dyn = "converging" /\ ~hot THEN "RECOVERING"
      ELSE IF (f.has /\ Extreme(f.peak)) \/ f.blast >= 4 THEN "CRITICAL"
      ELSE IF f.depth >= 2 \/ f.blast >= 2 THEN "CASCADE RISK"
      ELSE IF hot THEN "DEGRADED" ELSE "HEALTHY"

\* classifyOperationalState.
OperationalState(r, f) ==
    LET hot == f.has /\ (LoadAnomaly(f.peak) \/ f.peakQueue)
        spreading == Category(r, f) \in {"Cascading Failure", "Backpressure Collapse"}
    IN  IF f.dyn = "converging" /\ ~hot THEN "RECOVERING"
        ELSE IF (f.has /\ Extreme(f.peak)) \/ f.blast >= 4 THEN "CRITICAL"
        ELSE IF spreading /\ f.blast >= 3 THEN "PARTIAL OUTAGE"
        ELSE IF spreading \/ f.depth >= 2 \/ f.blast >= 2 THEN "CASCADE RISK"
        ELSE IF r.unknown \/ f.dyn \in {"diverging", "oscillating"} THEN "UNSTABLE"
        ELSE IF hot THEN "DEGRADED"
        ELSE IF f.has /\ (f.load >= 60 \/ f.patterns) THEN "WATCH"
        ELSE "HEALTHY"

\* buildSemanticRemediation: the fallback list (pause automated fixes, collect
\* the probed metrics) or the fixes of the category; categories without fixes
\* ask for more data.
Remediation(r, f) ==
    IF r.unknown THEN "pause"
    ELSE IF Category(r, f) \in {"Telemetry Blind Spot", "Hidden Upstream Failure",
                                "Lock Contention", "Event Loop Saturation"}
            /\ ~(f.has /\ f.load >= 120)
         THEN "collect"
         ELSE "fix"
=============================================================================
