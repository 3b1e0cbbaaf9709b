----------------------------- MODULE SafetyGate -----------------------------
(***************************************************************************)
(* The decision layer of one analysis, as pure operators: the latent guard *)
(* (latent_guard.go), the confidence engine (confidence_engine.go), the    *)
(* five-gate fallback (unknown_fallback.go), the three ways the pipeline   *)
(* fills in its safety result (pipeline.go) and the decision FSM           *)
(* (pkg/confidence/narrative_fsm.go).                                      *)
(*                                                                         *)
(* Scores, ratios and components are percents.  Reports are records.       *)
(***************************************************************************)
EXTENDS Integers, FiniteSets

CONSTANTS
    Variances,      \* values of lgMaxPosteriorVariance (not capped at 100)
    Instabilities,  \* values of lgRankInstability
    QueueBonuses    \* values of min(log1p(queue)/40, 0.14)

ASSUME SafetyAssumption ==
    /\ Variances \subseteq Nat
    /\ Instabilities \subseteq 0..100
    /\ QueueBonuses \subseteq 0..14

Levels == {"LOW", "MEDIUM", "HIGH"}
Channels == {"corrNoPath", "residual", "instability", "variance"}
ConfidenceStates == {"CONFIRMED", "PROBABLE", "UNKNOWN"}

Clamp(x) == IF x < 0 THEN 0 ELSE IF x > 100 THEN 100 ELSE x

-----------------------------------------------------------------------------
(* Latent guard.                                                           *)

(***************************************************************************)
(* The evidence AssessLatentRisk and ComputeConfidence read.  The causes   *)
(* of an explanation are ancestors of the target and the keys of its       *)
(* effects (GenerateExplanation), so in the pipeline no effect is without  *)
(* a path (corr 0, resid 100), every root cause is in the graph, and the   *)
(* role consistency is 100, or 0 when fusion rejects every cause.          *)
(***************************************************************************)
Evidence ==
    [corr : {0}, resid : {100}, instab : Instabilities, var : Variances,
     role : {0, 100}, warm : BOOLEAN, mismatch : {FALSE}]

\* The channels whose value exceeds the static thresholds used in warmup.
StaticAnomalies(e) ==
    {c \in Channels : \/ c = "corrNoPath" /\ e.corr > 70
                      \/ c = "residual" /\ e.resid < 40
                      \/ c = "instability" /\ e.instab > 30
                      \/ c = "variance" /\ e.var > 25}

\* The channels that can exceed mean + 3 sigma of some history: a value at
\* the good end of its range never does.
Deviating(e) ==
    {c \in Channels : \/ c = "corrNoPath" /\ e.corr > 0
                      \/ c = "residual" /\ e.resid < 100
                      \/ c = "instability" /\ e.instab > 0
                      \/ c = "variance" /\ e.var > 0}

\* A warm profile compares with its own history (LatentGuard), which may or
\* may not make a deviating channel an anomaly.
SignalSets(e) == IF e.warm THEN SUBSET Deviating(e) ELSE {StaticAnomalies(e)}

RiskLevel(signals) ==
    LET medium == signals \intersect {"residual", "variance"} IN
      IF signals \intersect {"corrNoPath", "instability"} # {} \/ Cardinality(medium) >= 2
      THEN "HIGH"
      ELSE IF medium # {} THEN "MEDIUM" ELSE "LOW"

-----------------------------------------------------------------------------
(* Confidence engine.                                                      *)

Components(e) ==
    [precision |-> Clamp(100 - e.var), determinism |-> Clamp(100 - e.instab),
     residual |-> Clamp(e.resid), role |-> e.role]

Penalty(level) == CASE level = "HIGH" -> 40 [] level = "MEDIUM" -> 15 [] OTHER -> 0

\* 1 - entropy(p), in thousandths, to the nearest multiple of five percent.
Information(p) ==
    LET q == ((IF p > 50 THEN 100 - p ELSE p) + 2) \div 5 IN
      CASE q = 0 -> 1000 [] q = 1 -> 714 [] q = 2 -> 531 [] q = 3 -> 390
        [] q = 4 -> 278 [] q = 5 -> 189 [] q = 6 -> 119 [] q = 7 -> 66
        [] q = 8 -> 29 [] q = 9 -> 7 [] OTHER -> 0

\* computeDynamicWeights and the weighted sum: each component weighs as much
\* as it is informative (the observation multiplier is common to all four
\* weights and cancels when they are normalised).
WeightedScore(c) ==
    LET total == Information(c.precision) + Information(c.determinism)
                   + Information(c.residual) + Information(c.role)
    IN  IF total = 0
        THEN (c.precision + c.determinism + c.residual + c.role) \div 4
        ELSE (Information(c.precision) * c.precision
                + Information(c.determinism) * c.determinism
                + Information(c.residual) * c.residual
                + Information(c.role) * c.role) \div total

\* How far the Monte Carlo mean (RunAdaptive, seeded from the clock) can be
\* from the weighted sum: clamping a normal of deviation sigma to [0, 1]
\* moves its mean by at most 0.4 sigma, sampling error adds about one point.
Spread(level) == CASE level = "HIGH" -> 10 [] level = "MEDIUM" -> 7 [] OTHER -> 5

\* The score is the simulated mean less the penalty; the two ends and the
\* middle of the spread stand for all of it.
Scores(c, level) ==
    {Clamp(WeightedScore(c) + d - Penalty(level)) : d \in {-Spread(level), 0, Spread(level)}}

\* confirmedThreshold and probableThreshold.
StateByScore(score) ==
    IF score >= 75 THEN "CONFIRMED" ELSE IF score >= 45 THEN "PROBABLE" ELSE "UNKNOWN"

ConfidenceState(score, level) == IF level = "HIGH" THEN "UNKNOWN" ELSE StateByScore(score)

-----------------------------------------------------------------------------
(* Fallback gates.                                                         *)

\* Mutant of FallbackReasons: the fifth gate is missing and so is the first.
RiskGatesDropped(score, level, signals, variance, mismatch) ==
    {g \in {"LOW_CONFIDENCE", "GRAPH_MISMATCH", "SEVERE_POSTERIOR_VARIANCE"} :
        \/ g = "LOW_CONFIDENCE" /\ score < 45
        \/ g = "GRAPH_MISMATCH" /\ mismatch
        \/ g = "SEVERE_POSTERIOR_VARIANCE" /\ variance > 40}

\* EvaluateFallback: the gates that fire; any of them makes IsUnknown true.
FallbackReasons(score, level, signals, variance, mismatch) ==
    {g \in {"LATENT_HIGH_RISK", "LOW_CONFIDENCE", "GRAPH_MISMATCH",
            "SEVERE_POSTERIOR_VARIANCE", "RANKING_INSTABILITY"} :
        \/ g = "LATENT_HIGH_RISK" /\ level = "HIGH"
        \/ g = "LOW_CONFIDENCE" /\ score < 45
        \/ g = "GRAPH_MISMATCH" /\ mismatch
        \/ g = "SEVERE_POSTERIOR_VARIANCE" /\ variance > 40
        \/ g = "RANKING_INSTABILITY" /\ "instability" \in signals}

-----------------------------------------------------------------------------
(* The three ways the pipeline fills in result.SafetyResult.               *)

Gated(path, score, level, signals, variance, mismatch) ==
    [path |-> path, score |-> score, level |-> level, signals |-> signals,
     variance |-> variance, state |-> ConfidenceState(score, level),
     unknown |-> FallbackReasons(score, level, signals, variance, mismatch) # {}]

\* evaluateSafetyGateFull: RunSafetyGate on the explanation of phase 4.
FullGate(e) ==
    UNION {{Gated("full", s, RiskLevel(sig), sig, e.var, e.mismatch)
              : s \in Scores(Components(e), RiskLevel(sig))} : sig \in SignalSets(e)}

\* evaluateSafetyGateEmpty: no graph and an empty explanation, which the
\* guard reports as HIGH with variance 1 without asking the profile.
EmptyGate ==
    {Gated("empty", s, "HIGH", {"variance"}, 100, FALSE)
        : s \in Scores([precision |-> 0, determinism |-> 100, residual |-> 0, role |-> 0], "HIGH")}

\* localRootConfidence: load below 1, from 1 and from 1.05.
LocalScore(load, bonus) ==
    LET s == 50 + (IF load >= 100 THEN 10 ELSE 0) + (IF load >= 105 THEN 10 ELSE 0) + bonus
    IN  IF s > 74 THEN 74 ELSE IF s < 45 THEN 45 ELSE s

LocalLoads == {90, 100, 110}

\* evaluateSafetyGateLocal: a report written by hand from the queue-physics
\* root; neither ComputeConfidence nor EvaluateFallback is called.
LocalGate ==
    {[path |-> "local", score |-> s, level |-> "MEDIUM", signals |-> {},
      variance |-> 100 - s,
      state |-> StateByScore(s),
      unknown |-> s < 45] : s \in {LocalScore(l, b) : l \in LocalLoads, b \in QueueBonuses}}

SafetyResults == (UNION {FullGate(e) : e \in Evidence}) \union EmptyGate \union LocalGate

-----------------------------------------------------------------------------
(* Decision FSM.                                                           *)

Dynamics == {"stable", "converging", "diverging", "oscillating", "saturating"}

\* GenerateDecision: the state by score, refined by the dynamics, overridden
\* by HIGH latent risk.  FallbackUsed only changes the wording.
DecisionState(score, level, dyn) ==
    LET byScore == IF score >= 75 THEN "DEGRADED" ELSE IF score >= 45 THEN "UNSTABLE" ELSE "UNKNOWN"
        refined == CASE dyn = "converging" /\ byScore # "DEGRADED" -> "RECOVERING"
                     [] dyn = "diverging" /\ byScore # "DEGRADED" -> "UNSTABLE"
                     [] dyn = "stable" /\ byScore = "UNSTABLE" -> "HEALTHY"
                     [] OTHER -> byScore
    IN  IF level = "HIGH" THEN "CRITICAL" ELSE refined

\* Mutant of AutomationPermission: permitted from the PROBABLE threshold.
AutomationIfProbable(score, level) == score >= 45 /\ level # "HIGH"

AutomationPermission(score, level) == score >= 75 /\ level # "HIGH"

\* The title follows the score and the dynamics; HIGH risk leaves it alone.
DecisionTitle(score, dyn) ==
    IF score >= 75 THEN "confirmed"
    ELSE IF dyn = "converging" THEN "recovering"
    ELSE IF score < 45 THEN "investigation required"
    ELSE IF dyn = "stable" THEN "healthy" ELSE "needs investigation"
=============================================================================
