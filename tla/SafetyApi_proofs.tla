-------------------------- MODULE SafetyApi_proofs --------------------------
(***************************************************************************)
(* The safety of the published answers, for every set of evidence values,  *)
(* every number of clients and requests and every Monte Carlo outcome: the *)
(* arguments use which gate or override fires, never the value of a score. *)
(***************************************************************************)
EXTENDS SafetyApi, TLAPS

(***************************************************************************)
(* What each way of building a safety result guarantees.                   *)
(***************************************************************************)

\* What Sound says of a result is what the handlers rely on.
Sound(r) ==
    /\ r.path = "full" => (r.unknown <=> FallbackReasons(r.score, r.level, r.signals, r.variance, FALSE) # {})
    /\ r.path = "full" /\ ~r.unknown => r.state \in {"CONFIRMED", "PROBABLE"}
    /\ r.level = "HIGH" => r.state = "UNKNOWN" /\ r.unknown
    /\ AutomationPermission(r.score, r.level) => r.state = "CONFIRMED"

\* ComputeConfidence's state, case by case.
LEMMA StateCases ==
    ASSUME NEW score \in Int, NEW level
    PROVE  /\ level = "HIGH" => ConfidenceState(score, level) = "UNKNOWN"
           /\ level # "HIGH" /\ score >= 75 => ConfidenceState(score, level) = "CONFIRMED"
           /\ level # "HIGH" /\ score >= 45 => ConfidenceState(score, level) \in {"CONFIRMED", "PROBABLE"}
BY DEF ConfidenceState, StateByScore

\* Results assembled from ComputeConfidence and EvaluateFallback are sound:
\* EvaluateFallback with every gate agrees with the state ComputeConfidence
\* gives, whatever the score is.
LEMMA GatedSound ==
    ASSUME NEW path, NEW score \in Int, NEW level, NEW signals, NEW variance
    PROVE  Sound(Gated(path, score, level, signals, variance, FALSE))
<1> DEFINE r == Gated(path, score, level, signals, variance, FALSE)
           reasons == FallbackReasons(score, level, signals, variance, FALSE)
<1>1. /\ r.path = path /\ r.score = score /\ r.level = level /\ r.signals = signals
      /\ r.variance = variance /\ r.state = ConfidenceState(score, level)
      /\ r.unknown = (reasons # {})
  BY DEF Gated
<1>2. level = "HIGH" => "LATENT_HIGH_RISK" \in reasons
  BY DEF FallbackReasons
<1>3. score < 45 => "LOW_CONFIDENCE" \in reasons
  BY DEF FallbackReasons
<1>4. level = "HIGH" => r.state = "UNKNOWN" /\ r.unknown
  BY <1>1, <1>2, StateCases
<1>5. ~r.unknown => r.state \in {"CONFIRMED", "PROBABLE"}
  <2> SUFFICES ASSUME ~r.unknown PROVE r.state \in {"CONFIRMED", "PROBABLE"}
    OBVIOUS
  <2>1. level # "HIGH" /\ ~(score < 45)
    BY <1>1, <1>2, <1>3
  <2>2. score >= 45
    BY <2>1
  <2> QED BY <1>1, <2>1, <2>2, StateCases
<1>6. AutomationPermission(score, level) => r.state = "CONFIRMED"
  BY <1>1, StateCases DEF AutomationPermission
<1> QED BY <1>1, <1>4, <1>5, <1>6 DEF Sound

\* The information of a component is a natural number.
LEMMA InformationNat == \A p \in Int : Information(p) \in Nat
BY DEF Information

\* Every score the confidence engine returns is an integer.
LEMMA ScoresInt ==
    ASSUME NEW c \in [precision : Int, determinism : Int, residual : Int, role : Int],
           NEW level, NEW s \in Scores(c, level)
    PROVE  s \in Int
<1>1. WeightedScore(c) \in Int
  <2> DEFINE w1 == Information(c.precision)  w2 == Information(c.determinism)
             w3 == Information(c.residual)   w4 == Information(c.role)
             x1 == c.precision x2 == c.determinism x3 == c.residual x4 == c.role
  <2>1. x1 \in Int /\ x2 \in Int /\ x3 \in Int /\ x4 \in Int
    OBVIOUS
  <2>2. w1 \in Nat /\ w2 \in Nat /\ w3 \in Nat /\ w4 \in Nat
    BY <2>1, InformationNat
  <2>3. WeightedScore(c) = IF w1 + w2 + w3 + w4 = 0 THEN (x1 + x2 + x3 + x4) \div 4
          ELSE (w1 * x1 + w2 * x2 + w3 * x3 + w4 * x4) \div (w1 + w2 + w3 + w4)
    BY DEF WeightedScore
  <2> HIDE DEF w1, w2, w3, w4, x1, x2, x3, x4
  <2>4. w1 * x1 \in Int /\ w2 * x2 \in Int /\ w3 * x3 \in Int /\ w4 * x4 \in Int
    BY <2>1, <2>2
  <2> DEFINE num == w1 * x1 + w2 * x2 + w3 * x3 + w4 * x4
             den == w1 + w2 + w3 + w4
  <2>5. num \in Int /\ den \in Nat
    BY <2>2, <2>4
  <2>6. (x1 + x2 + x3 + x4) \div 4 \in Int
    BY <2>1
  <2>7. WeightedScore(c) = IF den = 0 THEN (x1 + x2 + x3 + x4) \div 4 ELSE num \div den
    BY <2>3
  <2> HIDE DEF num, den
  <2>8. den # 0 => num \div den \in Int
    BY <2>5
  <2> QED BY <2>6, <2>7, <2>8
<1>2. Spread(level) \in Int /\ Penalty(level) \in Int
  BY DEF Spread, Penalty
<1>3. PICK d \in {-Spread(level), 0, Spread(level)} : s = Clamp(WeightedScore(c) + d - Penalty(level))
  BY DEF Scores
<1>4. WeightedScore(c) + d - Penalty(level) \in Int
  BY <1>1, <1>2
<1> QED BY <1>3, <1>4 DEF Clamp

\* The components of every piece of evidence are integers.
LEMMA ComponentsInt ==
    ASSUME NEW e \in Evidence
    PROVE  Components(e) \in [precision : Int, determinism : Int, residual : Int, role : Int]
<1>1. e.var \in Int /\ e.instab \in Int /\ e.resid \in Int /\ e.role \in Int
  <2>1. e.var \in Variances /\ e.instab \in Instabilities /\ e.resid \in {100} /\ e.role \in {0, 100}
    BY DEF Evidence
  <2>2. Variances \subseteq Nat /\ Instabilities \subseteq 0..100
    BY SafetyAssumption
  <2>3. e.var \in Nat /\ e.instab \in 0..100
    BY <2>1, <2>2
  <2> QED BY <2>1, <2>3
<1>2. \A x \in Int : Clamp(x) \in Int
  BY DEF Clamp
<1>3. 100 - e.var \in Int /\ 100 - e.instab \in Int
  BY <1>1
<1> QED BY <1>1, <1>2, <1>3 DEF Components

\* Results of the full and of the empty path are sound.
LEMMA FullSound ==
    ASSUME NEW e \in Evidence, NEW r \in FullGate(e)
    PROVE  Sound(r)
<1>1. PICK sig \in SignalSets(e) :
        r \in {Gated("full", s, RiskLevel(sig), sig, e.var, e.mismatch)
                 : s \in Scores(Components(e), RiskLevel(sig))}
  BY DEF FullGate
<1>2. PICK s \in Scores(Components(e), RiskLevel(sig)) :
        r = Gated("full", s, RiskLevel(sig), sig, e.var, e.mismatch)
  BY <1>1
<1>3. e.mismatch = FALSE
  BY DEF Evidence
<1>4. Components(e) \in [precision : Int, determinism : Int, residual : Int, role : Int]
  BY ComponentsInt
<1>5. s \in Int
  BY <1>4, ScoresInt
<1> QED BY <1>2, <1>3, <1>5, GatedSound

\* See FullSound.
LEMMA EmptySound ==
    ASSUME NEW r \in EmptyGate
    PROVE  Sound(r)
<1> DEFINE c == [precision |-> 0, determinism |-> 100, residual |-> 0, role |-> 0]
<1>1. PICK s \in Scores(c, "HIGH") : r = Gated("empty", s, "HIGH", {"variance"}, 100, FALSE)
  BY DEF EmptyGate
<1>2. s \in Int
  BY ScoresInt
<1> QED BY <1>1, <1>2, GatedSound

\* The hand-written report of the local path is capped at 74, one point below
\* the threshold that would permit automation.
LEMMA LocalSound ==
    ASSUME NEW r \in LocalGate
    PROVE  Sound(r) /\ r.path = "local"
<1>1. PICK l \in LocalLoads, b \in QueueBonuses :
        r = [path |-> "local", score |-> LocalScore(l, b), level |-> "MEDIUM", signals |-> {},
             variance |-> 100 - LocalScore(l, b),
             state |-> StateByScore(LocalScore(l, b)),
             unknown |-> LocalScore(l, b) < 45]
  BY DEF LocalGate
<1>2. b \in Int /\ l \in Int
  BY SafetyAssumption DEF LocalLoads
<1>3. LocalScore(l, b) \in Int /\ LocalScore(l, b) <= 74
  BY <1>2 DEF LocalScore
<1>4. r.path = "local" /\ r.level = "MEDIUM" /\ r.score = LocalScore(l, b)
  BY <1>1
<1>5. ~AutomationPermission(r.score, r.level)
  BY <1>3, <1>4 DEF AutomationPermission
<1> QED BY <1>4, <1>5 DEF Sound

\* Every result an analysis can end with is sound.
LEMMA ResultsSound == \A r \in SafetyResults : Sound(r)
<1> SUFFICES ASSUME NEW r \in SafetyResults PROVE Sound(r)
  OBVIOUS
<1>1. CASE r \in UNION {FullGate(e) : e \in Evidence}
  <2>1. PICK e \in Evidence : r \in FullGate(e)
    BY <1>1
  <2> QED BY <2>1, FullSound
<1>2. CASE r \in EmptyGate
  BY <1>2, EmptySound
<1>3. CASE r \in LocalGate
  BY <1>3, LocalSound
<1> QED BY <1>1, <1>2, <1>3 DEF SafetyResults

-----------------------------------------------------------------------------
(* The published answer.                                                   *)

\* A sound answer carries a sound result; /act hands out actions as ActionsFor
\* decides, /analyze shows the decision and the remediation of its result.
SoundAnswer(a) ==
    /\ a.op \in Ops
    /\ Sound(a.result)
    /\ a.op = "act" /\ a.actions => ActionsFor(a.result)
    /\ a.op = "analyze" =>
         /\ \E dyn : a.state = DecisionState(a.result.score, a.result.level, dyn)
         /\ a.automation = AutomationPermission(a.result.score, a.result.level)
         /\ a.result.unknown => a.remedy = "pause"

\* Strengthening of the invariants about answers: the last answer and the one
\* whose analysis is still inside cacheSemantics are sound.
AnswerInv ==
    /\ response # NoResponse => SoundAnswer(response)
    /\ writer # NoWriter =>
         /\ DOMAIN writer = {"ticket", "next", "narrative", "title", "answer"}
         /\ SoundAnswer(writer.answer)

\* A step of cacheSemantics is taken by an analysis that is inside it.
LEMMA InsideIsWriter ==
    ASSUME NEW c \in Clients, ticket[c] # 0, writer.ticket = ticket[c]
    PROVE  writer # NoWriter
BY DEF NoWriter

\* What Analyze publishes is sound, whatever ticket is stamped on it.
LEMMA PublishedSound ==
    ASSUME NEW r \in SafetyResults, NEW f, NEW n, NEW gap, NEW k
    PROVE  SoundAnswer([Published(r, f, n, gap).answer EXCEPT !.ticket = k])
<1> DEFINE a == [Published(r, f, n, gap).answer EXCEPT !.ticket = k]
<1>1. /\ a.op = "analyze" /\ a.result = r /\ a.remedy = Remediation(r, f)
      /\ a.state = DecisionState(r.score, r.level, f.dyn)
      /\ a.automation = AutomationPermission(r.score, r.level)
  BY DEF Published
<1> HIDE DEF a
<1>2. Sound(r)
  BY ResultsSound
<1>3. r.unknown => Remediation(r, f) = "pause"
  BY DEF Remediation
<1> QED BY <1>1, <1>2, <1>3 DEF SoundAnswer, Ops, a

\* The strengthening is inductive.
LEMMA AnswerInductive == Spec => []AnswerInv
<1>1. Init => AnswerInv
  BY DEF Init, AnswerInv, NoResponse, NoWriter
<1>2. AnswerInv /\ [Next]_vars => AnswerInv'
  <2> SUFFICES ASSUME AnswerInv, [Next]_vars PROVE AnswerInv'
    OBVIOUS
  <2>1. ASSUME NEW c \in Clients, Analyze(c) PROVE AnswerInv'
    <3>1. PICK r \in SafetyResults : \E f \in FactsOf(r), n \in Rounded(r.score), gap \in BOOLEAN :
            LET p == Published(r, f, n, gap) IN
              writer' = [ticket |-> ticket[c], next |-> "narrative", narrative |-> p.narrative,
                         title |-> p.title, answer |-> [p.answer EXCEPT !.ticket = ticket[c]]]
      BY <2>1 DEF Analyze, Publications
    <3>2. PICK f \in FactsOf(r), n \in Rounded(r.score), gap \in BOOLEAN :
            LET p == Published(r, f, n, gap) IN
              writer' = [ticket |-> ticket[c], next |-> "narrative", narrative |-> p.narrative,
                         title |-> p.title, answer |-> [p.answer EXCEPT !.ticket = ticket[c]]]
      BY <3>1
    <3>3. PICK k : k = ticket[c]
      OBVIOUS
    <3>4. SoundAnswer([Published(r, f, n, gap).answer EXCEPT !.ticket = k])
      BY PublishedSound
    <3>5. /\ DOMAIN writer' = {"ticket", "next", "narrative", "title", "answer"}
          /\ writer'.answer = [Published(r, f, n, gap).answer EXCEPT !.ticket = k]
      BY <3>2, <3>3
    <3>6. response' = NoResponse
      BY <2>1 DEF Analyze
    <3>7. SoundAnswer(writer'.answer)
      BY <3>4, <3>5
    <3> QED BY <3>5, <3>6, <3>7 DEF AnswerInv, SoundAnswer, NoResponse
  <2>2. ASSUME NEW c \in Clients, Explain(c) PROVE AnswerInv'
    <3>1. PICK r \in SafetyResults : response' = [op |-> "explain", result |-> r, ticket |-> ticket[c]]
      BY <2>2 DEF Explain
    <3>2. response'.op = "explain" /\ response'.result = r /\ writer' = writer
      BY <2>2, <3>1 DEF Explain
    <3>3. Sound(r)
      BY ResultsSound
    <3>4. SoundAnswer(response)'
      BY <3>2, <3>3 DEF SoundAnswer, Ops
    <3> QED BY <3>2, <3>4 DEF AnswerInv, SoundAnswer
  <2>3. ASSUME NEW c \in Clients, Act(c) PROVE AnswerInv'
    <3>1. PICK r \in SafetyResults :
            response' = [op |-> "act", result |-> r, actions |-> ActionsFor(r), ticket |-> ticket[c]]
      BY <2>3 DEF Act
    <3>2. /\ response'.op = "act" /\ response'.result = r /\ response'.actions = ActionsFor(r)
          /\ writer' = writer
      BY <2>3, <3>1 DEF Act
    <3>3. Sound(r)
      BY ResultsSound
    <3>4. SoundAnswer(response)'
      BY <3>2, <3>3 DEF SoundAnswer, Ops
    <3> QED BY <3>2, <3>4 DEF AnswerInv, SoundAnswer
  <2>4. ASSUME NEW c \in Clients, CacheNarrative(c) PROVE AnswerInv'
    <3>1. writer # NoWriter
      BY <2>4, InsideIsWriter DEF CacheNarrative
    <3>2. writer' = [writer EXCEPT !.next = "title"] /\ response' = response
      BY <2>4 DEF CacheNarrative
    <3>3. DOMAIN writer' = DOMAIN writer /\ writer'.answer = writer.answer
      BY <3>1, <3>2 DEF AnswerInv
    <3> QED BY <3>1, <3>2, <3>3 DEF AnswerInv, SoundAnswer
  <2>5. ASSUME NEW c \in Clients, CacheTitle(c) PROVE AnswerInv'
    <3>1. writer # NoWriter
      BY <2>5, InsideIsWriter DEF CacheTitle
    <3>2. response' = writer.answer /\ writer' = NoWriter
      BY <2>5 DEF CacheTitle
    <3> QED BY <3>1, <3>2 DEF AnswerInv, SoundAnswer
  <2>6. ASSUME UNCHANGED <<response, writer>> PROVE AnswerInv'
    BY <2>6 DEF AnswerInv, SoundAnswer
  <2>7. ASSUME NEW c \in Clients, NEW o \in Ops, Arrive(c, o) PROVE AnswerInv'
    BY <2>6, <2>7 DEF Arrive
  <2>8. ASSUME NEW c \in Clients, PipelineError(c) PROVE AnswerInv'
    BY <2>6, <2>8 DEF PipelineError
  <2>9. ASSUME Poll PROVE AnswerInv'
    BY <2>6, <2>9 DEF Poll
  <2>10. CASE UNCHANGED vars
    BY <2>6, <2>10 DEF vars
  <2> QED BY <2>1, <2>2, <2>3, <2>4, <2>5, <2>7, <2>8, <2>9, <2>10 DEF Next
<1> QED BY <1>1, <1>2, PTL DEF Spec

\* ActSafe: ActHandler hands out actions only when the analysis went through the
\* gates and none fired.
THEOREM ActIsSafe == Spec => []ActSafe
<1>1. AnswerInv => ActSafe
  <2>1. NoResponse.op # "act"
    BY DEF NoResponse
  <2> QED BY <2>1 DEF AnswerInv, SoundAnswer, ActSafe, Sound, ActionsFor
<1> QED BY <1>1, AnswerInductive, PTL

\* HighRiskHalts: HIGH latent risk is UNKNOWN and flagged at every endpoint,
\* without actions from /act, and CRITICAL with automation paused from /analyze.
THEOREM HighRiskIsRefused == Spec => []HighRiskHalts
<1>1. AnswerInv => HighRiskHalts
  <2> SUFFICES ASSUME AnswerInv, Answered, response.result.level = "HIGH" PROVE HighRiskHalts
    BY DEF HighRiskHalts
  <2>1. SoundAnswer(response)
    BY DEF AnswerInv, Answered
  <2>2. response.result.state = "UNKNOWN" /\ response.result.unknown
    BY <2>1 DEF SoundAnswer, Sound
  <2>3. response.op = "act" => ~response.actions
    BY <2>1, <2>2, Zenon DEF SoundAnswer, ActionsFor
  <2>4. response.op = "analyze" => response.remedy = "pause"
    BY <2>1, <2>2 DEF SoundAnswer
  <2>5. response.op = "analyze" => response.state = "CRITICAL"
    BY <2>1 DEF SoundAnswer, DecisionState
  <2>6. response.op = "analyze" => ~response.automation
    <3>1. response.op = "analyze" =>
            response.automation = AutomationPermission(response.result.score, "HIGH")
      BY <2>1, Zenon DEF SoundAnswer
    <3>2. ~AutomationPermission(response.result.score, "HIGH")
      BY DEF AutomationPermission
    <3> QED BY <3>1, <3>2, Zenon
  <2> QED BY <2>2, <2>3, <2>4, <2>5, <2>6 DEF HighRiskHalts
<1> QED BY <1>1, AnswerInductive, PTL

\* The decision FSM permits automation only for CONFIRMED analyses.
THEOREM AutomationConfirmed == Spec => []AutomationIsConfirmed
<1>1. AnswerInv => AutomationIsConfirmed
  <2> SUFFICES ASSUME AnswerInv, response.op = "analyze", response.automation
               PROVE  response.result.state = "CONFIRMED"
    BY DEF AutomationIsConfirmed
  <2>1. SoundAnswer(response)
    BY DEF NoResponse, AnswerInv
  <2>2. response.automation = AutomationPermission(response.result.score, response.result.level)
    BY <2>1, Zenon DEF SoundAnswer
  <2>3. AutomationPermission(response.result.score, response.result.level)
    BY <2>2, Zenon
  <2> QED BY <2>1, <2>3 DEF SoundAnswer, Sound
<1> QED BY <1>1, AnswerInductive, PTL

-----------------------------------------------------------------------------
(* The cached semantics.                                                   *)

\* Every way of building a safety result gives it an integer score.
LEMMA ResultScores == \A r \in SafetyResults : r.score \in Int
<1> SUFFICES ASSUME NEW r \in SafetyResults PROVE r.score \in Int
  OBVIOUS
<1>1. CASE r \in UNION {FullGate(e) : e \in Evidence}
  <2>1. PICK e \in Evidence : r \in FullGate(e)
    BY <1>1
  <2>2. PICK sig \in SignalSets(e) :
          r \in {Gated("full", s, RiskLevel(sig), sig, e.var, e.mismatch)
                   : s \in Scores(Components(e), RiskLevel(sig))}
    BY <2>1 DEF FullGate
  <2>3. PICK s \in Scores(Components(e), RiskLevel(sig)) : r.score = s
    BY <2>2 DEF Gated
  <2> QED BY <2>3, ComponentsInt, ScoresInt
<1>2. CASE r \in EmptyGate
  <2> DEFINE c == [precision |-> 0, determinism |-> 100, residual |-> 0, role |-> 0]
  <2>1. PICK s \in Scores(c, "HIGH") : r = Gated("empty", s, "HIGH", {"variance"}, 100, FALSE)
    BY <1>2 DEF EmptyGate
  <2>2. r.score = s
    BY <2>1 DEF Gated
  <2> QED BY <2>2, ScoresInt
<1>3. CASE r \in LocalGate
  <2>1. PICK l \in LocalLoads, b \in QueueBonuses : r.score = LocalScore(l, b)
    BY <1>3 DEF LocalGate
  <2>2. b \in Int /\ l \in Int
    BY SafetyAssumption DEF LocalLoads
  <2> QED BY <2>1, <2>2 DEF LocalScore
<1> QED BY <1>1, <1>2, <1>3 DEF SafetyResults

\* What the parts of the cache say together: PollIsOneAnalysis's last three
\* conjuncts and UnknownIsNotReassuring.
Agree(sem, narrative, title) ==
    /\ narrative = "automation permitted" => ~sem.unknown /\ sem.remedy # "pause"
    /\ title = "confirmed" => sem.label = "Confident"
    /\ title \in {"needs investigation", "healthy"} => sem.label # "Not sure yet"

NotReassuring(sem) == sem.unknown => sem.remedy = "pause" /\ sem.state \notin {"HEALTHY", "WATCH"}

\* What one analysis publishes agrees with itself: rounding the score can only
\* raise the label.
LEMMA PublishedCoherent ==
    ASSUME NEW r \in SafetyResults, NEW f, NEW n \in Rounded(r.score), NEW gap
    PROVE  LET p == Published(r, f, n, gap) IN
             Agree(p.sem, p.narrative, p.title) /\ NotReassuring(p.sem)
<1> DEFINE p == Published(r, f, n, gap)
<1>1. /\ p.title = DecisionTitle(r.score, f.dyn) /\ p.sem.label = Label(n)
      /\ p.sem.remedy = Remediation(r, f) /\ p.sem.state = OperationalState(r, f)
      /\ p.sem.unknown = r.unknown /\ p.narrative = Narrative(r, gap)
  BY DEF Published
<1> HIDE DEF p
<1>2. r.score \in Int /\ n \in Int /\ n >= r.score
  BY ResultScores DEF Rounded
<1>3. p.title = "confirmed" => p.sem.label = "Confident"
  <2>1. p.title = "confirmed" => r.score >= 75
    BY <1>1 DEF DecisionTitle
  <2>2. r.score >= 75 => n >= 75
    BY <1>2
  <2> QED BY <1>1, <2>1, <2>2 DEF Label
<1>4. p.title \in {"needs investigation", "healthy"} => p.sem.label # "Not sure yet"
  <2>1. p.title \in {"needs investigation", "healthy"} => ~(r.score < 45)
    BY <1>1, <1>2 DEF DecisionTitle
  <2>2. ~(r.score < 45) => n >= 45
    BY <1>2
  <2> QED BY <1>1, <2>1, <2>2 DEF Label
<1>5. p.sem.unknown => p.sem.remedy = "pause"
  BY <1>1 DEF Remediation
<1>6. p.sem.unknown => p.sem.state \notin {"HEALTHY", "WATCH"}
  BY <1>1 DEF OperationalState
<1>7. p.narrative = "automation permitted" => ~p.sem.unknown /\ p.sem.remedy # "pause"
  <2>1. p.narrative = "automation permitted" => ~r.unknown
    BY <1>1 DEF Narrative
  <2>2. ~r.unknown => Remediation(r, f) # "pause"
    BY DEF Remediation
  <2> QED BY <1>1, <2>1, <2>2
<1> QED BY <1>3, <1>4, <1>5, <1>6, <1>7 DEF Agree, NotReassuring, p

\* The three parts are of one analysis and say what it said.
Whole(x) ==
    /\ \A p, q \in Parts : x.by[p] = x.by[q]
    /\ Agree(x.sem, x.narrative, x.title)
    /\ x.by["sem"] # 0 => NotReassuring(x.sem)

\* Strengthening of PollIsOneAnalysis: outside cacheSemantics the cache is whole;
\* inside, what is written and what is left to write belong together.
CacheInv ==
    /\ DOMAIN cached = {"sem", "narrative", "title", "by"} /\ DOMAIN cached.by = Parts
    /\ Whole(polled)
    /\ writer = NoWriter => Whole(cached)
    /\ writer # NoWriter =>
         /\ DOMAIN writer = {"ticket", "next", "narrative", "title", "answer"}
         /\ cached.by["sem"] = writer.ticket
         /\ Agree(cached.sem, writer.narrative, writer.title) /\ NotReassuring(cached.sem)
         /\ writer.next = "title" =>
              cached.narrative = writer.narrative /\ cached.by["narrative"] = writer.ticket

\* The strengthening is inductive.
LEMMA CacheInductive == Spec => []CacheInv
<1>1. Init => CacheInv
  <2>1. Whole(NoSemantics)
    BY DEF NoSemantics, Whole, Agree, Parts
  <2>2. DOMAIN NoSemantics = {"sem", "narrative", "title", "by"} /\ DOMAIN NoSemantics.by = Parts
    BY DEF NoSemantics
  <2> SUFFICES ASSUME Init PROVE CacheInv
    OBVIOUS
  <2>3. cached = NoSemantics /\ polled = NoSemantics /\ writer = NoWriter
    BY DEF Init
  <2>4. Whole(cached) /\ Whole(polled)
    BY <2>1, <2>3
  <2> QED BY <2>2, <2>3, <2>4 DEF CacheInv
<1>2. CacheInv /\ [Next]_vars => CacheInv'
  <2> SUFFICES ASSUME CacheInv, [Next]_vars PROVE CacheInv'
    OBVIOUS
  <2> USE DEF Parts
  <2>1. ASSUME UNCHANGED <<cached, writer, polled>> PROVE CacheInv'
    BY <2>1 DEF CacheInv, Whole, Agree, NotReassuring
  <2>2. ASSUME NEW c \in Clients, Analyze(c) PROVE CacheInv'
    <3>1. PICK p \in Publications :
            /\ cached' = [cached EXCEPT !.sem = p.sem, !.by["sem"] = ticket[c]]
            /\ writer' = [ticket |-> ticket[c], next |-> "narrative", narrative |-> p.narrative,
                          title |-> p.title, answer |-> [p.answer EXCEPT !.ticket = ticket[c]]]
      BY <2>2 DEF Analyze
    <3>2. PICK r \in SafetyResults : \E f \in FactsOf(r), n \in Rounded(r.score), gap \in BOOLEAN :
            p = Published(r, f, n, gap)
      BY DEF Publications
    <3>3. PICK f \in FactsOf(r), n \in Rounded(r.score), gap \in BOOLEAN : p = Published(r, f, n, gap)
      BY <3>2
    <3>4. Agree(p.sem, p.narrative, p.title) /\ NotReassuring(p.sem)
      BY <3>3, PublishedCoherent
    <3>5. /\ DOMAIN cached' = {"sem", "narrative", "title", "by"} /\ DOMAIN cached'.by = Parts
          /\ cached'.sem = p.sem /\ cached'.by["sem"] = ticket[c]
      BY <3>1 DEF CacheInv
    <3>6. /\ DOMAIN writer' = {"ticket", "next", "narrative", "title", "answer"}
          /\ writer'.ticket = ticket[c] /\ writer'.narrative = p.narrative
          /\ writer'.title = p.title /\ writer'.next = "narrative"
      BY <3>1
    <3>7. writer' # NoWriter /\ polled' = polled
      BY <2>2, <3>6 DEF NoWriter, Analyze
    <3>8. Whole(polled)'
      BY <3>7 DEF CacheInv, Whole, Agree, NotReassuring
    <3>9. Agree(cached.sem, writer.narrative, writer.title)' /\ NotReassuring(cached.sem)'
      BY <3>4, <3>5, <3>6 DEF Agree, NotReassuring
    <3> QED BY <3>5, <3>6, <3>7, <3>8, <3>9 DEF CacheInv
  <2>3. ASSUME NEW c \in Clients, CacheNarrative(c) PROVE CacheInv'
    <3>1. writer # NoWriter
      BY <2>3, InsideIsWriter DEF CacheNarrative
    <3>2. /\ cached' = [cached EXCEPT !.narrative = writer.narrative, !.by["narrative"] = ticket[c]]
          /\ writer' = [writer EXCEPT !.next = "title"] /\ polled' = polled
          /\ writer.ticket = ticket[c]
      BY <2>3 DEF CacheNarrative
    <3>3. /\ DOMAIN cached' = {"sem", "narrative", "title", "by"} /\ DOMAIN cached'.by = Parts
          /\ cached'.sem = cached.sem /\ cached'.by["sem"] = cached.by["sem"]
          /\ cached'.narrative = writer.narrative /\ cached'.by["narrative"] = writer.ticket
      BY <3>2 DEF CacheInv
    <3>4. /\ DOMAIN writer' = DOMAIN writer /\ writer'.ticket = writer.ticket
          /\ writer'.narrative = writer.narrative /\ writer'.title = writer.title
      BY <3>1, <3>2 DEF CacheInv
    <3>5. writer' # NoWriter
      BY <3>1, <3>4 DEF CacheInv, NoWriter
    <3>6. Whole(polled)'
      BY <3>2 DEF CacheInv, Whole, Agree, NotReassuring
    <3>7. Agree(cached.sem, writer.narrative, writer.title)' /\ NotReassuring(cached.sem)'
      BY <3>1, <3>3, <3>4 DEF CacheInv, Agree, NotReassuring
    <3> QED BY <3>1, <3>3, <3>4, <3>5, <3>6, <3>7 DEF CacheInv
  <2>4. ASSUME NEW c \in Clients, CacheTitle(c) PROVE CacheInv'
    <3>1. writer # NoWriter
      BY <2>4, InsideIsWriter DEF CacheTitle
    <3>2. /\ cached' = [cached EXCEPT !.title = writer.title, !.by["title"] = ticket[c]]
          /\ writer' = NoWriter /\ polled' = polled
          /\ writer.ticket = ticket[c] /\ writer.next = "title"
      BY <2>4 DEF CacheTitle, Finish
    <3>3. /\ DOMAIN cached' = {"sem", "narrative", "title", "by"} /\ DOMAIN cached'.by = Parts
          /\ cached'.sem = cached.sem /\ cached'.by["sem"] = cached.by["sem"]
          /\ cached'.narrative = cached.narrative /\ cached'.by["narrative"] = cached.by["narrative"]
          /\ cached'.title = writer.title /\ cached'.by["title"] = writer.ticket
      BY <3>2 DEF CacheInv
    <3>4. /\ cached.by["sem"] = writer.ticket /\ cached.by["narrative"] = writer.ticket
          /\ cached.narrative = writer.narrative
      BY <3>1, <3>2 DEF CacheInv
    <3>5. \A p, q \in Parts : cached'.by[p] = cached'.by[q]
      BY <3>3, <3>4
    <3>6. Agree(cached.sem, cached.narrative, cached.title)' /\ NotReassuring(cached.sem)'
      BY <3>1, <3>3, <3>4 DEF CacheInv, Agree, NotReassuring
    <3>7. Whole(cached)'
      BY <3>5, <3>6 DEF Whole
    <3>8. Whole(polled)'
      BY <3>2 DEF CacheInv, Whole, Agree, NotReassuring
    <3> QED BY <3>2, <3>3, <3>7, <3>8 DEF CacheInv
  <2>5. CASE Poll
    <3>1. writer = NoWriter /\ polled' = cached /\ cached' = cached /\ writer' = writer
      BY <2>5 DEF Poll, Readable
    <3>2. Whole(cached)
      BY <3>1 DEF CacheInv
    <3>3. Whole(polled)' /\ Whole(cached)'
      BY <3>1, <3>2 DEF Whole, Agree, NotReassuring
    <3> QED BY <3>1, <3>3 DEF CacheInv
  <2>6. ASSUME NEW c \in Clients, NEW o \in Ops, Arrive(c, o) PROVE CacheInv'
    BY <2>1, <2>6 DEF Arrive
  <2>7. ASSUME NEW c \in Clients, PipelineError(c) \/ Explain(c) \/ Act(c) PROVE CacheInv'
    BY <2>1, <2>7 DEF PipelineError, Explain, Act, Finish
  <2>8. CASE UNCHANGED vars
    BY <2>1, <2>8 DEF vars
  <2> QED BY <2>2, <2>3, <2>4, <2>5, <2>6, <2>7, <2>8 DEF Next
<1> QED BY <1>1, <1>2, PTL DEF Spec

\* PollIsOneAnalysis: with the globals written one at a time by any number of
\* analyses, a poll still reads what one of them said (cacheSemantics,
\* cachedSemantics).
THEOREM CacheCoherent == Spec => []PollIsOneAnalysis
<1>1. CacheInv => PollIsOneAnalysis
  BY DEF CacheInv, Whole, Agree, PollIsOneAnalysis
<1> QED BY <1>1, CacheInductive, PTL

\* UnknownIsNotReassuring: while the gate says UNKNOWN, /semantics asks to
\* pause automated fixes and shows neither HEALTHY nor WATCH, for every load,
\* blast radius and category.
THEOREM UnknownPauses == Spec => []UnknownIsNotReassuring
<1>1. CacheInv => UnknownIsNotReassuring
  BY DEF CacheInv, Whole, NotReassuring, UnknownIsNotReassuring
<1> QED BY <1>1, CacheInductive, PTL

\* The tickets in progress are distinct and were issued.
THEOREM TicketsCorrect == Spec => []TypeOK
<1> USE ApiAssumption
<1>1. Init => TypeOK
  <2>1. NoSemantics.by \in [Parts -> 0..0]
    BY DEF NoSemantics
  <2>2. Init => /\ ticket \in [Clients -> 0..0] /\ op \in [Clients -> Ops \union {"none"}]
                /\ \A c \in Clients : ticket[c] = 0
    BY DEF Init, Ops
  <2> QED BY <2>1, <2>2 DEF Init, TypeOK
<1>2. TypeOK /\ CacheInv /\ [Next]_vars => TypeOK'
  <2> SUFFICES ASSUME TypeOK, CacheInv, [Next]_vars PROVE TypeOK'
    OBVIOUS
  <2>1. ASSUME NEW c \in Clients, NEW o \in Ops, Arrive(c, o) PROVE TypeOK'
    <3>1. /\ issued' = issued + 1 /\ issued < MaxRequests
          /\ ticket' = [ticket EXCEPT ![c] = issued + 1] /\ op' = [op EXCEPT ![c] = o]
          /\ cached' = cached /\ polled' = polled
      BY <2>1 DEF Arrive
    <3>2. issued \in Nat /\ issued' \in 0..MaxRequests
      BY <3>1 DEF TypeOK
    <3>3. \A x \in 0..issued : x \in 0..issued'
      BY <3>1, <3>2
    <3>4. cached.by \in [Parts -> 0..issued'] /\ polled.by \in [Parts -> 0..issued']
      BY <3>3 DEF TypeOK
    <3>5. ticket' \in [Clients -> 0..issued'] /\ op' \in [Clients -> Ops \union {"none"}]
      BY <3>1, <3>2, <3>3 DEF TypeOK
    <3>6. \A d, e \in Clients : d # e /\ ticket'[d] # 0 => ticket'[d] # ticket'[e]
      BY <3>1, <3>2 DEF TypeOK
    <3> QED BY <3>1, <3>2, <3>4, <3>5, <3>6 DEF TypeOK
  <2>2. ASSUME NEW c \in Clients, NEW p \in Parts, cached'.by = [cached.by EXCEPT ![p] = ticket[c]]
        PROVE  cached'.by \in [Parts -> 0..issued]
    BY <2>2 DEF TypeOK
  <2>3. ASSUME NEW c \in Clients, Finish(c), cached'.by \in [Parts -> 0..issued] PROVE TypeOK'
    BY <2>3 DEF Finish, TypeOK
  <2>4. ASSUME NEW c \in Clients, Analyze(c) PROVE TypeOK'
    <3>1. PICK s : cached' = [cached EXCEPT !.sem = s, !.by["sem"] = ticket[c]]
      BY <2>4 DEF Analyze
    <3>2. cached'.by = [cached.by EXCEPT !["sem"] = ticket[c]]
      BY <3>1 DEF CacheInv
    <3> QED BY <2>2, <2>4, <3>2 DEF Analyze, TypeOK, Parts
  <2>5. ASSUME NEW c \in Clients, CacheNarrative(c) PROVE TypeOK'
    <3>1. cached'.by = [cached.by EXCEPT !["narrative"] = ticket[c]]
      BY <2>5 DEF CacheNarrative, CacheInv
    <3> QED BY <2>2, <2>5, <3>1 DEF CacheNarrative, TypeOK, Parts
  <2>6. ASSUME NEW c \in Clients, CacheTitle(c) PROVE TypeOK'
    <3>1. cached'.by = [cached.by EXCEPT !["title"] = ticket[c]]
      BY <2>6 DEF CacheTitle, CacheInv
    <3>2. cached'.by \in [Parts -> 0..issued]
      BY <2>2, <3>1 DEF Parts
    <3> QED BY <2>3, <2>6, <3>2 DEF CacheTitle
  <2>7. ASSUME NEW c \in Clients, PipelineError(c) \/ Explain(c) \/ Act(c) PROVE TypeOK'
    <3>1. Finish(c) /\ cached' = cached
      BY <2>7 DEF PipelineError, Explain, Act
    <3> QED BY <2>3, <3>1 DEF TypeOK
  <2>8. CASE Poll
    BY <2>8 DEF Poll, TypeOK
  <2>9. CASE UNCHANGED vars
    BY <2>9 DEF vars, TypeOK
  <2> QED BY <2>1, <2>4, <2>5, <2>6, <2>7, <2>8, <2>9 DEF Next
<1> QED BY <1>1, <1>2, CacheInductive, PTL DEF Spec
=============================================================================
