------------------------ MODULE LatentGuard_proofs -------------------------
(***************************************************************************)
(* Theorems about LatentGuard, for any number of overlapping analyses, any *)
(* rankings and any warm-up.                                               *)
(***************************************************************************)
EXTENDS LatentGuard, Integers, TLAPS

Steps == {"idle", "get", "set", "update", "count", "mean", "dev", "done"}

Analysis ==
    [pc : Steps, ranking : Rankings, prior : Rankings, unstable : BOOLEAN,
     mean : [n : Nat, k : Nat], dev : [n : Nat, k : Nat], fired : BOOLEAN,
     before : Rankings, alone : BOOLEAN]

\* What TypeOK leaves open.
Types ==
    /\ req \in [Requests -> Analysis]
    /\ prev \in Rankings
    /\ stats \in [n : 0..MaxObs, k : 0..MaxObs] /\ stats.k <= stats.n

MeansAreOld == \A c \in Requests : req[c].mean.n <= stats.n /\ req[c].mean.k <= stats.k

LEMMA IdleType == Idle \in Analysis
  BY GuardAssumption DEF Idle, Analysis, Steps

\* A step leaves the types as they are.
LEMMA TypesStep == Types /\ [Next]_vars => Types'
<1> SUFFICES ASSUME Types, [Next]_vars PROVE Types'
  OBVIOUS
<1> USE GuardAssumption
<1>1. CASE UNCHANGED vars
  BY <1>1 DEF vars, Types
<1>2. CASE Forget
  <2>1. \A c \in Requests : req'[c] \in Analysis
    BY <1>2, ZenonT(60) DEF Forget, Types, Analysis
  <2>2. req' \in [Requests -> Analysis]
    BY <1>2, <2>1 DEF Forget
  <2> QED
    BY <1>2, <2>2 DEF Forget, Types
<1>3. ASSUME NEW c \in Requests, NEW r \in Rankings, Explain(c, r) PROVE Types'
  <2> DEFINE others == {d \in Requests \ {c} : Running(d)}
             started == [Idle EXCEPT !.pc = "get", !.ranking = r, !.before = prev, !.alone = (others = {})]
  <2>1. started \in Analysis
    BY IdleType DEF Analysis, Types, Steps
  <2>2. \A d \in Requests : [req[d] EXCEPT !.alone = FALSE] \in Analysis /\ req[d] \in Analysis
    BY DEF Analysis, Types
  <2>3. req' = [d \in Requests |->
                  CASE d = c -> started
                    [] d \in others -> [req[d] EXCEPT !.alone = FALSE]
                    [] OTHER -> req[d]]
    BY <1>3 DEF Explain
  <2> HIDE DEF others, started
  <2>4. \A d \in Requests : req'[d] \in Analysis
    BY <2>1, <2>2, <2>3
  <2> QED
    BY <1>3, <2>3, <2>4 DEF Explain, Types
<1>4. ASSUME NEW c \in Requests, GetPrevRanking(c) PROVE Types'
  <2>1. req[c] \in Analysis /\ prev \in Rankings
    BY DEF Types
  <2>2. [req[c] EXCEPT !.pc = "set", !.prior = prev] \in Analysis
    BY <2>1 DEF Analysis, Steps
  <2>3. req' = [req EXCEPT ![c] = [req[c] EXCEPT !.pc = "set", !.prior = prev]]
    BY <1>4 DEF GetPrevRanking, Types
  <2> QED
    BY <1>4, <2>2, <2>3 DEF GetPrevRanking, Types
<1>5. ASSUME NEW c \in Requests, SetPrevRanking(c) PROVE Types'
  <2> DEFINE left == [req[c] EXCEPT !.pc = IF req[c].ranking = NoCauses THEN "done" ELSE "update",
                                    !.prior = NoCauses,
                                    !.unstable = Unstable(req[c].ranking, req[c].prior)]
  <2>1. left \in Analysis
    BY ZenonT(60) DEF Types, Analysis, Steps, Unstable
  <2>2. req' = [req EXCEPT ![c] = left]
    BY <1>5 DEF SetPrevRanking, Types
  <2>3. req[c].ranking \in Rankings
    BY DEF Types, Analysis
  <2> QED
    BY <1>5, <2>1, <2>2, <2>3 DEF SetPrevRanking, Types
<1>6. ASSUME NEW c \in Requests, UpdateGuardMetrics(c) PROVE Types'
  <2>1. req' \in [Requests -> Analysis] /\ prev' \in Rankings
    BY <1>6 DEF UpdateGuardMetrics, Types, Analysis, Steps
  <2>2. stats' \in [n : 0..MaxObs, k : 0..MaxObs] /\ stats'.k <= stats'.n
    BY <1>6 DEF UpdateGuardMetrics, Types
  <2> QED
    BY <2>1, <2>2 DEF Types
<1>7. ASSUME NEW c \in Requests, ReadCount(c) PROVE Types'
  BY <1>7 DEF ReadCount, Types, Analysis, Steps
<1>8. ASSUME NEW c \in Requests, ReadMean(c) PROVE Types'
  <2>0. stats \in [n : Nat, k : Nat] /\ req[c] \in Analysis
    BY DEF Types
  <2>1. [req[c] EXCEPT !.pc = "dev", !.mean = stats] \in Analysis
    BY <2>0 DEF Analysis, Steps
  <2>2. req' = [req EXCEPT ![c] = [req[c] EXCEPT !.pc = "dev", !.mean = stats]]
    BY <1>8 DEF ReadMean, Types
  <2> QED
    BY <1>8, <2>1, <2>2 DEF ReadMean, Types
<1>9. ASSUME NEW c \in Requests, ReadDeviation(c) PROVE Types'
  <2> DEFINE judged == req[c].unstable /\ Exceeds(req[c].mean, stats)
  <2>1. judged \in BOOLEAN
    BY DEF Types, Analysis, Exceeds
  <2>2. req' = [req EXCEPT ![c] = [req[c] EXCEPT !.pc = "done", !.dev = stats, !.fired = judged]]
    BY <1>9 DEF ReadDeviation, Types
  <2> HIDE DEF judged
  <2>3. [req[c] EXCEPT !.pc = "done", !.dev = stats, !.fired = judged] \in Analysis
    <3>1. stats \in [n : Nat, k : Nat] /\ req[c] \in Analysis
      BY DEF Types
    <3> QED BY <2>1, <3>1, ZenonT(60) DEF Analysis, Steps
  <2>4. prev' = prev /\ stats' = stats
    BY <1>9 DEF ReadDeviation
  <2> QED
    BY <2>2, <2>3, <2>4 DEF Types
<1> QED
  BY <1>1, <1>2, <1>3, <1>4, <1>5, <1>6, <1>7, <1>8, <1>9 DEF Next

-----------------------------------------------------------------------------
\* The statistics only grow, so a mean read earlier is within them.
LEMMA MeansStep == Types /\ MeansAreOld /\ [Next]_vars => MeansAreOld'
<1> SUFFICES ASSUME Types, MeansAreOld, [Next]_vars, NEW c \in Requests
             PROVE  req'[c].mean.n <= stats'.n /\ req'[c].mean.k <= stats'.k
  BY DEF MeansAreOld
<1>1. req[c] \in Analysis /\ req[c].mean.n <= stats.n /\ req[c].mean.k <= stats.k
  BY DEF Types, MeansAreOld
<1>2. /\ req[c].mean.n \in Nat /\ req[c].mean.k \in Nat
      /\ stats.n \in 0..MaxObs /\ stats.k \in 0..MaxObs
      /\ MaxObs \in Nat
  BY <1>1, GuardAssumption DEF Types, Analysis
<1>3. CASE UNCHANGED vars
  BY <1>1, <1>3 DEF vars
<1>4. CASE Forget
  BY <1>1, <1>4 DEF Forget, Types, Analysis
<1>5. ASSUME NEW d \in Requests, NEW r \in Rankings, Explain(d, r)
      PROVE  req'[c].mean.n <= stats'.n /\ req'[c].mean.k <= stats'.k
  <2>1. req'[c].mean = req[c].mean \/ req'[c].mean = [n |-> 0, k |-> 0]
    BY <1>1, <1>5 DEF Explain, Types, Analysis, Idle
  <2>2. stats' = stats
    BY <1>5 DEF Explain
  <2>3. CASE req'[c].mean = req[c].mean
    BY <1>1, <2>2, <2>3
  <2>4. CASE req'[c].mean = [n |-> 0, k |-> 0]
    BY <1>2, <2>2, <2>4
  <2> QED
    BY <2>1, <2>3, <2>4
<1>6. ASSUME NEW d \in Requests, GetPrevRanking(d) \/ SetPrevRanking(d) \/ ReadCount(d) \/ ReadDeviation(d)
      PROVE  req'[c].mean.n <= stats'.n /\ req'[c].mean.k <= stats'.k
  <2>1. CASE GetPrevRanking(d)
    BY <1>1, <2>1 DEF GetPrevRanking, Types, Analysis
  <2>2. CASE SetPrevRanking(d)
    BY <1>1, <2>2 DEF SetPrevRanking, Types, Analysis
  <2>3. CASE ReadCount(d)
    BY <1>1, <2>3, SMTT(30) DEF ReadCount, Types, Analysis
  <2>4. CASE ReadDeviation(d)
    BY <1>1, <2>4 DEF ReadDeviation, Types, Analysis
  <2> QED
    BY <1>6, <2>1, <2>2, <2>3, <2>4
<1>7. ASSUME NEW d \in Requests, UpdateGuardMetrics(d)
      PROVE  req'[c].mean.n <= stats'.n /\ req'[c].mean.k <= stats'.k
  <2>1. req'[c].mean = req[c].mean
    BY <1>1, <1>7 DEF UpdateGuardMetrics, Types, Analysis
  <2>2. stats'.n = stats.n + 1 /\ stats'.k \in {stats.k, stats.k + 1}
    BY <1>7 DEF UpdateGuardMetrics, Types
  <2> QED
    BY <1>1, <1>2, <2>1, <2>2
<1>8. ASSUME NEW d \in Requests, ReadMean(d)
      PROVE  req'[c].mean.n <= stats'.n /\ req'[c].mean.k <= stats'.k
  <2>1. req'[c].mean \in {req[c].mean, stats}
    BY <1>1, <1>8 DEF ReadMean, Types, Analysis
  <2> QED
    BY <1>1, <1>2, <1>8, <2>1 DEF ReadMean
<1> QED
  BY <1>3, <1>4, <1>5, <1>6, <1>7, <1>8 DEF Next

\* Types, and the bounds of the statistics, for any analyses and rankings.
THEOREM TypeCorrect == Spec => []TypeOK
<1>1. Init => Types /\ MeansAreOld
  BY IdleType, GuardAssumption DEF Init, Types, MeansAreOld, Idle
<1>2. Types /\ MeansAreOld /\ [Next]_vars => (Types /\ MeansAreOld)'
  BY TypesStep, MeansStep
<1>3. Types /\ MeansAreOld => TypeOK
  BY DEF Types, MeansAreOld, TypeOK, Analysis, Steps
<1> QED
  BY <1>1, <1>2, <1>3, PTL DEF Spec

-----------------------------------------------------------------------------
\* What holds of an analysis that has met no other one, by where it stands,
\* and that it is then the only one running.
OwnPrior ==
    \A c \in Requests : req[c].alone =>
        /\ req[c].pc = "get" => req[c].before = prev
        /\ req[c].pc = "set" => req[c].prior = req[c].before
        /\ req[c].pc \in {"update", "count", "mean", "dev", "done"} /\ req[c].ranking # NoCauses =>
             (req[c].unstable <=> req[c].before # NoCauses /\ req[c].before # req[c].ranking)
        /\ Running(c) => \A d \in Requests : Running(d) => d = c

\* An analysis that takes a step leaves the others as they were.
LEMMA OthersKeepTheirs ==
    ASSUME Types, NEW d \in Requests,
           \/ GetPrevRanking(d) \/ SetPrevRanking(d) \/ UpdateGuardMetrics(d)
           \/ ReadCount(d) \/ ReadMean(d) \/ ReadDeviation(d)
    PROVE  /\ Running(d)
           /\ \A c \in Requests \ {d} : req'[c] = req[c]
           /\ req'[d].alone = req[d].alone /\ req'[d].before = req[d].before
           /\ req'[d].ranking = req[d].ranking
           /\ req'[d].pc # "idle" /\ req'[d].pc # "get"
           /\ SetPrevRanking(d) \/ prev' = prev
<1>1. CASE GetPrevRanking(d)
  BY <1>1 DEF GetPrevRanking, Types, Analysis, Running
<1>2. CASE SetPrevRanking(d)
  BY <1>2 DEF SetPrevRanking, Types, Analysis, Running
<1>3. CASE UpdateGuardMetrics(d)
  BY <1>3 DEF UpdateGuardMetrics, Types, Analysis, Running
<1>4. CASE ReadCount(d)
  BY <1>4 DEF ReadCount, Types, Analysis, Running
<1>5. CASE ReadMean(d)
  BY <1>5 DEF ReadMean, Types, Analysis, Running
<1>6. CASE ReadDeviation(d)
  BY <1>6 DEF ReadDeviation, Types, Analysis, Running
<1> QED
  BY <1>1, <1>2, <1>3, <1>4, <1>5, <1>6

LEMMA OwnPriorStep == Types /\ OwnPrior /\ [Next]_vars => OwnPrior'
<1> SUFFICES ASSUME Types, OwnPrior, [Next]_vars PROVE OwnPrior'
  OBVIOUS
<1>1. CASE UNCHANGED vars
  BY <1>1 DEF vars, OwnPrior, Running
<1>2. CASE Forget
  <2>1. ASSUME NEW c \in Requests
        PROVE  /\ req[c] \in Analysis
               /\ Running(c) => ~req'[c].alone
               /\ ~Running(c) => req'[c] = req[c]
    BY <1>2 DEF Forget, Types, Analysis
  <2> QED
    BY <2>1 DEF OwnPrior, Running
<1>3. ASSUME NEW e \in Requests, NEW r \in Rankings, Explain(e, r) PROVE OwnPrior'
  <2> DEFINE others == {d \in Requests \ {e} : Running(d)}
  <2>1. /\ req'[e].pc = "get" /\ req'[e].before = prev
        /\ req'[e].alone = (others = {})
    BY <1>3 DEF Explain, Idle
  <2>2. prev' = prev
    BY <1>3 DEF Explain
  <2>3. ASSUME NEW c \in Requests \ {e}
        PROVE  /\ Running(c) => ~req'[c].alone /\ req'[c].pc = req[c].pc
               /\ ~Running(c) => req'[c] = req[c]
    BY <1>3 DEF Explain, Types, Analysis
  <2>4. ASSUME others = {}, NEW d \in Requests, Running(d)' PROVE d = e
    BY <2>3, <2>4 DEF Running
  <2>5. ASSUME NEW c \in Requests \ {e}, req'[c].alone PROVE ~Running(c) /\ req'[c] = req[c]
    BY <2>3, <2>5
  <2> HIDE DEF others
  <2>6. ASSUME req'[e].alone, NEW d \in Requests, Running(d)' PROVE d = e
    BY <2>1, <2>4, <2>6
  <2>7. ASSUME NEW c \in Requests, req'[c].alone
        PROVE  /\ req'[c].pc = "get" => req'[c].before = prev'
               /\ req'[c].pc = "set" => req'[c].prior = req'[c].before
               /\ req'[c].pc \in {"update", "count", "mean", "dev", "done"} /\ req'[c].ranking # NoCauses =>
                    (req'[c].unstable <=> req'[c].before # NoCauses /\ req'[c].before # req'[c].ranking)
               /\ Running(c)' => \A d \in Requests : Running(d)' => d = c
    <3>1. CASE c = e
      BY <2>1, <2>2, <2>6, <2>7, <3>1
    <3>2. CASE c # e
      <4>1. req'[c] = req[c] /\ ~Running(c)
        BY <2>5, <2>7, <3>2
      <4> QED
        BY <2>7, <4>1 DEF OwnPrior, Running
    <3> QED
      BY <3>1, <3>2
  <2> QED
    BY <2>7 DEF OwnPrior, Running
<1>4. ASSUME NEW d \in Requests,
             \/ GetPrevRanking(d) \/ SetPrevRanking(d) \/ UpdateGuardMetrics(d)
             \/ ReadCount(d) \/ ReadMean(d) \/ ReadDeviation(d)
      PROVE  OwnPrior'
  <2>1. /\ Running(d)
        /\ \A c \in Requests \ {d} : req'[c] = req[c]
        /\ req'[d].alone = req[d].alone /\ req'[d].before = req[d].before
        /\ req'[d].ranking = req[d].ranking
        /\ req'[d].pc # "idle" /\ req'[d].pc # "get"
        /\ SetPrevRanking(d) \/ prev' = prev
    BY <1>4, OthersKeepTheirs
  <2>2. ASSUME req[d].alone, req'[d].pc = "set" PROVE req'[d].prior = req'[d].before
    <3>1. GetPrevRanking(d)
      BY <1>4, <2>2 DEF GetPrevRanking, SetPrevRanking, UpdateGuardMetrics, ReadCount,
                        ReadMean, ReadDeviation, Types, Analysis
    <3>2. req'[d].prior = prev
      BY <3>1 DEF GetPrevRanking, Types, Analysis
    <3> QED
      BY <2>1, <2>2, <3>1, <3>2 DEF OwnPrior, GetPrevRanking
  <2>3. ASSUME req[d].alone, req'[d].ranking # NoCauses, req'[d].pc # "set"
        PROVE  req'[d].unstable <=> req'[d].before # NoCauses /\ req'[d].before # req'[d].ranking
    <3>1. CASE SetPrevRanking(d)
      <4>1. req'[d].unstable = Unstable(req[d].ranking, req[d].prior)
        BY <3>1 DEF SetPrevRanking, Types, Analysis
      <4>2. req[d].prior = req[d].before
        BY <2>3, <3>1 DEF OwnPrior, SetPrevRanking
      <4> QED
        BY <2>1, <4>1, <4>2 DEF Unstable
    <3>2. CASE UpdateGuardMetrics(d)
      BY <2>1, <2>3, <3>2 DEF UpdateGuardMetrics, OwnPrior, Types, Analysis
    <3>3. CASE ReadCount(d)
      BY <2>1, <2>3, <3>3 DEF ReadCount, OwnPrior, Types, Analysis
    <3>4. CASE ReadMean(d)
      BY <2>1, <2>3, <3>4 DEF ReadMean, OwnPrior, Types, Analysis
    <3>5. CASE ReadDeviation(d)
      BY <2>1, <2>3, <3>5 DEF ReadDeviation, OwnPrior, Types, Analysis
    <3>6. CASE GetPrevRanking(d)
      BY <2>3, <3>6 DEF GetPrevRanking, Types, Analysis
    <3> QED
      BY <1>4, <3>1, <3>2, <3>3, <3>4, <3>5, <3>6
  <2>4. ASSUME NEW c \in Requests, req'[c].alone, Running(c)' PROVE req[c].alone /\ Running(c)
    BY <2>1, <2>4 DEF Running
  <2>5. \A c \in Requests : Running(c)' => Running(c)
    BY <2>1 DEF Running
  <2>6. ASSUME NEW c \in Requests, req[c].alone, Running(c) PROVE c = d
    BY <2>1, <2>6 DEF OwnPrior
  <2>7. ASSUME NEW c \in Requests, req'[c].alone
        PROVE  /\ req'[c].pc = "get" => req'[c].before = prev'
               /\ req'[c].pc = "set" => req'[c].prior = req'[c].before
               /\ req'[c].pc \in {"update", "count", "mean", "dev", "done"} /\ req'[c].ranking # NoCauses =>
                    (req'[c].unstable <=> req'[c].before # NoCauses /\ req'[c].before # req'[c].ranking)
               /\ Running(c)' => \A e \in Requests : Running(e)' => e = c
    <3>1. CASE c = d
      BY <2>1, <2>2, <2>3, <2>4, <2>5, <2>7, <3>1 DEF OwnPrior
    <3>2. CASE c # d
      <4>1. req'[c] = req[c] /\ ~Running(c)
        BY <2>1, <2>6, <2>7, <3>2
      <4> QED
        BY <2>7, <4>1 DEF OwnPrior, Running
    <3> QED
      BY <3>1, <3>2
  <2> QED
    BY <2>7 DEF OwnPrior, Running
<1> QED
  BY <1>1, <1>2, <1>3, <1>4 DEF Next

\* FlipIsSeen: an analysis that met no other one compares its ranking with the
\* one the last analysis of the target published (pipeline.go, the prior
\* ranking), for any number of analyses and any warm-up.
THEOREM FlipSeen == Spec => []FlipIsSeen
<1>1. Init => Types /\ OwnPrior
  BY IdleType, GuardAssumption DEF Init, Types, OwnPrior, Idle, Running
<1>2. Types /\ OwnPrior /\ [Next]_vars => (Types /\ OwnPrior)'
  BY TypesStep, OwnPriorStep
<1>3. OwnPrior => FlipIsSeen
  BY DEF OwnPrior, FlipIsSeen, Done
<1> QED
  BY <1>1, <1>2, <1>3, PTL DEF Spec

-----------------------------------------------------------------------------
LEMMA TimesKeepsOrder ==
    \A p, a, b \in Int : p >= 0 /\ a <= b => p * a <= p * b
<1> SUFFICES ASSUME NEW p \in Int, NEW a \in Int, NEW b \in Int, p >= 0, a <= b
             PROVE  p * a <= p * b
  OBVIOUS
<1>1. p * (b - a) >= 0
  <2>1. b - a \in Int /\ b - a >= 0
    OBVIOUS
  <2>2. \A x, y \in Int : x >= 0 /\ y >= 0 => x * y >= 0
    OBVIOUS
  <2> QED BY <2>1, <2>2
<1>2. p * (b - a) = p * b - p * a
  OBVIOUS
<1>3. p * a \in Int /\ p * b \in Int
  OBVIOUS
<1> QED BY <1>1, <1>2, <1>3

\* A flip is more than three sigmas above the mean while fewer than every tenth
\* observation was unstable, also when the deviation is of a later moment: the
\* variance then is that of a longer series.
LEMMA RareExceeds ==
    ASSUME NEW m \in [n : Nat, k : Nat], NEW s \in [n : Nat, k : Nat],
           m.k <= m.n, m.n <= s.n, m.k <= s.k, s.k >= 1, 10 * s.k < m.n
    PROVE  Exceeds(m, s)
<1>1. PICK n \in Int, k \in Int, N \in Int, K \in Int :
        n = m.n /\ k = m.k /\ N = s.n /\ K = s.k
  <2>1. m.n \in Int /\ m.k \in Int /\ s.n \in Int /\ s.k \in Int
    OBVIOUS
  <2> QED BY <2>1
<1>2. k <= n /\ n <= N /\ k <= K /\ k >= 0 /\ K >= 1 /\ 10 * K < n
  <2>1. k >= 0
    BY <1>1
  <2> QED BY <1>1, <2>1
<1>3. 20 * (n - k) > 3 * n
  BY <1>2
<1>4. PICK b \in Int, d \in Int, j \in Int : b = n - K /\ d = N - n /\ j = n - k
  <2>1. n - K \in Int /\ N - n \in Int /\ n - k \in Int
    OBVIOUS
  <2> QED BY <2>1
<1>5. b >= 1 /\ d >= 0 /\ j >= b /\ 9 * K <= b - 1 /\ 2 * b >= n /\ n >= 11 /\ n > b
  BY <1>2, <1>4
<1>6. PICK r \in Int : r = N - K
  <2>1. N - K \in Int
    OBVIOUS
  <2> QED BY <2>1
<1>7. r = b + d /\ r >= 1 /\ N = n + d
  BY <1>4, <1>5, <1>6
\* The longer series: b * N * (N - 1) >= n * (n - 1) * (N - K).
<1>8. PICK x \in Int, y \in Int, h \in Int :
        x = b * (N * (N - 1)) /\ y = (n * (n - 1)) * r /\ h = b * (2 * n - 1) + b * d - n * (n - 1)
  <2>1. b * (N * (N - 1)) \in Int /\ (n * (n - 1)) * r \in Int /\ b * (2 * n - 1) + b * d - n * (n - 1) \in Int
    OBVIOUS
  <2> QED BY <2>1
<1>9. x - y = d * h
  <2>1. x = b * ((n + d) * (n + d - 1)) /\ y = (n * (n - 1)) * (b + d)
    BY <1>7, <1>8
  <2> QED BY <2>1, <1>8
<1>10. h >= 0
  <2>1. PICK e \in Int : e = n - 1
    <3>1. n - 1 \in Int
      OBVIOUS
    <3> QED BY <3>1
  <2>2. e * n <= e * (2 * b)
    <3>1. 2 * b \in Int /\ e >= 0
      BY <1>5, <2>1
    <3> QED BY <3>1, <1>5, TimesKeepsOrder
  <2>3. b * 0 <= b * d
    BY <1>5, TimesKeepsOrder
  <2>4. h = e * (2 * b) + b + b * d - e * n
    BY <1>8, <2>1
  <2>5. PICK p \in Int, q \in Int, t \in Int : p = e * n /\ q = e * (2 * b) /\ t = b * d
    <3>1. e * n \in Int /\ e * (2 * b) \in Int /\ b * d \in Int
      OBVIOUS
    <3> QED BY <3>1
  <2>6. t >= 0
    BY <2>3, <2>5
  <2>7. h = q + b + t - p /\ p <= q
    BY <2>2, <2>4, <2>5
  <2> QED BY <2>6, <2>7, <1>5
<1>11. x >= y
  <2>1. d * 0 <= d * h
    BY <1>5, <1>10, TimesKeepsOrder
  <2>2. PICK z \in Int : z = d * h
    <3>1. d * h \in Int
      OBVIOUS
    <3> QED BY <3>1
  <2>3. z >= 0
    BY <2>1, <2>2
  <2> QED BY <1>9, <2>2, <2>3
\* One factor of each side at a time.
<1>12. PICK u \in Int, v \in Int, w \in Int :
         u = n * r /\ v = n * (9 * K) /\ w = b * (n - 1)
  <2>1. n * r \in Int /\ n * (9 * K) \in Int /\ b * (n - 1) \in Int
    OBVIOUS
  <2> QED BY <2>1
<1>13. v <= w - 1
  <2>1. n * (9 * K) <= n * (b - 1)
    <3>1. 9 * K \in Int /\ b - 1 \in Int /\ n >= 0
      BY <1>5
    <3> QED BY <3>1, <1>5, TimesKeepsOrder
  <2>2. PICK o \in Int : o = n * b
    <3>1. n * b \in Int
      OBVIOUS
    <3> QED BY <3>1
  <2>3. n * (b - 1) = o - n /\ w = o - b
    BY <1>12, <2>2
  <2> QED BY <1>5, <1>12, <2>1, <2>3
<1>14. u >= 1
  <2>1. n * 1 <= n * r
    BY <1>5, <1>7, TimesKeepsOrder
  <2> QED BY <1>5, <1>12, <2>1
<1>15. u * v < u * w
  <2>1. u * v <= u * (w - 1)
    <3>1. w - 1 \in Int /\ u >= 0
      BY <1>14
    <3> QED BY <3>1, <1>13, TimesKeepsOrder
  <2>2. PICK p \in Int, q \in Int : p = u * v /\ q = u * w
    <3>1. u * v \in Int /\ u * w \in Int
      OBVIOUS
    <3> QED BY <3>1
  <2>3. u * (w - 1) = q - u
    BY <2>2
  <2> QED BY <1>14, <2>1, <2>2, <2>3
<1>16. u * w = b * y
  BY <1>8, <1>12
<1>17. b * y <= b * x
  BY <1>5, <1>11, TimesKeepsOrder
<1>18. PICK c \in Int : c = N * (N - 1)
  <2>1. N * (N - 1) \in Int
    OBVIOUS
  <2> QED BY <2>1
<1>19. b * x <= (j * j) * c
  <2>1. b * b <= b * j
    BY <1>5, TimesKeepsOrder
  <2>2. j * b <= j * j
    BY <1>5, TimesKeepsOrder
  <2>3. PICK p \in Int, q \in Int : p = b * b /\ q = j * j
    <3>1. b * b \in Int /\ j * j \in Int
      OBVIOUS
    <3> QED BY <3>1
  <2>4. p <= q
    <3>1. b * j = j * b
      OBVIOUS
    <3>2. b * j \in Int
      OBVIOUS
    <3> QED BY <2>1, <2>2, <2>3, <3>1, <3>2
  <2>5. c >= 0
    <3>1. (N - 1) * 0 <= (N - 1) * N
      <4>1. N - 1 \in Int /\ N - 1 >= 0 /\ N >= 0
        BY <1>2
      <4> QED BY <4>1, TimesKeepsOrder
    <3> QED BY <1>18, <3>1
  <2>6. c * p <= c * q
    BY <2>4, <2>5, TimesKeepsOrder
  <2>7. b * x = c * p
    BY <1>8, <1>18, <2>3
  <2> QED BY <2>3, <2>6, <2>7
<1>20. 9 * n * n * K * (N - K) = u * v
  BY <1>6, <1>12
<1>21. j * j * N * (N - 1) = (j * j) * c
  BY <1>18
<1>22. j * j * N * (N - 1) > 9 * n * n * K * (N - K)
  <2>1. PICK p1 \in Int, p2 \in Int, p3 \in Int, p4 \in Int :
          p1 = u * v /\ p2 = b * y /\ p3 = b * x /\ p4 = (j * j) * c
    <3>1. u * v \in Int /\ b * y \in Int /\ b * x \in Int /\ (j * j) * c \in Int
      OBVIOUS
    <3> QED BY <3>1
  <2>2. p1 < p2 /\ p2 <= p3 /\ p3 <= p4
    BY <1>15, <1>16, <1>17, <1>19, <2>1
  <2>3. p4 > p1
    BY <2>2
  <2> QED BY <1>20, <1>21, <2>1, <2>3
<1> QED BY <1>1, <1>3, <1>4, <1>22 DEF Exceeds

\* What an analysis knows by where it stands: its own flip is counted, the
\* profile was warm when it got past the count, and RareFlipFires at the end.
Judged(c) ==
    /\ req[c].mean.k <= req[c].mean.n
    /\ req[c].pc \in {"count", "mean", "dev"} /\ req[c].unstable => stats.k >= 1
    /\ req[c].pc = "mean" => stats.n >= MinObs
    /\ req[c].pc = "dev" => req[c].mean.n >= MinObs
    /\ req[c].pc = "done" /\ req[c].unstable /\ req[c].ranking # NoCauses /\ ~req[c].fired =>
         10 * req[c].dev.k >= req[c].mean.n /\ req[c].mean.n >= MinObs

LEMMA JudgedStep ==
    Types /\ MeansAreOld /\ (\A c \in Requests : Judged(c)) /\ [Next]_vars
        => (\A c \in Requests : Judged(c))'
<1> SUFFICES ASSUME Types, MeansAreOld, \A c \in Requests : Judged(c), [Next]_vars,
                    NEW c \in Requests
             PROVE  Judged(c)'
  OBVIOUS
<1>1. Judged(c)
  OBVIOUS
<1>2. /\ req[c] \in Analysis /\ stats.k <= stats.n /\ stats \in [n : Nat, k : Nat]
      /\ req[c].mean \in [n : Nat, k : Nat] /\ MinObs \in Nat
      /\ req[c].mean.n <= stats.n /\ req[c].mean.k <= stats.k
  <2>1. stats.k <= stats.n /\ stats \in [n : Nat, k : Nat] /\ req[c] \in Analysis
    BY GuardAssumption DEF Types
  <2> QED BY <2>1, GuardAssumption DEF MeansAreOld, Analysis
<1>3. CASE UNCHANGED vars
  BY <1>1, <1>3 DEF vars, Judged
<1>4. ASSUME stats' = stats, req'[c] = req[c] \/ req'[c] = [req[c] EXCEPT !.alone = FALSE]
      PROVE  Judged(c)'
  <2>1. /\ req'[c].pc = req[c].pc /\ req'[c].unstable = req[c].unstable
        /\ req'[c].ranking = req[c].ranking /\ req'[c].fired = req[c].fired
        /\ req'[c].mean = req[c].mean /\ req'[c].dev = req[c].dev
    BY <1>2, <1>4 DEF Analysis
  <2> QED BY <1>1, <1>4, <2>1 DEF Judged
<1>5. CASE Forget
  <2>1. req'[c] = (IF Running(c) THEN [req[c] EXCEPT !.alone = FALSE] ELSE req[c]) /\ stats' = stats
    BY <1>5 DEF Forget
  <2> QED BY <1>4, <2>1
<1>6. ASSUME NEW d \in Requests, NEW r \in Rankings, Explain(d, r) PROVE Judged(c)'
  <2>1. stats' = stats
    BY <1>6 DEF Explain
  <2>2. CASE c = d
    <3>1. req'[c].pc = "get" /\ req'[c].mean = [n |-> 0, k |-> 0]
      BY <1>6, <2>2 DEF Explain, Idle
    <3> QED BY <3>1 DEF Judged
  <2>3. CASE c # d
    <3>1. req'[c] = req[c] \/ req'[c] = [req[c] EXCEPT !.alone = FALSE]
      BY <1>6, <2>3 DEF Explain
    <3> QED BY <1>4, <2>1, <3>1
  <2> QED BY <2>2, <2>3
<1>7. ASSUME NEW d \in Requests, UpdateGuardMetrics(d) PROVE Judged(c)'
  <2>1. /\ stats'.n = stats.n + 1
        /\ stats'.k = (IF req[d].unstable THEN stats.k + 1 ELSE stats.k)
    BY <1>7 DEF UpdateGuardMetrics
  <2>2. stats'.n >= stats.n /\ stats'.k >= stats.k
    BY <1>2, <2>1
  <2>3. CASE c # d
    <3>1. req'[c] = req[c]
      BY <1>7, <2>3 DEF UpdateGuardMetrics
    <3>2. stats'.n \in Nat /\ stats'.k \in Nat
      BY <1>2, <2>1
    <3>3. req[c].pc \in {"count", "mean", "dev"} /\ req[c].unstable => stats'.k >= 1
      BY <1>1, <1>2, <2>2, <3>2 DEF Judged
    <3>4. req[c].pc = "mean" => stats'.n >= MinObs
      BY <1>1, <1>2, <2>2, <3>2 DEF Judged
    <3> QED BY <1>1, <3>1, <3>3, <3>4 DEF Judged
  <2>4. CASE c = d
    <3>1. /\ req'[c].pc = "count" /\ req'[c].unstable = req[c].unstable
          /\ req'[c].mean = req[c].mean
      BY <1>2, <1>7, <2>4 DEF UpdateGuardMetrics, Types, Analysis
    <3>2. req[c].unstable => stats'.k >= 1
      BY <1>2, <2>1, <2>4
    <3> QED BY <1>1, <3>1, <3>2 DEF Judged
  <2> QED BY <2>3, <2>4
<1>8. ASSUME NEW d \in Requests,
             GetPrevRanking(d) \/ SetPrevRanking(d) \/ ReadCount(d) \/ ReadMean(d) \/ ReadDeviation(d)
      PROVE  Judged(c)'
  <2>1. stats' = stats
    BY <1>8 DEF GetPrevRanking, SetPrevRanking, ReadCount, ReadMean, ReadDeviation
  <2>2. CASE c # d
    <3>1. req'[c] = req[c]
      BY <1>8, <2>2, OthersKeepTheirs
    <3> QED BY <1>4, <2>1, <3>1
  <2>3. CASE c = d
    <3>1. CASE GetPrevRanking(c)
      <4>1. req'[c].pc = "set" /\ req'[c].mean = req[c].mean
        BY <1>2, <3>1 DEF GetPrevRanking, Types, Analysis
      <4> QED BY <1>1, <4>1 DEF Judged
    <3>2. CASE SetPrevRanking(c)
      <4>1. /\ req'[c].mean = req[c].mean /\ req'[c].ranking = req[c].ranking
            /\ req'[c].pc = (IF req[c].ranking = NoCauses THEN "done" ELSE "update")
        BY <1>2, <3>2 DEF SetPrevRanking, Types, Analysis
      <4>2. req'[c].pc = "done" => req'[c].ranking = NoCauses
        BY <4>1
      <4>3. req'[c].pc \in {"done", "update"}
        BY <4>1
      <4> QED BY <1>1, <4>1, <4>2, <4>3 DEF Judged
    <3>3. CASE ReadCount(c)
      <4>1. /\ req'[c].mean = req[c].mean /\ req'[c].unstable = req[c].unstable
            /\ req[c].pc = "count"
            /\ \/ req'[c].pc = "done" /\ req'[c].fired = req[c].unstable
               \/ req'[c].pc = "mean" /\ stats.n >= MinObs
        <5>1. CASE stats.n < MinObs
          BY <1>2, <3>3, <5>1 DEF ReadCount, Types, Analysis
        <5>2. CASE ~(stats.n < MinObs)
          <6>1. stats.n >= MinObs
            BY <1>2, <5>2
          <6> QED BY <1>2, <3>3, <5>2, <6>1 DEF ReadCount, Types, Analysis
        <5> QED BY <5>1, <5>2
      <4> QED BY <1>1, <2>1, <4>1 DEF Judged
    <3>4. CASE ReadMean(c)
      <4>1. /\ req'[c].pc = "dev" /\ req'[c].mean = stats
            /\ req'[c].unstable = req[c].unstable /\ req[c].pc = "mean"
        BY <1>2, <3>4 DEF ReadMean, Types, Analysis
      <4>2. stats.n >= MinObs /\ (req[c].unstable => stats.k >= 1)
        BY <1>1, <4>1 DEF Judged
      <4> QED BY <1>2, <2>1, <4>1, <4>2 DEF Judged
    <3>5. CASE ReadDeviation(c)
      <4>1. /\ req'[c].mean = req[c].mean /\ req'[c].dev = stats
            /\ req'[c].unstable = req[c].unstable
            /\ req'[c].pc = "done" /\ req[c].pc = "dev"
            /\ req'[c].fired = (req[c].unstable /\ Exceeds(req[c].mean, stats))
        BY <1>2, <3>5 DEF ReadDeviation, Types, Analysis
      <4>2. req[c].mean.n >= MinObs /\ (req[c].unstable => stats.k >= 1) /\ req[c].mean.k <= req[c].mean.n
        BY <1>1, <4>1 DEF Judged
      <4>3. ASSUME req'[c].unstable, ~req'[c].fired PROVE 10 * stats.k >= req[c].mean.n
        <5>1. ~Exceeds(req[c].mean, stats)
          BY <4>1, <4>3
        <5>2. CASE 10 * stats.k < req[c].mean.n
          <6>1. Exceeds(req[c].mean, stats)
            BY <1>2, <4>1, <4>2, <4>3, <5>2, RareExceeds
          <6> QED BY <5>1, <6>1
        <5>3. stats.k \in Nat /\ req[c].mean.n \in Nat
          BY <1>2
        <5> QED BY <5>2, <5>3
      <4> QED BY <4>1, <4>2, <4>3 DEF Judged
    <3> QED BY <1>8, <2>3, <3>1, <3>2, <3>3, <3>4, <3>5
  <2> QED BY <2>2, <2>3
<1> QED
  BY <1>3, <1>5, <1>6, <1>7, <1>8 DEF Next

\* RareFlipFires: a flip that gate 5 passes over was preceded by enough unstable
\* observations, for any number of overlapping analyses and any warm-up, however
\* the reads of the count, the mean and the deviation fall between updates.
THEOREM RareFlip == Spec => []RareFlipFires
<1> DEFINE Inv == Types /\ MeansAreOld /\ \A c \in Requests : Judged(c)
<1>1. Init => Inv
  <2>1. Init => Types /\ MeansAreOld
    BY IdleType, GuardAssumption DEF Init, Types, MeansAreOld, Idle
  <2>2. ASSUME Init, NEW c \in Requests PROVE Judged(c)
    <3>1. req[c] = Idle
      BY <2>2 DEF Init
    <3>2. req[c].pc = "idle" /\ req[c].mean.k <= req[c].mean.n
      BY <3>1 DEF Idle
    <3> QED BY <3>2 DEF Judged
  <2> QED BY <2>1, <2>2
<1>2. Inv /\ [Next]_vars => Inv'
  BY TypesStep, MeansStep, JudgedStep
<1>3. Inv => RareFlipFires
  BY DEF Judged, RareFlipFires, Done
<1> QED
  BY <1>1, <1>2, <1>3, PTL DEF Spec
=============================================================================
