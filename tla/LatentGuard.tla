----------------------------- MODULE LatentGuard ----------------------------
(***************************************************************************)
(* Ranking instability across the analyses of one target: the prior        *)
(* ranking kept in an LRU cache (pipeline.go) and the adaptive profile     *)
(* that decides whether an instability is an anomaly (latent_guard.go,     *)
(* pkg/adaptive).  Analyses of the same target run concurrently; the cache *)
(* and every statistic have their own lock, so another analysis can run    *)
(* between any two calls.                                                  *)
(*                                                                         *)
(* A ranking has at most two causes here, for which lgRankInstability is 0 *)
(* or 1, and the statistics of a 0/1 series are exactly the number of      *)
(* observations n and of ones k: mean k/n, sample variance                 *)
(* k(n-k)/(n(n-1)).  Welford's clamp at 5 sigma cannot bite on such a      *)
(* series up to MaxObs = 26 observations.                                  *)
(***************************************************************************)
EXTENDS Naturals, TLC

CONSTANTS
    Requests,   \* analyses that may overlap
    Rankings,   \* values of Explanation.Causes, of at most two causes each
    NoCauses,   \* the empty one, also the prior of a target seen first
    MinObs,     \* ABSIA_WARMUP_OBSERVATIONS, 10 by default
    MaxObs      \* bound on the observations of the profile

ASSUME GuardAssumption == MinObs \in Nat /\ MaxObs \in 0..26 /\ NoCauses \in Rankings

VARIABLES
    prev,   \* the ranking in the cache, NoCauses when absent
    stats,  \* the instability statistics of the target's profile
    req     \* the analyses

vars == <<prev, stats, req>>

Idle == [pc |-> "idle", ranking |-> NoCauses, prior |-> NoCauses, unstable |-> FALSE,
         mean |-> [n |-> 0, k |-> 0], dev |-> [n |-> 0, k |-> 0], fired |-> FALSE,
         before |-> NoCauses, alone |-> TRUE]

Init ==
    /\ prev = NoCauses
    /\ stats = [n |-> 0, k |-> 0]
    /\ req = [c \in Requests |-> Idle]

Running(c) == req[c].pc \notin {"idle", "done"}

-----------------------------------------------------------------------------
\* Phase 4 explains the target.  before and alone are history: the cache at
\* this moment, and whether the analysis has met no other one so far.
Explain(c, ranking) ==
    /\ ~Running(c)
    /\ LET others == {d \in Requests \ {c} : Running(d)} IN
         req' = [d \in Requests |->
                   CASE d = c -> [Idle EXCEPT !.pc = "get", !.ranking = ranking, !.before = prev,
                                              !.alone = (others = {})]
                     [] d \in others -> [req[d] EXCEPT !.alone = FALSE]
                     [] OTHER -> req[d]]
    /\ UNCHANGED <<prev, stats>>

\* Mutant of GetPrevRanking: the new ranking is stored before the old is read.
GetAfterSet(c) ==
    /\ req[c].pc = "get"
    /\ req' = [req EXCEPT ![c].pc = "set", ![c].prior = req[c].ranking]
    /\ UNCHANGED <<prev, stats>>

GetPrevRanking(c) ==
    /\ req[c].pc = "get"
    /\ req' = [req EXCEPT ![c].pc = "set", ![c].prior = prev]
    /\ UNCHANGED <<prev, stats>>

\* lgRankInstability for at most two causes: any difference is total.
Unstable(current, prior) == prior # NoCauses /\ current # prior

\* An analysis without causes still replaces the prior, then ends with the
\* empty gate, which does not touch the profile.
SetPrevRanking(c) ==
    /\ req[c].pc = "set"
    /\ prev' = req[c].ranking
    /\ req' = [req EXCEPT ![c].pc = IF req[c].ranking = NoCauses THEN "done" ELSE "update",
                          ![c].prior = NoCauses,
                          ![c].unstable = Unstable(req[c].ranking, req[c].prior)]
    /\ UNCHANGED stats

\* A thousand other targets push this one out of the cache.
Forget ==
    /\ prev # NoCauses
    /\ prev' = NoCauses
    /\ req' = [c \in Requests |-> IF Running(c) THEN [req[c] EXCEPT !.alone = FALSE] ELSE req[c]]
    /\ UNCHANGED stats

\* UpdateGuardMetrics: the observation enters the statistics first ...
UpdateGuardMetrics(c) ==
    /\ req[c].pc = "update" /\ stats.n < MaxObs
    /\ stats' = [n |-> stats.n + 1, k |-> IF req[c].unstable THEN stats.k + 1 ELSE stats.k]
    /\ req' = [req EXCEPT ![c].pc = "count"]
    /\ UNCHANGED prev

\* ... and is then compared with them: Evaluate reads the count, the mean and
\* the deviation one lock at a time.
ReadCount(c) ==
    /\ req[c].pc = "count"
    /\ IF stats.n < MinObs
       THEN req' = [req EXCEPT ![c].pc = "done", ![c].fired = req[c].unstable]
       ELSE req' = [req EXCEPT ![c].pc = "mean"]
    /\ UNCHANGED <<prev, stats>>

ReadMean(c) ==
    /\ req[c].pc = "mean"
    /\ req' = [req EXCEPT ![c].pc = "dev", ![c].mean = stats]
    /\ UNCHANGED <<prev, stats>>

\* Mutant of Exceeds: four sigmas.
ExceedsFourSigma(m, s) ==
    /\ 20 * (m.n - m.k) > 4 * m.n
    /\ (m.n - m.k) * (m.n - m.k) * s.n * (s.n - 1) > 16 * m.n * m.n * s.k * (s.n - s.k)

\* 1 > mean + 3 * max(sigma, 0.05), multiplied out; m gives the mean and s
\* the deviation, which may be of a later moment (dev remembers which).
Exceeds(m, s) ==
    /\ 20 * (m.n - m.k) > 3 * m.n
    /\ (m.n - m.k) * (m.n - m.k) * s.n * (s.n - 1) > 9 * m.n * m.n * s.k * (s.n - s.k)

ReadDeviation(c) ==
    /\ req[c].pc = "dev"
    /\ req' = [req EXCEPT ![c].pc = "done", ![c].dev = stats,
                          ![c].fired = req[c].unstable /\ Exceeds(req[c].mean, stats)]
    /\ UNCHANGED <<prev, stats>>

Next ==
    \/ Forget
    \/ \E c \in Requests :
         \/ \E r \in Rankings : Explain(c, r)
         \/ GetPrevRanking(c) \/ SetPrevRanking(c) \/ UpdateGuardMetrics(c)
         \/ ReadCount(c) \/ ReadMean(c) \/ ReadDeviation(c)

Spec == Init /\ [][Next]_vars

\* For the model checker: analyses and rankings are interchangeable.
Symmetry == Permutations(Requests) \union Permutations(Rankings \ {NoCauses})

-----------------------------------------------------------------------------
TypeOK ==
    /\ prev \in Rankings
    /\ stats \in [n : 0..MaxObs, k : 0..MaxObs] /\ stats.k <= stats.n
    /\ \A c \in Requests :
         /\ req[c].pc \in {"idle", "get", "set", "update", "count", "mean", "dev", "done"}
         /\ req[c].mean.n <= stats.n /\ req[c].mean.k <= stats.k

Done(c) == req[c].pc = "done"

\* An analysis that met no other one compares its ranking with the one the
\* previous analysis of the target published, and a flip is seen.
FlipIsSeen ==
    \A c \in Requests :
        Done(c) /\ req[c].alone /\ req[c].ranking # NoCauses =>
            (req[c].unstable <=> req[c].before # NoCauses /\ req[c].before # req[c].ranking)

\* What gate 5 promises for a ranking that flips, whatever other analyses do
\* between the three reads: it is silent only once at least a tenth of what the
\* profile had observed was unstable, and then the profile was warm.
RareFlipFires ==
    \A c \in Requests :
        Done(c) /\ req[c].unstable /\ req[c].ranking # NoCauses /\ ~req[c].fired =>
            /\ 10 * req[c].dev.k >= req[c].mean.n
            /\ req[c].mean.n >= MinObs
=============================================================================
