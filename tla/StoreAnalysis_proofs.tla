------------------------ MODULE StoreAnalysis_proofs ------------------------
(***************************************************************************)
(* Theorems about the store and one analysis that reads it while writers   *)
(* and the eviction of containers change it, for any nodes, any window and *)
(* any number of samples and removals.                                     *)
(***************************************************************************)
EXTENDS StoreAnalysis, WellFoundedInduction, TLAPS

-----------------------------------------------------------------------------
(***************************************************************************)
(* The store by itself: the window of a node is the newest part of its     *)
(* history.                                                                *)
(***************************************************************************)

\* New never leaves a window smaller than the analysis minimum.
LEMMA WindowSizePos == WindowSize \in Nat \ {0} /\ WindowSize >= MinSamples
BY StoreAssumption DEF WindowSize

\* LastOf returns a sequence over the same set, of at most k elements, whose
\* i-th element is the i-th of the last k of s.
LEMMA LastOfFacts ==
    ASSUME NEW S, NEW s \in Seq(S), NEW k \in Nat \ {0}
    PROVE  /\ LastOf(s, k) \in Seq(S)
           /\ Len(LastOf(s, k)) = IF Len(s) > k THEN k ELSE Len(s)
           /\ \A i \in 1..Len(LastOf(s, k)) :
                LastOf(s, k)[i] = s[Len(s) - Len(LastOf(s, k)) + i]
<1>1. CASE Len(s) > k
  <2>1. /\ Len(s) - k + 1 \in 1..Len(s)
        /\ Len(s) \in Nat
    BY <1>1
  <2>2. LastOf(s, k) = SubSeq(s, Len(s) - k + 1, Len(s))
    BY <1>1 DEF LastOf
  <2>3. LastOf(s, k) \in Seq(S) /\ Len(LastOf(s, k)) = k
    BY <2>1, <2>2
  <2>4. \A i \in 1..k : LastOf(s, k)[i] = s[Len(s) - k + i]
    BY <2>1, <2>2
  <2> QED BY <1>1, <2>3, <2>4
<1>2. CASE ~(Len(s) > k)
  BY <1>2 DEF LastOf
<1> QED BY <1>1, <1>2

\* An empty history has an empty window.
LEMMA LastOfEmpty == ASSUME NEW k \in Nat PROVE LastOf(<< >>, k) = << >>
BY DEF LastOf

\* Trimming a trimmed history after one more append is trimming the history.
LEMMA TrimAppend ==
    ASSUME NEW S, NEW l \in Seq(S), NEW x \in S, NEW k \in Nat \ {0}
    PROVE  LastOf(Append(LastOf(l, k), x), k) = LastOf(Append(l, x), k)
<1> DEFINE kept == LastOf(l, k)
           tx == Append(kept, x)
           lx == Append(l, x)
           u == LastOf(tx, k)
           v == LastOf(lx, k)
<1>1. /\ kept \in Seq(S)
      /\ Len(kept) = IF Len(l) > k THEN k ELSE Len(l)
      /\ \A i \in 1..Len(kept) : kept[i] = l[Len(l) - Len(kept) + i]
  BY LastOfFacts
<1> HIDE DEF kept
<1>2. tx \in Seq(S) /\ lx \in Seq(S)
  BY <1>1
<1>3. /\ Len(tx) = Len(kept) + 1 /\ tx[Len(kept) + 1] = x
      /\ \A i \in 1..Len(kept) : tx[i] = kept[i]
      /\ Len(lx) = Len(l) + 1 /\ lx[Len(l) + 1] = x
      /\ \A i \in 1..Len(l) : lx[i] = l[i]
  BY <1>1
<1> HIDE DEF tx, lx
<1>4. /\ u \in Seq(S)
      /\ Len(u) = IF Len(tx) > k THEN k ELSE Len(tx)
      /\ \A i \in 1..Len(u) : u[i] = tx[Len(tx) - Len(u) + i]
  BY <1>2, LastOfFacts
<1>5. /\ v \in Seq(S)
      /\ Len(v) = IF Len(lx) > k THEN k ELSE Len(lx)
      /\ \A i \in 1..Len(v) : v[i] = lx[Len(lx) - Len(v) + i]
  BY <1>2, LastOfFacts
<1> HIDE DEF u, v
<1>0. Len(kept) \in Nat /\ Len(l) \in Nat /\ Len(u) \in Nat /\ Len(v) \in Nat
  BY <1>1, <1>4, <1>5
<1>6. Len(u) = Len(v)
  BY <1>0, <1>1, <1>3, <1>4, <1>5
<1>7. ASSUME NEW i \in 1..Len(u) PROVE u[i] = v[i]
  <2>1. u[i] = tx[Len(kept) + 1 - Len(u) + i]
    <3>1. u[i] = tx[Len(tx) - Len(u) + i] BY <1>4
    <3>2. Len(tx) = Len(kept) + 1 BY <1>3
    <3> QED BY <3>1, <3>2
  <2>2. v[i] = lx[Len(l) + 1 - Len(u) + i]
    <3>1. v[i] = lx[Len(lx) - Len(v) + i] BY <1>5, <1>6
    <3>2. Len(lx) = Len(l) + 1 BY <1>3
    <3> QED BY <3>1, <3>2, <1>6
  <2>3. CASE i = Len(u)
    BY <2>1, <2>2, <2>3, <1>0, <1>3
  <2>4. CASE i < Len(u)
    <3> DEFINE j == Len(kept) + 1 - Len(u) + i
               m == Len(l) + 1 - Len(u) + i
    <3>1. j \in 1..Len(kept) /\ m \in 1..Len(l) /\ m = Len(l) - Len(kept) + j
      <4>1. Len(u) = IF Len(kept) + 1 > k THEN k ELSE Len(kept) + 1
        BY <1>3, <1>4
      <4>2. i \in Nat /\ i >= 1 /\ Len(kept) <= Len(l) /\ Len(kept) <= k
        BY <1>0, <1>1
      <4> QED BY <2>4, <1>0, <4>1, <4>2
    <3>2. tx[j] = kept[j] /\ lx[m] = l[m] /\ kept[j] = l[m]
      BY <3>1, <1>1, <1>3
    <3> QED BY <2>1, <2>2, <3>2
  <2> QED BY <2>3, <2>4, <1>0
<1>8. u = v
  BY <1>4, <1>5, <1>6, <1>7
<1> QED BY <1>8 DEF u, v, tx, lx, kept

-----------------------------------------------------------------------------
\* Type correctness of the store and its history; the window bound is part
\* of it because the trim in Put is what keeps it.
THEOREM TypeCorrect == Spec => []TypeOK
<1>1. Init => TypeOK
  BY WindowSizePos DEF Init, New, TypeOK
<1>2. TypeOK /\ [Next]_vars => TypeOK'
  <2> SUFFICES ASSUME TypeOK, [Next]_vars PROVE TypeOK'
    OBVIOUS
  <2>1. ASSUME NEW id \in NodeIDs, Remove(id) PROVE TypeOK'
    BY <2>1, WindowSizePos DEF Remove, RemoveNode, TypeOK
  <2>2. ASSUME NEW id \in NodeIDs, NEW x \in Samples, PutSample(id, x)
        PROVE  TypeOK'
    <3>1. Append(nodes[id], x) \in Seq(Samples) /\ Append(log[id], x) \in Seq(Samples)
      BY DEF TypeOK
    <3>2. Trimmed(nodes[id], x) \in Seq(Samples)
          /\ Len(Trimmed(nodes[id], x)) <= WindowSize
      <4> DEFINE w == Append(nodes[id], x)
                 k == WindowSize
      <4>1. w \in Seq(Samples) /\ k \in Nat \ {0}
        BY <3>1, WindowSizePos
      <4> HIDE DEF w, k
      <4>2. LastOf(w, k) \in Seq(Samples) /\ Len(LastOf(w, k)) <= k
        BY <4>1, LastOfFacts
      <4> QED BY <4>2 DEF w, k, Trimmed
    <3> QED BY <2>2, <3>1, <3>2 DEF PutSample, Put, TypeOK
  <2>3. CASE UNCHANGED vars
    BY <2>3 DEF vars, TypeOK
  <2> QED BY <2>1, <2>2, <2>3 DEF Next
<1> QED BY <1>1, <1>2, PTL DEF Spec

\* A node's window is the newest WindowSize samples of its history: the
\* store's documented promise, for every interleaving of Put and RemoveNode.
THEOREM WindowNewest == Spec => []WindowIsNewest
<1>1. Init => WindowIsNewest
  BY WindowSizePos, LastOfEmpty DEF Init, New, WindowIsNewest
<1>2. TypeOK /\ WindowIsNewest /\ [Next]_vars => WindowIsNewest'
  <2> SUFFICES ASSUME TypeOK, WindowIsNewest, [Next]_vars PROVE WindowIsNewest'
    OBVIOUS
  <2>1. ASSUME NEW id \in NodeIDs, Remove(id) PROVE WindowIsNewest'
    BY <2>1, WindowSizePos, LastOfEmpty DEF Remove, RemoveNode, TypeOK, WindowIsNewest
  <2>2. ASSUME NEW id \in NodeIDs, NEW x \in Samples, PutSample(id, x)
        PROVE  WindowIsNewest'
    <3>1. Trimmed(nodes[id], x) = LastOf(Append(log[id], x), WindowSize)
      BY TrimAppend, WindowSizePos DEF Trimmed, TypeOK, WindowIsNewest
    <3> QED BY <2>2, <3>1 DEF PutSample, Put, TypeOK, WindowIsNewest
  <2>3. CASE UNCHANGED vars
    BY <2>3 DEF vars, WindowIsNewest
  <2> QED BY <2>1, <2>2, <2>3 DEF Next
<1> QED BY <1>1, <1>2, TypeCorrect, PTL DEF Spec

\* Consequence for callers: the store reports enough real data exactly when
\* some node has received MinSamples samples since it was last removed.
THEOREM ReadyCorrect == Spec => []ReadyIffEnoughSeen
<1>1. TypeOK /\ WindowIsNewest => ReadyIffEnoughSeen
  <2> SUFFICES ASSUME TypeOK, WindowIsNewest PROVE ReadyIffEnoughSeen
    OBVIOUS
  <2>1. ASSUME NEW id \in NodeIDs
        PROVE  SampleCount(id) >= MinSamples <=> Len(log[id]) >= MinSamples
    <3>1. log[id] \in Seq(Samples) /\ nodes[id] = LastOf(log[id], WindowSize)
      BY DEF TypeOK, WindowIsNewest
    <3>2. Len(nodes[id]) = IF Len(log[id]) > WindowSize THEN WindowSize ELSE Len(log[id])
      BY <3>1, LastOfFacts, WindowSizePos
    <3> QED BY <3>1, <3>2, WindowSizePos, StoreAssumption DEF SampleCount
  <2> QED BY <2>1 DEF ReadyIffEnoughSeen, HasRealData
<1> QED BY <1>1, TypeCorrect, WindowNewest, PTL

-----------------------------------------------------------------------------
(***************************************************************************)
(* The analysis that reads it.                                             *)
(***************************************************************************)

\* The least element of a nonempty set of numbers exists, so the loops of the
\* analysis (over node names in their sorted order) have a next node.
LEMMA MinIsLeast ==
    ASSUME NEW S \in SUBSET Nat, S # {}
    PROVE  Min(S) \in S
<1>1. PICK x \in S : \A y \in S : ~ (<<y, x>> \in OpToRel(<, Nat))
  BY NatLessThanWellFounded, WFMin
<1>2. \A y \in S : <<y, x>> \in OpToRel(<, Nat) <=> y < x
  BY DEF OpToRel
<1>3. \A y \in S : ~ (y < x)
  BY <1>1, <1>2, Zenon
<1>4. \A y \in S : x <= y
  BY <1>3
<1> QED
  BY <1>4 DEF Min

LEMMA CurrentInTodo == ASSUME todo \subseteq NodeIDs, todo # {} PROVE Current \in todo /\ Rest \subseteq todo
BY AnalysisAssumption, MinIsLeast DEF Current, Rest

\* u is the window s after x: the new sample last, before it the old ones,
\* moved by one place (o = 1) when the window was full.
Shifted(s, x, u) ==
    /\ Len(u) \in 1..WindowSize
    /\ u[Len(u)] = x
    /\ \E o \in {0, 1} :
         /\ Len(u) = Len(s) + 1 - o
         /\ \A i \in 1..(Len(u) - 1) : i + o \in 1..Len(s) /\ u[i] = s[i + o]

\* What Put leaves of a window.
LEMMA PutShifts ==
    ASSUME NEW S, NEW s \in Seq(S), NEW x \in S, Len(s) <= WindowSize
    PROVE  Trimmed(s, x) \in Seq(S) /\ Shifted(s, x, Trimmed(s, x))
<1> DEFINE u == Trimmed(s, x)
           sx == Append(s, x)
           k == WindowSize
<1>1. /\ sx \in Seq(S) /\ Len(sx) = Len(s) + 1 /\ sx[Len(s) + 1] = x /\ Len(s) \in Nat
      /\ \A i \in 1..Len(s) : sx[i] = s[i]
  OBVIOUS
<1>2. k \in Nat \ {0}
  BY WindowSizePos
<1> HIDE DEF sx, k
<1>3. /\ LastOf(sx, k) \in Seq(S)
      /\ Len(LastOf(sx, k)) = IF Len(sx) > k THEN k ELSE Len(sx)
      /\ \A i \in 1..Len(LastOf(sx, k)) : LastOf(sx, k)[i] = sx[Len(sx) - Len(LastOf(sx, k)) + i]
  BY <1>1, <1>2, LastOfFacts
<1>4. u = LastOf(sx, k)
  BY DEF Trimmed, sx, k
<1> HIDE DEF u
<1>a. Len(sx) = Len(s) + 1
  BY <1>1
<1>b. \A i \in 1..Len(u) : u[i] = sx[Len(sx) - Len(u) + i]
  BY <1>3, <1>4
<1>5. /\ u \in Seq(S) /\ Len(u) = (IF Len(s) + 1 > k THEN k ELSE Len(s) + 1)
      /\ \A i \in 1..Len(u) : u[i] = sx[Len(s) + 1 - Len(u) + i]
  <2>1. u \in Seq(S) /\ Len(u) = (IF Len(s) + 1 > k THEN k ELSE Len(s) + 1)
    BY <1>3, <1>4, <1>a
  <2> QED
    BY <2>1, <1>a, <1>b, SMTT(30)
<1>6. Len(s) <= k
  BY DEF k
<1>7. Len(u) \in 1..k /\ Len(s) + 1 - Len(u) \in {0, 1}
  BY <1>1, <1>2, <1>5, <1>6
<1>8. u[Len(u)] = x
  <2>1. Len(u) \in 1..Len(u) /\ Len(s) + 1 - Len(u) + Len(u) = Len(s) + 1
    BY <1>1, <1>2, <1>7
  <2> QED
    BY <1>1, <1>5, <2>1
<1>9. ASSUME NEW i \in 1..(Len(u) - 1)
      PROVE  i + (Len(s) + 1 - Len(u)) \in 1..Len(s) /\ u[i] = s[i + (Len(s) + 1 - Len(u))]
  <2>1. i + (Len(s) + 1 - Len(u)) \in 1..Len(s)
    BY <1>1, <1>2, <1>7
  <2>2. u[i] = sx[i + (Len(s) + 1 - Len(u))]
    <3>1. i \in 1..Len(u) /\ Len(s) + 1 - Len(u) + i = i + (Len(s) + 1 - Len(u))
      BY <1>1, <1>2, <1>7
    <3>2. u[i] = sx[Len(s) + 1 - Len(u) + i]
      BY <1>5, <3>1
    <3> QED
      BY <3>1, <3>2, Zenon
  <2> QED
    BY <1>1, <2>1, <2>2
<1>10. PICK o \in {0, 1} : o = Len(s) + 1 - Len(u)
  BY <1>7
<1>11. Len(u) = Len(s) + 1 - o /\ \A i \in 1..(Len(u) - 1) : i + o \in 1..Len(s) /\ u[i] = s[i + o]
  BY <1>1, <1>2, <1>7, <1>9, <1>10
<1> QED
  BY <1>5, <1>7, <1>8, <1>11 DEF u, k, Shifted

-----------------------------------------------------------------------------
Types ==
    /\ AnalysisTypeOK
    /\ nodes \in [NodeIDs -> Seq(AnalysisSamples)]
    /\ \A id \in NodeIDs : Len(nodes[id]) <= WindowSize
    /\ startClock \in 0..clock /\ removedSince \subseteq NodeIDs

\* How far the dataset is, by where the analysis stands.
Filled ==
    /\ pc \in {"idle", "list", "validate", "qualify"} =>
          t = 0 /\ \A id \in NodeIDs : dataset[id] = << >>
    /\ pc \in {"build", "quality", "phase1", "states", "done"} =>
          todo \subseteq qualified /\ qualified # {} /\ maxLen >= MinSamples
    /\ pc = "build" =>
          t < maxLen /\ \A id \in qualified : Len(dataset[id]) = IF id \in todo THEN t ELSE t + 1
    /\ pc \in {"quality", "phase1", "states", "done"} =>
          \A id \in qualified : Len(dataset[id]) = maxLen

LEMMA TypesStep == Types /\ Filled /\ [AnalysisNext]_analysisVars => Types'
<1> SUFFICES ASSUME Types, Filled, [AnalysisNext]_analysisVars PROVE Types'
  OBVIOUS
<1> USE AnalysisAssumption, StoreAssumption, MaxPutsAssumption, WindowSizePos
<1>1. CASE UNCHANGED analysisVars
  BY <1>1 DEF analysisVars, run, history, env, Types, AnalysisTypeOK, AnalysisSamples
<1>2. ASSUME NEW id \in NodeIDs, NEW ok \in BOOLEAN, Write(id, ok) PROVE Types'
  <2> DEFINE x == [seq |-> clock + 1, ok |-> ok]
  <2>1. x \in AnalysisSamples /\ clock' = clock + 1 /\ clock' \in 0..MaxPuts
    BY <1>2 DEF Write, Types, AnalysisTypeOK, AnalysisSamples
  <2>2. nodes' = [nodes EXCEPT ![id] = Trimmed(nodes[id], x)]
    BY <1>2 DEF Write, PutSample, Put, Types
  <2>3. Trimmed(nodes[id], x) \in Seq(AnalysisSamples) /\ Len(Trimmed(nodes[id], x)) <= WindowSize
    <3> HIDE DEF x
    <3> QED
      BY <2>1, PutShifts, WindowSizePos DEF Types, Shifted
  <2>4. nodes' \in [NodeIDs -> Seq(AnalysisSamples)] /\ \A d \in NodeIDs : Len(nodes'[d]) <= WindowSize
    <3> HIDE DEF x
    <3> QED
      BY <2>2, <2>3 DEF Types
  <2>5. UNCHANGED <<run, history, removals>>
    BY <1>2 DEF Write
  <2>6. AnalysisTypeOK'
    BY <2>1, <2>5 DEF run, history, Types, AnalysisTypeOK, AnalysisSamples
  <2>7. startClock' \in 0..clock' /\ removedSince' \subseteq NodeIDs
    BY <2>1, <2>5 DEF history, Types, AnalysisTypeOK
  <2> QED
    BY <2>4, <2>6, <2>7 DEF Types
<1>3. ASSUME NEW id \in NodeIDs, Evict(id) PROVE Types'
  <2>1. nodes' \in [NodeIDs -> Seq(AnalysisSamples)] /\ \A d \in NodeIDs : Len(nodes'[d]) <= WindowSize
    BY <1>3 DEF Evict, Remove, RemoveNode, Types
  <2>2. UNCHANGED <<run, startClock, clock>> /\ removals' \in 0..MaxRemovals /\ removedSince' \subseteq NodeIDs
    BY <1>3 DEF Evict, Types, AnalysisTypeOK
  <2>3. AnalysisTypeOK'
    BY <2>2 DEF run, Types, AnalysisTypeOK, AnalysisSamples
  <2> QED
    BY <2>1, <2>2, <2>3 DEF Types
<1>4. CASE Start
  <2>1. /\ pc' \in {"list", "nodata"} /\ todo' = {} /\ qualified' = {} /\ maxLen' = 0 /\ t' = 0
        /\ input' = {} /\ synthetic' = {} /\ startClock' = clock /\ removedSince' = {}
        /\ nodes' = nodes /\ clock' = clock /\ removals' = removals
        /\ dataset' = [id \in NodeIDs |-> << >>]
    BY <1>4 DEF Start, env
  <2>2. dataset' \in [NodeIDs -> Seq(1..MaxPuts)]
    BY <2>1
  <2>3. AnalysisTypeOK'
    BY <2>1, <2>2 DEF Types, AnalysisTypeOK, Ended, Loops, AnalysisSamples
  <2> QED
    BY <2>1, <2>3 DEF Types, AnalysisTypeOK
<1>5. CASE Step
  <2>1. /\ nodes' = nodes /\ clock' = clock /\ removals' = removals
        /\ startClock' = startClock /\ removedSince' = removedSince
    BY <1>5 DEF Step, ListForValidation, ValidateNode, ListForDataset, QualifyNode, FinishQualify,
                BuildPoint, NextPoint, ReadQuality, FeedPhase1, ReadState, FinishLoop, env, history
  <2>2. todo # {} => Current \in todo /\ Rest \subseteq todo
    BY CurrentInTodo DEF Types, AnalysisTypeOK
  <2>3. AnalysisTypeOK'
    <3>1. CASE ListForValidation
      BY <2>1, <3>1 DEF ListForValidation, GetAllNodeIDs, Types, AnalysisTypeOK, Loops, Ended
    <3>2. CASE ValidateNode
      BY <2>1, <2>2, <3>2 DEF ValidateNode, Types, AnalysisTypeOK, Loops, Ended
    <3>3. CASE ListForDataset
      BY <2>1, <3>3 DEF ListForDataset, GetAllNodeIDs, Types, AnalysisTypeOK, Loops, Ended
    <3>4. CASE QualifyNode
      <4>1. Current \in NodeIDs /\ SampleCount(Current) \in 0..WindowSize
        <5>1. Current \in NodeIDs
          BY <2>2, <3>4 DEF QualifyNode, Types, AnalysisTypeOK
        <5>2. nodes[Current] \in Seq(AnalysisSamples) /\ Len(nodes[Current]) <= WindowSize
          BY <5>1 DEF Types
        <5> QED
          BY <5>1, <5>2 DEF SampleCount
      <4>2. ASSUME NEW n \in 0..WindowSize PROVE Max({maxLen, n}) \in 0..WindowSize /\ Max({maxLen, n}) >= maxLen
        <5>1. maxLen \in 0..WindowSize
          BY DEF Types, AnalysisTypeOK
        <5>2. CASE maxLen >= n
          BY <5>1, <5>2 DEF Max
        <5>3. CASE n > maxLen
          BY <5>1, <5>3 DEF Max
        <5> QED
          BY <5>1, <5>2, <5>3
      <4>3. maxLen' \in 0..WindowSize /\ maxLen' >= maxLen /\ qualified \subseteq qualified' /\ qualified' \subseteq NodeIDs
        <5>1. maxLen' = maxLen \/ maxLen' = Max({maxLen, SampleCount(Current)})
          BY <3>4 DEF QualifyNode
        <5>2. maxLen \in 0..WindowSize /\ qualified \subseteq NodeIDs
          BY DEF Types, AnalysisTypeOK
        <5>3. maxLen' \in 0..WindowSize /\ maxLen' >= maxLen
          BY <4>1, <4>2, <5>1, <5>2
        <5>4. qualified' = qualified \/ qualified' = qualified \union {Current}
          BY <3>4 DEF QualifyNode
        <5> QED
          BY <4>1, <5>2, <5>3, <5>4
      <4>4. /\ pc' = "qualify" /\ todo' \subseteq NodeIDs
            /\ UNCHANGED <<t, dataset, input, synthetic>>
        BY <2>2, <3>4 DEF QualifyNode, Types, AnalysisTypeOK
      <4>5. t' \in 0..maxLen'
        BY <4>3, <4>4 DEF Types, AnalysisTypeOK
      <4> QED
        BY <2>1, <4>3, <4>4, <4>5 DEF Types, AnalysisTypeOK, Loops, Ended
    <3>5. CASE FinishQualify
      BY <2>1, <3>5 DEF FinishQualify, Types, AnalysisTypeOK, Loops, Ended
    <3>6. CASE BuildPoint
      <4>1. Current \in NodeIDs /\ todo' \subseteq NodeIDs
        BY <2>2, <3>6 DEF BuildPoint, Types, AnalysisTypeOK
      <4>2. t \in Nat
        BY DEF Types, AnalysisTypeOK
      <4>3. dataset' \in [NodeIDs -> Seq(1..MaxPuts)]
        <5> DEFINE s == nodes[Current]
        <5>1. s \in Seq(AnalysisSamples)
          BY <4>1 DEF Types
        <5>2. ASSUME Len(s) > 0 PROVE PointOf(s, t).seq \in 1..MaxPuts
          <6>1. PointOf(s, t) \in AnalysisSamples
            BY <4>2, <5>1, <5>2 DEF PointOf
          <6> QED
            BY <6>1 DEF AnalysisSamples
        <5>3. \/ dataset' = dataset
              \/ Len(s) > 0 /\ dataset' = [dataset EXCEPT ![Current] = Append(dataset[Current], PointOf(s, t).seq)]
          BY <3>6, <4>1 DEF BuildPoint, GetSamples, Readable, Types, AnalysisTypeOK
        <5>4. dataset \in [NodeIDs -> Seq(1..MaxPuts)]
          BY DEF Types, AnalysisTypeOK
        <5>5. ASSUME NEW v \in 1..MaxPuts
              PROVE  [dataset EXCEPT ![Current] = Append(dataset[Current], v)] \in [NodeIDs -> Seq(1..MaxPuts)]
          <6>1. Append(dataset[Current], v) \in Seq(1..MaxPuts)
            BY <4>1, <5>4
          <6> QED
            BY <4>1, <5>4, <6>1
        <5> HIDE DEF s
        <5> QED
          BY <5>2, <5>3, <5>4, <5>5
      <4> QED
        BY <2>1, <3>6, <4>1, <4>3 DEF BuildPoint, Types, AnalysisTypeOK, Loops, Ended
    <3>7. CASE NextPoint
      BY <2>1, <3>7 DEF NextPoint, Filled, Types, AnalysisTypeOK, Loops, Ended
    <3>8. CASE ReadQuality
      BY <2>1, <2>2, <3>8 DEF ReadQuality, Types, AnalysisTypeOK, Loops, Ended
    <3>9. CASE FeedPhase1
      <4>1. Current \in NodeIDs /\ todo' \subseteq NodeIDs
        BY <2>2, <3>9 DEF FeedPhase1, Types, AnalysisTypeOK
      <4>2. \A i \in DOMAIN nodes[Current] : nodes[Current][i] \in AnalysisSamples
        BY <4>1 DEF Types
      <4> QED
        BY <2>1, <3>9, <4>1, <4>2 DEF FeedPhase1, GetSamples, Types, AnalysisTypeOK, Loops, Ended
    <3>10. CASE ReadState
      BY <2>1, <2>2, <3>10 DEF ReadState, Filled, Types, AnalysisTypeOK, Loops, Ended
    <3>11. CASE FinishLoop
      BY <2>1, <3>11 DEF FinishLoop, Types, AnalysisTypeOK, Loops, Ended
    <3> QED
      BY <1>5, <3>1, <3>2, <3>3, <3>4, <3>5, <3>6, <3>7, <3>8, <3>9, <3>10, <3>11 DEF Step
  <2> QED
    BY <2>1, <2>3 DEF Types
<1> QED
  BY <1>1, <1>2, <1>3, <1>4, <1>5 DEF AnalysisNext

-----------------------------------------------------------------------------
\* The writers leave the analysis alone, and an analysis leaves the store alone.
LEMMA WriterFrame ==
    ASSUME NEW id \in NodeIDs, Evict(id) \/ \E ok \in BOOLEAN : Write(id, ok)
    PROVE  UNCHANGED <<pc, todo, qualified, maxLen, t, dataset, input, synthetic, startClock>>
BY DEF Evict, Write, run, history

LEMMA FilledStep == Types /\ Filled /\ [AnalysisNext]_analysisVars => Filled'
<1> SUFFICES ASSUME Types, Filled, [AnalysisNext]_analysisVars PROVE Filled'
  OBVIOUS
<1> USE StoreAssumption
<1>1. CASE UNCHANGED analysisVars
  BY <1>1 DEF analysisVars, run, Filled
<1>2. ASSUME NEW id \in NodeIDs, Evict(id) \/ \E ok \in BOOLEAN : Write(id, ok) PROVE Filled'
  BY <1>2, WriterFrame DEF Filled
<1>3. CASE Start
  BY <1>3 DEF Start, Filled
<1>4. todo # {} => Current \in todo /\ Rest = todo \ {Current}
  BY CurrentInTodo DEF Types, AnalysisTypeOK, Rest
<1>5. CASE ListForValidation
  BY <1>5 DEF ListForValidation, Filled
<1>6. CASE ValidateNode
  BY <1>6 DEF ValidateNode, Filled
<1>7. CASE ListForDataset
  BY <1>7 DEF ListForDataset, Filled
<1>8. CASE QualifyNode
  BY <1>8 DEF QualifyNode, Filled
<1>9. CASE FinishQualify
  <2>1. CASE pc' = "insufficient"
    BY <2>1 DEF Filled
  <2>2. CASE pc' # "insufficient"
    <3>1. /\ pc = "qualify" /\ pc' = "build" /\ qualified # {} /\ maxLen >= MinSamples
          /\ todo' = qualified /\ qualified' = qualified /\ maxLen' = maxLen /\ t' = t /\ dataset' = dataset
      BY <1>9, <2>2 DEF FinishQualify, Types, AnalysisTypeOK
    <3>2. t = 0 /\ \A id \in NodeIDs : Len(dataset[id]) = 0
      BY <3>1 DEF Filled
    <3>3. qualified \subseteq NodeIDs /\ maxLen \in Nat
      BY WindowSizePos DEF Types, AnalysisTypeOK
    <3> QED
      BY <3>1, <3>2, <3>3 DEF Filled
  <2> QED
    BY <2>1, <2>2
<1>10. CASE BuildPoint
  <2>1. CASE pc' = "panic"
    BY <2>1 DEF Filled
  <2>2. CASE pc' # "panic"
    <3>1. /\ pc = "build" /\ pc' = "build" /\ todo # {} /\ todo' = Rest
          /\ dataset' = [dataset EXCEPT ![Current] = Append(@, PointOf(GetSamples(Current), t).seq)]
          /\ UNCHANGED <<qualified, maxLen, t>>
      BY <1>10, <2>2 DEF BuildPoint
    <3>2. /\ Current \in todo /\ todo \subseteq qualified /\ qualified \subseteq NodeIDs
          /\ t < maxLen /\ qualified # {} /\ maxLen >= MinSamples
          /\ t \in Nat
          /\ dataset \in [NodeIDs -> Seq(1..MaxPuts)]
      BY <1>4, <3>1 DEF Filled, Types, AnalysisTypeOK
    <3>3. Len(dataset[Current]) = t
      BY <3>1, <3>2 DEF Filled
    <3>4. Len(dataset'[Current]) = t + 1
      <4> DEFINE v == PointOf(GetSamples(Current), t).seq
      <4>1. dataset'[Current] = Append(dataset[Current], v)
        BY <3>1, <3>2
      <4>2. Len(Append(dataset[Current], v)) = Len(dataset[Current]) + 1
        BY <3>2
      <4> QED
        BY <3>3, <4>1, <4>2
    <3>5. ASSUME NEW id \in qualified PROVE Len(dataset'[id]) = IF id \in todo' THEN t' ELSE t' + 1
      <4>1. CASE id = Current
        BY <1>4, <3>1, <3>4, <4>1
      <4>2. CASE id # Current
        <5>1. dataset'[id] = dataset[id] /\ (id \in todo' <=> id \in todo)
          BY <1>4, <3>1, <3>2, <4>2
        <5> QED
          BY <3>1, <5>1 DEF Filled
      <4> QED
        BY <4>1, <4>2
    <3>6. todo' \subseteq qualified'
      BY <1>4, <3>1, <3>2
    <3> QED
      BY <3>1, <3>2, <3>5, <3>6 DEF Filled
  <2> QED
    BY <2>1, <2>2
<1>11. CASE NextPoint
  <2>1. /\ pc = "build" /\ todo = {} /\ t' = t + 1 /\ todo' = qualified
        /\ pc' = (IF t + 1 < maxLen THEN "build" ELSE "quality")
        /\ UNCHANGED <<qualified, maxLen, dataset>>
    BY <1>11 DEF NextPoint
  <2>2. /\ t < maxLen /\ t \in Nat /\ maxLen \in Nat
        /\ qualified # {} /\ maxLen >= MinSamples
        /\ \A id \in qualified : Len(dataset[id]) = t + 1
    BY <2>1, WindowSizePos DEF Filled, Types, AnalysisTypeOK
  <2> QED
    BY <2>1, <2>2 DEF Filled
<1>12. CASE ReadQuality
  BY <1>4, <1>12 DEF ReadQuality, Filled
<1>13. CASE FeedPhase1
  BY <1>4, <1>13 DEF FeedPhase1, Filled
<1>14. CASE ReadState
  BY <1>4, <1>14 DEF ReadState, Filled
<1>15. CASE FinishLoop
  <2>1. /\ pc' \in {"phase1", "states", "done"} /\ todo' \subseteq qualified
        /\ UNCHANGED <<qualified, maxLen, dataset>> /\ pc \in {"quality", "phase1", "states"}
    BY <1>15 DEF FinishLoop
  <2> QED
    BY <2>1 DEF Filled
<1> QED
  BY <1>1, <1>2, <1>3, <1>5, <1>6, <1>7, <1>8, <1>9, <1>10, <1>11, <1>12, <1>13, <1>14, <1>15
     DEF AnalysisNext, Step

LEMMA StartTypes == AnalysisInit => Types /\ Filled
<1> SUFFICES ASSUME AnalysisInit PROVE Types /\ Filled
  OBVIOUS
<1>1. /\ pc = "idle" /\ todo = {} /\ qualified = {} /\ maxLen = 0 /\ t = 0 /\ input = {} /\ synthetic = {}
      /\ dataset = [id \in NodeIDs |-> << >>] /\ nodes = [id \in NodeIDs |-> << >>]
      /\ clock = 0 /\ removals = 0 /\ startClock = 0 /\ removedSince = {}
  BY DEF AnalysisInit, EmptyRun, Init, New
<1>2. dataset \in [NodeIDs -> Seq(1..MaxPuts)] /\ nodes \in [NodeIDs -> Seq(AnalysisSamples)]
  BY <1>1
<1>3. AnalysisTypeOK
  BY <1>1, <1>2, WindowSizePos, MaxPutsAssumption, AnalysisAssumption DEF AnalysisTypeOK, AnalysisSamples
<1> QED
  BY <1>1, <1>2, <1>3, WindowSizePos DEF Types, Filled

\* The types of the analysis, in particular that its loop over the points
\* stops at the length of the dataset (convertStoreToDataset).
THEOREM AnalysisTypeCorrect == AnalysisSpec => []AnalysisTypeOK
<1>1. AnalysisInit => Types /\ Filled
  BY StartTypes
<1>2. Types /\ Filled /\ [AnalysisNext]_analysisVars => (Types /\ Filled)'
  BY TypesStep, FilledStep
<1>3. Types => AnalysisTypeOK
  BY DEF Types
<1> QED
  BY <1>1, <1>2, <1>3, PTL DEF AnalysisSpec

-----------------------------------------------------------------------------
\* No sample of the node that was there when the analysis started is invalid.
Clear(id) == \A i \in DOMAIN nodes[id] : nodes[id][i].seq <= startClock => nodes[id][i].ok

Validated == {"qualify", "build", "quality", "phase1"}

\* A node of the dataset still has samples or was removed since; validation
\* has cleared the nodes it is done with, later writes notwithstanding.
Raced ==
    /\ \A id \in qualified : nodes[id] # << >> \/ id \in removedSince
    /\ pc = "validate" => \A id \in NodeIDs \ todo : Clear(id)
    /\ pc \in Validated => \A id \in NodeIDs : Clear(id)
    /\ FaultsAreRaces

LEMMA RacedStep == Types /\ Filled /\ Raced /\ [AnalysisNext]_analysisVars => Raced'
<1> SUFFICES ASSUME Types, Filled, Raced, [AnalysisNext]_analysisVars PROVE Raced'
  OBVIOUS
<1> USE DEF Validated
<1>1. CASE UNCHANGED analysisVars
  BY <1>1 DEF analysisVars, run, history, env, Raced, Clear, FaultsAreRaces
<1>2. ASSUME NEW id \in NodeIDs, NEW ok \in BOOLEAN, Write(id, ok) PROVE Raced'
  <2> DEFINE x == [seq |-> clock + 1, ok |-> ok]
             u == Trimmed(nodes[id], x)
  <2>1. /\ x \in AnalysisSamples /\ x.seq = clock + 1
        /\ clock \in Nat /\ startClock \in Nat /\ startClock <= clock
    BY <1>2, MaxPutsAssumption DEF Write, Types, AnalysisTypeOK, AnalysisSamples
  <2>2. nodes' = [nodes EXCEPT ![id] = u] /\ removedSince' = removedSince
    BY <1>2 DEF Write, PutSample, Put, Types, history
  <2>3. /\ UNCHANGED <<pc, todo, qualified, synthetic, input, startClock>>
    BY <1>2, WriterFrame
  <2>4. /\ nodes \in [NodeIDs -> Seq(AnalysisSamples)]
        /\ nodes[id] \in Seq(AnalysisSamples) /\ Len(nodes[id]) <= WindowSize
    BY DEF Types
  <2> HIDE DEF x
  <2>5. /\ u \in Seq(AnalysisSamples) /\ Len(u) \in 1..WindowSize /\ u[Len(u)] = x
        /\ \E o \in {0, 1} : \A i \in 1..(Len(u) - 1) :
              i + o \in 1..Len(nodes[id]) /\ u[i] = nodes[id][i + o]
    <3>1. u \in Seq(AnalysisSamples) /\ Shifted(nodes[id], x, u)
      BY <2>1, <2>4, PutShifts
    <3> QED
      BY <3>1 DEF Shifted
  <2> HIDE DEF u
  <2>6. ASSUME Clear(id) PROVE Clear(id)'
    <3> SUFFICES ASSUME NEW i \in DOMAIN u, u[i].seq <= startClock PROVE u[i].ok
      BY <2>2, <2>3, <2>4 DEF Clear
    <3>1. i \in 1..Len(u) /\ Len(u) \in Nat
      BY <2>5
    <3>2. i # Len(u)
      BY <2>1, <2>5
    <3>3. i \in 1..(Len(u) - 1)
      BY <3>1, <3>2
    <3>4. PICK o \in {0, 1} : i + o \in 1..Len(nodes[id]) /\ u[i] = nodes[id][i + o]
      BY <2>5, <3>3
    <3>5. i + o \in DOMAIN nodes[id]
      BY <2>4, <3>4
    <3> QED
      BY <2>6, <3>4, <3>5 DEF Clear
  <2>7. \A d \in NodeIDs : Clear(d) => Clear(d)'
    <3>1. ASSUME NEW d \in NodeIDs \ {id}, Clear(d) PROVE Clear(d)'
      BY <2>2, <2>3, <2>4, <3>1 DEF Clear
    <3> QED
      BY <2>6, <3>1
  <2>8. \A d \in NodeIDs : nodes'[d] # << >> \/ nodes'[d] = nodes[d]
    <3>1. u # << >>
      BY <2>5
    <3> QED
      BY <2>2, <2>4, <3>1
  <2>9. FaultsAreRaces'
    BY <2>2, <2>3 DEF Raced, FaultsAreRaces
  <2>10. qualified \subseteq NodeIDs
    BY DEF Types, AnalysisTypeOK
  <2> QED
    BY <2>2, <2>3, <2>7, <2>8, <2>9, <2>10 DEF Raced
<1>3. ASSUME NEW id \in NodeIDs, Evict(id) PROVE Raced'
  <2>1. /\ nodes' = [nodes EXCEPT ![id] = << >>] /\ removedSince' = removedSince \union {id}
        /\ nodes \in [NodeIDs -> Seq(AnalysisSamples)] /\ qualified \subseteq NodeIDs
    BY <1>3 DEF Evict, Remove, RemoveNode, Types, AnalysisTypeOK
  <2>2. UNCHANGED <<pc, todo, qualified, synthetic, input, startClock>>
    BY <1>3, WriterFrame
  <2>3. \A d \in NodeIDs : nodes'[d] = << >> \/ nodes'[d] = nodes[d]
    BY <2>1
  <2>4. \A d \in NodeIDs : Clear(d) => Clear(d)'
    BY <2>2, <2>3 DEF Clear
  <2>5. FaultsAreRaces'
    BY <2>1, <2>2 DEF Raced, FaultsAreRaces
  <2>6. \A d \in qualified : nodes'[d] # << >> \/ d \in removedSince'
    BY <2>1 DEF Raced
  <2> QED
    BY <2>2, <2>4, <2>5, <2>6 DEF Raced
<1>4. CASE Start
  BY <1>4 DEF Start, Raced, FaultsAreRaces
<1>5. todo # {} => Current \in todo /\ Rest = todo \ {Current}
  BY CurrentInTodo DEF Types, AnalysisTypeOK, Rest
<1>6. CASE Step
  <2>1. nodes' = nodes /\ startClock' = startClock /\ removedSince' = removedSince
    BY <1>6 DEF Step, ListForValidation, ValidateNode, ListForDataset, QualifyNode, FinishQualify,
                BuildPoint, NextPoint, ReadQuality, FeedPhase1, ReadState, FinishLoop, env, history
  <2>2. \A d \in NodeIDs : Clear(d)' <=> Clear(d)
    BY <2>1 DEF Clear
  <2>3. CASE ListForValidation
    <3>1. \A d \in NodeIDs \ todo' : nodes[d] = << >>
      BY <2>3 DEF ListForValidation, GetAllNodeIDs
    <3>2. \A d \in NodeIDs \ todo' : Clear(d)'
      BY <2>2, <3>1 DEF Clear
    <3> QED
      BY <2>1, <2>3, <3>2 DEF ListForValidation, Raced, FaultsAreRaces
  <2>4. CASE ValidateNode
    <3>1. /\ pc = "validate" /\ todo # {} /\ UNCHANGED <<qualified, synthetic, input>>
          /\ \/ Accepted(Current) /\ todo' = todo \ {Current} /\ pc' = "validate"
             \/ pc' = "invalid"
      BY <1>5, <2>4 DEF ValidateNode
    <3>2. Accepted(Current) => Clear(Current)
      BY DEF Accepted, GetSamples, Clear
    <3>3. pc' = "validate" => \A d \in NodeIDs \ todo' : Clear(d)'
      BY <2>2, <3>1, <3>2 DEF Raced
    <3> QED
      BY <2>1, <3>1, <3>3 DEF Raced, FaultsAreRaces
  <2>5. CASE ListForDataset
    <3>1. /\ pc = "validate" /\ todo = {} /\ pc' \in {"insufficient", "qualify"}
          /\ UNCHANGED <<qualified, synthetic, input>>
      BY <2>5 DEF ListForDataset
    <3> QED
      BY <2>1, <2>2, <3>1 DEF Raced, FaultsAreRaces
  <2>6. CASE QualifyNode
    <3>1. /\ pc = "qualify" /\ pc' = "qualify" /\ todo # {} /\ UNCHANGED <<synthetic, input>>
          /\ \/ qualified' = qualified
             \/ Qualifies(SampleCount(Current)) /\ qualified' = qualified \union {Current}
      BY <2>6 DEF QualifyNode
    <3>2. Qualifies(SampleCount(Current)) => nodes[Current] # << >>
      BY StoreAssumption DEF Qualifies, SampleCount
    <3> QED
      BY <2>1, <2>2, <3>1, <3>2 DEF Raced, FaultsAreRaces
  <2>7. CASE FinishQualify
    <3>1. /\ pc = "qualify" /\ pc' \in {"insufficient", "build"}
          /\ UNCHANGED <<qualified, synthetic, input>>
      BY <2>7 DEF FinishQualify
    <3> QED
      BY <2>1, <2>2, <3>1 DEF Raced, FaultsAreRaces
  <2>8. CASE BuildPoint
    <3>1. /\ pc = "build" /\ todo # {} /\ UNCHANGED <<qualified, synthetic, input>>
          /\ \/ pc' = "build"
             \/ pc' = "panic" /\ ~(Len(nodes[Current]) > 0)
      BY <2>8 DEF BuildPoint, Readable, GetSamples
    <3>2. Current \in qualified /\ Current \in NodeIDs
      BY <1>5, <3>1 DEF Filled, Types, AnalysisTypeOK
    <3>3. ~(Len(nodes[Current]) > 0) => nodes[Current] = << >>
      BY <3>2 DEF Types
    <3>4. pc' = "panic" => Current \in qualified' /\ Current \in removedSince'
      BY <2>1, <3>1, <3>2, <3>3 DEF Raced
    <3> QED
      BY <2>1, <2>2, <3>1, <3>4 DEF Raced, FaultsAreRaces
  <2>9. CASE NextPoint
    <3>1. /\ pc = "build" /\ pc' \in {"build", "quality"} /\ UNCHANGED <<qualified, synthetic, input>>
      BY <2>9 DEF NextPoint
    <3> QED
      BY <2>1, <2>2, <3>1 DEF Raced, FaultsAreRaces
  <2>10. CASE ReadQuality
    BY <2>1, <2>2, <2>10 DEF ReadQuality, Raced, FaultsAreRaces
  <2>11. CASE FeedPhase1
    <3>1. /\ pc = "phase1" /\ pc' = "phase1" /\ todo # {} /\ UNCHANGED <<qualified, synthetic>>
          /\ input' = input \union {nodes[Current][i] : i \in DOMAIN nodes[Current]}
      BY <2>11 DEF FeedPhase1, GetSamples
    <3>2. Current \in NodeIDs
      BY <1>5, <3>1 DEF Types, AnalysisTypeOK
    <3>3. Clear(Current)
      BY <3>1, <3>2 DEF Raced
    <3>4. ASSUME NEW x \in {nodes[Current][i] : i \in DOMAIN nodes[Current]}, ~x.ok
          PROVE  x.seq > startClock
      <4>1. PICK i \in DOMAIN nodes[Current] : x = nodes[Current][i]
        OBVIOUS
      <4>2. ~(x.seq <= startClock)
        BY <3>3, <3>4, <4>1 DEF Clear
      <4>3. x \in AnalysisSamples
        BY <3>2, <4>1 DEF Types
      <4>4. x.seq \in Nat /\ startClock \in Nat
        BY <4>3 DEF AnalysisSamples, Types
      <4> QED
        BY <4>2, <4>4
    <3> QED
      BY <2>1, <2>2, <3>1, <3>4 DEF Raced, FaultsAreRaces
  <2>12. CASE ReadState
    <3>1. /\ pc = "states" /\ pc' = "states" /\ todo # {} /\ UNCHANGED <<qualified, input>>
          /\ \/ synthetic' = synthetic
             \/ nodes[Current] = << >> /\ synthetic' = synthetic \union {Current}
      BY <2>12 DEF ReadState, HasLatest
    <3>2. Current \in qualified
      BY <1>5, <3>1 DEF Filled
    <3>3. nodes[Current] = << >> => Current \in removedSince
      BY <3>2 DEF Raced
    <3> QED
      BY <2>1, <2>2, <3>1, <3>3 DEF Raced, FaultsAreRaces
  <2>13. CASE FinishLoop
    <3>1. /\ pc' \in {"phase1", "states", "done"} /\ pc \in {"quality", "phase1", "states"}
          /\ pc' = "phase1" => pc = "quality"
          /\ UNCHANGED <<qualified, synthetic, input>>
      BY <2>13 DEF FinishLoop
    <3> QED
      BY <2>1, <2>2, <3>1 DEF Raced, FaultsAreRaces
  <2> QED
    BY <1>6, <2>3, <2>4, <2>5, <2>6, <2>7, <2>8, <2>9, <2>10, <2>11, <2>12, <2>13 DEF Step
<1> QED
  BY <1>1, <1>2, <1>3, <1>4, <1>6 DEF AnalysisNext

\* FaultsAreRaces: a panic, a made-up state and an invalid input of phase 1
\* (pipeline.go) each need a removal or a write in the middle of the analysis,
\* for any nodes, window and number of writes.
THEOREM OnlyRacesFail == AnalysisSpec => []FaultsAreRaces
<1>1. AnalysisInit => Raced
  BY DEF AnalysisInit, EmptyRun, Raced, Validated, FaultsAreRaces
<1>2. Types /\ Filled /\ Raced /\ [AnalysisNext]_analysisVars => (Types /\ Filled /\ Raced)'
  BY TypesStep, FilledStep, RacedStep
<1>3. Raced => FaultsAreRaces
  BY DEF Raced
<1> QED
  BY <1>1, <1>2, <1>3, StartTypes, PTL DEF AnalysisSpec

-----------------------------------------------------------------------------
\* The arrival numbers of a window ascend, and none is of the future.
WindowAscends(id) ==
    /\ \A i, j \in DOMAIN nodes[id] : i <= j => nodes[id][i].seq <= nodes[id][j].seq
    /\ \A i \in DOMAIN nodes[id] : nodes[id][i].seq <= clock

\* So do those read into the dataset, and the sample to be read next, at an
\* index not before theirs or the last one, is not older: a slide of the
\* window only brings newer samples to an index.
ReadAscends(id) ==
    /\ \A i, j \in DOMAIN dataset[id] : i <= j => dataset[id][i] <= dataset[id][j]
    /\ \A i \in DOMAIN dataset[id] : dataset[id][i] <= clock
    /\ \A i \in DOMAIN dataset[id], j \in DOMAIN nodes[id] :
          j >= i \/ j = Len(nodes[id]) => dataset[id][i] <= nodes[id][j].seq

Ascending == \A id \in NodeIDs : WindowAscends(id) /\ ReadAscends(id)

\* The places before the last one.
LEMMA Below == \A n \in Nat : \A i \in 1..n : i # n => i \in 1..(n - 1)
OBVIOUS

LEMMA ElementsIn == ASSUME NEW S, NEW s \in Seq(S) PROVE \A i \in DOMAIN s : s[i] \in S
OBVIOUS

\* A point is read at its own index, or at the last one of a shorter window.
LEMMA PointIndex ==
    ASSUME NEW S, NEW s \in Seq(S), Len(s) > 0, NEW i \in Nat
    PROVE  \E m \in 1..Len(s) : PointOf(s, i) = s[m] /\ (m = i + 1 \/ (m = Len(s) /\ m <= i))
<1>1. Len(s) \in Nat
  OBVIOUS
<1>2. CASE i < Len(s)
  <2>1. i + 1 \in 1..Len(s)
    BY <1>1, <1>2
  <2>2. PointOf(s, i) = s[i + 1]
    BY <1>2 DEF PointOf
  <2>3. PICK m \in 1..Len(s) : m = i + 1
    BY <2>1
  <2>4. PointOf(s, i) = s[m]
    BY <2>2, <2>3
  <2> QED
    BY <2>3, <2>4
<1>3. CASE ~(i < Len(s))
  <2>1. Len(s) \in 1..Len(s) /\ Len(s) <= i
    BY <1>1, <1>3
  <2>2. PointOf(s, i) = s[Len(s)]
    BY <1>3 DEF PointOf
  <2> QED
    BY <2>1, <2>2
<1> QED
  BY <1>2, <1>3

\* Arrival numbers are numbers.
LEMMA SeqsAreNumbers ==
    ASSUME Types, NEW id \in NodeIDs
    PROVE  /\ \A i \in DOMAIN nodes[id] : nodes[id][i].seq \in Nat
           /\ \A i \in DOMAIN dataset[id] : dataset[id][i] \in Nat
<1>1. nodes[id] \in Seq(AnalysisSamples) /\ dataset[id] \in Seq(1..MaxPuts)
  BY DEF Types, AnalysisTypeOK
<1>2. \A x \in AnalysisSamples : x.seq \in Nat
  BY MaxPutsAssumption DEF AnalysisSamples
<1>3. \A i \in DOMAIN nodes[id] : nodes[id][i] \in AnalysisSamples
  BY <1>1
<1>4. \A i \in DOMAIN dataset[id] : dataset[id][i] \in 1..MaxPuts
  BY <1>1, ElementsIn
<1> QED
  BY <1>2, <1>3, <1>4, MaxPutsAssumption

LEMMA AscendingStep == Types /\ Filled /\ Ascending /\ [AnalysisNext]_analysisVars => Ascending'
<1> SUFFICES ASSUME Types, Filled, Ascending, [AnalysisNext]_analysisVars PROVE Ascending'
  OBVIOUS
<1>1. CASE UNCHANGED <<nodes, dataset, clock>>
  BY <1>1 DEF Ascending, WindowAscends, ReadAscends
<1>2. ASSUME NEW id \in NodeIDs, NEW ok \in BOOLEAN, Write(id, ok) PROVE Ascending'
  <2> DEFINE x == [seq |-> clock + 1, ok |-> ok]
             u == Trimmed(nodes[id], x)
  <2>1. x \in AnalysisSamples /\ x.seq = clock + 1 /\ clock' = clock + 1 /\ clock \in Nat
    BY <1>2, MaxPutsAssumption DEF Write, Types, AnalysisTypeOK, AnalysisSamples
  <2>2. nodes' = [nodes EXCEPT ![id] = u] /\ dataset' = dataset
    BY <1>2, WriterFrame DEF Write, PutSample, Put, Types
  <2>3. /\ nodes \in [NodeIDs -> Seq(AnalysisSamples)] /\ dataset \in [NodeIDs -> Seq(1..MaxPuts)]
        /\ nodes[id] \in Seq(AnalysisSamples) /\ dataset[id] \in Seq(1..MaxPuts)
        /\ Len(nodes[id]) <= WindowSize
    BY DEF Types, AnalysisTypeOK
  <2> HIDE DEF x
  <2>4. u \in Seq(AnalysisSamples) /\ Shifted(nodes[id], x, u)
    BY <2>1, <2>3, PutShifts
  <2> HIDE DEF u
  <2>5. /\ Len(u) \in Nat \ {0} /\ u[Len(u)] = x /\ DOMAIN u = 1..Len(u)
        /\ Len(nodes[id]) \in Nat /\ DOMAIN nodes[id] = 1..Len(nodes[id])
    BY <2>3, <2>4, WindowSizePos DEF Shifted
  <2>6. PICK o \in {0, 1} :
          /\ Len(u) = Len(nodes[id]) + 1 - o
          /\ \A i \in 1..(Len(u) - 1) : i + o \in 1..Len(nodes[id]) /\ u[i] = nodes[id][i + o]
    BY <2>4 DEF Shifted
  <2>7. /\ \A i \in 1..Len(nodes[id]) : nodes[id][i].seq \in Nat /\ nodes[id][i].seq <= clock
        /\ \A i, j \in 1..Len(nodes[id]) : i <= j => nodes[id][i].seq <= nodes[id][j].seq
    BY <2>5, SeqsAreNumbers DEF Ascending, WindowAscends
  <2>8. WindowAscends(id)'
    <3>1. ASSUME NEW i \in 1..Len(u) PROVE u[i].seq \in Nat /\ u[i].seq <= clock + 1
      <4>1. CASE i = Len(u)
        BY <2>1, <2>5, <4>1
      <4>2. CASE i # Len(u)
        <5>1. i \in 1..(Len(u) - 1)
          BY <2>5, <4>2, Below
        <5>2. i + o \in 1..Len(nodes[id]) /\ u[i] = nodes[id][i + o]
          BY <2>6, <5>1
        <5> QED
          BY <2>1, <2>7, <5>2
      <4> QED
        BY <4>1, <4>2
    <3>2. ASSUME NEW i \in 1..Len(u), NEW j \in 1..Len(u), i <= j PROVE u[i].seq <= u[j].seq
      <4>1. CASE j = Len(u)
        BY <2>1, <2>5, <3>1, <4>1
      <4>2. CASE j # Len(u)
        <5>1. j \in 1..(Len(u) - 1)
          BY <2>5, <4>2, Below
        <5>0. i \in 1..(Len(u) - 1)
          BY <2>5, <3>2, <5>1
        <5>2. i + o <= j + o
          BY <3>2
        <5> QED
          BY <2>6, <2>7, <5>0, <5>1, <5>2
      <4> QED
        BY <4>1, <4>2
    <3>3. nodes'[id] = u
      BY <2>2, <2>3
    <3> QED
      BY <2>1, <2>5, <3>1, <3>2, <3>3 DEF WindowAscends
  <2>9. ReadAscends(id)'
    <3>1. DOMAIN dataset[id] = 1..Len(dataset[id]) /\ Len(dataset[id]) \in Nat
          /\ \A i \in DOMAIN dataset[id] : dataset[id][i] \in Nat
      BY <2>3, MaxPutsAssumption
    <3>2. ReadAscends(id)
      BY DEF Ascending
    <3>3. ASSUME NEW i \in DOMAIN dataset[id], NEW j \in 1..Len(u), j >= i \/ j = Len(u)
          PROVE  dataset[id][i] <= u[j].seq
      <4>1. CASE j = Len(u)
        BY <2>1, <2>5, <3>1, <3>2, <4>1 DEF ReadAscends
      <4>2. CASE j # Len(u)
        <5>1. j \in 1..(Len(u) - 1) /\ j >= i
          BY <2>5, <3>3, <4>2, Below
        <5>2. j + o \in 1..Len(nodes[id]) /\ u[j] = nodes[id][j + o]
          BY <2>6, <5>1
        <5>3. j + o >= i
          BY <3>1, <5>1
        <5> QED
          BY <2>5, <3>2, <5>2, <5>3 DEF ReadAscends
      <4> QED
        BY <4>1, <4>2
    <3>4. nodes'[id] = u
      BY <2>2, <2>3
    <3>5. \A i \in DOMAIN dataset[id] : dataset[id][i] <= clock + 1
      BY <2>1, <3>1, <3>2 DEF ReadAscends
    <3> QED
      BY <2>1, <2>2, <2>5, <3>2, <3>3, <3>4, <3>5 DEF ReadAscends
  <2>10. ASSUME NEW d \in NodeIDs \ {id} PROVE WindowAscends(d)' /\ ReadAscends(d)'
    <3>1. nodes'[d] = nodes[d] /\ dataset'[d] = dataset[d]
      BY <2>2, <2>3
    <3>2. /\ \A i \in DOMAIN nodes[d] : nodes[d][i].seq \in Nat
          /\ \A i \in DOMAIN dataset[d] : dataset[d][i] \in Nat
      BY SeqsAreNumbers
    <3>3. WindowAscends(d) /\ ReadAscends(d)
      BY DEF Ascending
    <3> QED
      BY <2>1, <3>1, <3>2, <3>3 DEF WindowAscends, ReadAscends
  <2> QED
    BY <2>8, <2>9, <2>10 DEF Ascending
<1>3. ASSUME NEW id \in NodeIDs, Evict(id) PROVE Ascending'
  <2>1. nodes' = [nodes EXCEPT ![id] = << >>] /\ dataset' = dataset /\ clock' = clock
    BY <1>3, WriterFrame DEF Evict, Remove, RemoveNode
  <2>2. \A d \in NodeIDs : nodes'[d] = << >> \/ nodes'[d] = nodes[d]
    BY <2>1 DEF Types
  <2> QED
    BY <2>1, <2>2 DEF Ascending, WindowAscends, ReadAscends
<1>4. CASE Start
  BY <1>4 DEF Start, env, Ascending, WindowAscends, ReadAscends
<1>5. CASE BuildPoint
  <2>1. todo # {} => Current \in todo
    BY CurrentInTodo DEF Types, AnalysisTypeOK
  <2>2. CASE dataset' = dataset
    <3>1. nodes' = nodes /\ clock' = clock
      BY <1>5 DEF BuildPoint, env
    <3> QED
      BY <1>1, <2>2, <3>1
  <2>3. CASE dataset' # dataset
    <3>0. PICK id \in NodeIDs : id = Current /\ id \in todo /\ todo # {}
      BY <1>5, <2>1 DEF BuildPoint, Types, AnalysisTypeOK
    <3> DEFINE s == nodes[id]
               v == PointOf(s, t).seq
               e == dataset[id]
    <3>1. /\ pc = "build" /\ todo # {} /\ Len(s) > 0 /\ nodes' = nodes /\ clock' = clock
          /\ dataset' = [dataset EXCEPT ![id] = Append(e, v)]
      BY <1>5, <2>3, <3>0 DEF BuildPoint, Readable, GetSamples, env
    <3>2. /\ id \in NodeIDs /\ id \in qualified /\ id \in todo
          /\ dataset \in [NodeIDs -> Seq(1..MaxPuts)] /\ e \in Seq(1..MaxPuts)
          /\ s \in Seq(AnalysisSamples) /\ t \in Nat /\ clock \in Nat
      BY <3>0, <3>1, MaxPutsAssumption DEF Filled, Types, AnalysisTypeOK
    <3>3. Len(e) = t
      BY <3>1, <3>2 DEF Filled
    <3>4. PICK m \in 1..Len(s) : v = s[m].seq /\ (m = t + 1 \/ (m = Len(s) /\ m <= t))
      <4>1. PICK m \in 1..Len(s) : PointOf(s, t) = s[m] /\ (m = t + 1 \/ (m = Len(s) /\ m <= t))
        BY <3>1, <3>2, PointIndex
      <4> QED
        BY <4>1
    <3>5. /\ WindowAscends(id) /\ ReadAscends(id)
          /\ DOMAIN s = 1..Len(s) /\ DOMAIN e = 1..t /\ Len(s) \in Nat
          /\ \A j \in 1..Len(s) : s[j].seq \in Nat
      BY <3>2, <3>3, SeqsAreNumbers DEF Ascending
    <3>6. \A i \in 1..t : e[i] <= v
      <4>1. ASSUME NEW i \in 1..t PROVE m >= i \/ m = Len(s)
        BY <3>2, <3>4
      <4> QED
        BY <3>4, <3>5, <4>1 DEF ReadAscends
    <3>7. v \in Nat /\ v <= clock
      BY <3>4, <3>5 DEF WindowAscends
    <3>8. ASSUME NEW j \in 1..Len(s), j >= t + 1 \/ j = Len(s) PROVE v <= s[j].seq
      <4>1. m <= j
        BY <3>2, <3>4, <3>8
      <4> QED
        BY <3>4, <3>5, <4>1 DEF WindowAscends
    <3> DEFINE f == Append(e, v)
    <3>9. /\ DOMAIN f = 1..(t + 1) /\ f[t + 1] = v /\ \A i \in 1..t : f[i] = e[i]
          /\ \A i \in 1..t : e[i] \in Nat
      BY <3>2, <3>3, MaxPutsAssumption
    <3>10. dataset'[id] = f /\ nodes'[id] = s
      BY <3>1, <3>2
    <3> HIDE DEF f, e, s, v
    <3>11. ASSUME NEW i \in 1..(t + 1), i # t + 1 PROVE i \in 1..t
      BY <3>2, <3>11
    <3>12. \A i, j \in 1..(t + 1) : i <= j => f[i] <= f[j]
      <4> SUFFICES ASSUME NEW i \in 1..(t + 1), NEW j \in 1..(t + 1), i <= j PROVE f[i] <= f[j]
        OBVIOUS
      <4>1. CASE j = t + 1
        BY <3>6, <3>7, <3>9, <3>11, <4>1
      <4>2. CASE j # t + 1
        <5>1. i \in 1..t /\ j \in 1..t
          BY <3>2, <4>2
        <5> QED
          BY <3>5, <3>9, <5>1 DEF ReadAscends, e
      <4> QED
        BY <4>1, <4>2
    <3>13. \A i \in 1..(t + 1) : f[i] <= clock
      BY <3>5, <3>7, <3>9, <3>11 DEF ReadAscends, e
    <3>14. \A i \in 1..(t + 1), j \in 1..Len(s) : j >= i \/ j = Len(s) => f[i] <= s[j].seq
      <4> SUFFICES ASSUME NEW i \in 1..(t + 1), NEW j \in 1..Len(s), j >= i \/ j = Len(s)
                   PROVE  f[i] <= s[j].seq
        OBVIOUS
      <4>1. CASE i = t + 1
        BY <3>8, <3>9, <4>1
      <4>2. CASE i # t + 1
        BY <3>5, <3>9, <3>11, <4>2 DEF ReadAscends, e, s
      <4> QED
        BY <4>1, <4>2
    <3>15. ReadAscends(id)'
      BY <3>1, <3>5, <3>9, <3>10, <3>12, <3>13, <3>14 DEF ReadAscends
    <3>16. WindowAscends(id)'
      BY <3>1, <3>5 DEF WindowAscends
    <3>17. ASSUME NEW d \in NodeIDs \ {id} PROVE WindowAscends(d)' /\ ReadAscends(d)'
      <4>1. dataset'[d] = dataset[d] /\ nodes'[d] = nodes[d]
        BY <3>1, <3>2
      <4> QED
        BY <3>1, <4>1 DEF Ascending, WindowAscends, ReadAscends
    <3> QED
      BY <3>15, <3>16, <3>17 DEF Ascending
  <2> QED
    BY <2>2, <2>3
<1>6. ASSUME Step, ~BuildPoint PROVE UNCHANGED <<nodes, dataset, clock>>
  BY <1>6 DEF Step, ListForValidation, ValidateNode, ListForDataset, QualifyNode, FinishQualify,
              NextPoint, ReadQuality, FeedPhase1, ReadState, FinishLoop, env
<1>7. CASE UNCHANGED analysisVars
  BY <1>1, <1>7 DEF analysisVars, run, env
<1> QED
  BY <1>1, <1>2, <1>3, <1>4, <1>5, <1>6, <1>7 DEF AnalysisNext

\* DatasetInArrivalOrder: the values of a node enter the dataset of
\* convertStoreToDataset in the order they arrived while the window slides, and
\* a completed analysis has a full point for each node, for any window.
THEOREM DatasetOrdered == AnalysisSpec => []DatasetInArrivalOrder
<1>1. AnalysisInit => Ascending
  <2> SUFFICES ASSUME AnalysisInit, NEW id \in NodeIDs PROVE WindowAscends(id) /\ ReadAscends(id)
    BY DEF Ascending
  <2>1. dataset[id] = << >> /\ nodes[id] = << >>
    BY DEF AnalysisInit, EmptyRun, Init, New
  <2> QED
    BY <2>1 DEF WindowAscends, ReadAscends
<1>2. Types /\ Filled /\ Ascending /\ [AnalysisNext]_analysisVars => (Types /\ Filled /\ Ascending)'
  BY TypesStep, FilledStep, AscendingStep
<1>3. Filled /\ Ascending => DatasetInArrivalOrder
  BY DEF Filled, Ascending, ReadAscends, DatasetInArrivalOrder
<1> QED
  BY <1>1, <1>2, <1>3, StartTypes, PTL DEF AnalysisSpec
=============================================================================
