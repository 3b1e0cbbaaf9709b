--------------------------- MODULE Process_proofs ---------------------------
(***************************************************************************)
(* Theorems about what the server process keeps: the memories, the policy  *)
(* files and the configuration (ServerProcess), for any number of analyses *)
(* and restarts, any nodes, targets and capacities; and the processors of  *)
(* one analysis (SignalPhase).                                             *)
(***************************************************************************)
EXTENDS ServerProcess, SignalPhase, SequenceTheorems, FiniteSetTheorems, TLAPS

-----------------------------------------------------------------------------
(***************************************************************************)
(* The list of a cache: what its operations do to a sequence that holds    *)
(* every key once.                                                         *)
(***************************************************************************)

\* RemoveFirst takes a key out of a sequence that holds it at most once.
LEMMA Removing ==
    ASSUME NEW S, NEW s \in Seq(S), NEW k, IsInjective(s)
    PROVE  /\ RemoveFirst(s, k) \in Seq(S) /\ IsInjective(RemoveFirst(s, k))
           /\ ToSet(RemoveFirst(s, k)) = ToSet(s) \ {k}
           /\ Len(RemoveFirst(s, k)) = IF k \in ToSet(s) THEN Len(s) - 1 ELSE Len(s)
<1>1. Len(s) \in Nat /\ DOMAIN s = 1..Len(s) /\ \A i \in 1..Len(s) : s[i] \in S
  OBVIOUS
<1>2. CASE k \notin ToSet(s)
  <2>1. RemoveFirst(s, k) = s
    BY <1>1, <1>2 DEF RemoveFirst, ToSet
  <2> QED
    BY <1>1, <1>2, <2>1
<1>3. CASE k \in ToSet(s)
  <2>1. PICK at \in 1..Len(s) : s[at] = k
    BY <1>1, <1>3 DEF ToSet
  <2>2. {i \in 1..Len(s) : s[i] = k} = {at}
    BY <1>1, <2>1 DEF IsInjective
  <2>3. Min({at}) = at
    BY DEF Min
  <2>4. RemoveFirst(s, k) = RemoveAt(s, at)
    BY <2>1, <2>2, <2>3 DEF RemoveFirst, SelectInSeq
  <2>5. PICK u : u = SubSeq(s, 1, at - 1) \o SubSeq(s, at + 1, Len(s))
    OBVIOUS
  <2>6. /\ SubSeq(s, 1, at - 1) \in Seq(S) /\ Len(SubSeq(s, 1, at - 1)) = at - 1
        /\ \A i \in 1..(at - 1) : SubSeq(s, 1, at - 1)[i] = s[i]
    <3>1. \A i \in 1..(at - 1) : s[i] \in S
      BY <1>1
    <3>2. /\ SubSeq(s, 1, at - 1) \in Seq(S)
          /\ Len(SubSeq(s, 1, at - 1)) = IF 1 <= at - 1 THEN (at - 1) - 1 + 1 ELSE 0
          /\ \A i \in 1..((at - 1) - 1 + 1) : SubSeq(s, 1, at - 1)[i] = s[1 + i - 1]
      BY <3>1, SubSeqProperties
    <3> QED BY <3>2
  <2>7. /\ SubSeq(s, at + 1, Len(s)) \in Seq(S) /\ Len(SubSeq(s, at + 1, Len(s))) = Len(s) - at
        /\ \A i \in 1..(Len(s) - at) : SubSeq(s, at + 1, Len(s))[i] = s[at + i]
    <3>1. \A i \in (at + 1)..Len(s) : s[i] \in S
      BY <1>1
    <3>2. /\ SubSeq(s, at + 1, Len(s)) \in Seq(S)
          /\ Len(SubSeq(s, at + 1, Len(s))) = IF at + 1 <= Len(s) THEN Len(s) - (at + 1) + 1 ELSE 0
          /\ \A i \in 1..(Len(s) - (at + 1) + 1) : SubSeq(s, at + 1, Len(s))[i] = s[(at + 1) + i - 1]
      BY <1>1, <3>1, SubSeqProperties
    <3>3. Len(s) - (at + 1) + 1 = Len(s) - at /\ Len(s) - at \in Nat
      BY <1>1
    <3>4. \A i \in 1..(Len(s) - at) : (at + 1) + i - 1 = at + i
      BY <1>1
    <3>5. at \in Int /\ Len(s) \in Int /\ at <= Len(s)
      BY <1>1
    <3>6. \A a, n \in Int : a <= n => a + 1 <= n \/ n - a = 0
      OBVIOUS
    <3>7. Len(SubSeq(s, at + 1, Len(s))) = Len(s) - at
      BY <3>2, <3>3, <3>5, <3>6
    <3> QED BY <3>2, <3>3, <3>4, <3>7
  \* Where the i-th entry that is left was.
  <2> DEFINE From(i) == IF i < at THEN i ELSE i + 1
  <2>8. u \in Seq(S) /\ Len(u) = Len(s) - 1 /\ \A i \in 1..(Len(s) - 1) : u[i] = s[From(i)]
    <3>1. /\ u \in Seq(S) /\ Len(u) = (at - 1) + (Len(s) - at)
          /\ \A i \in 1..((at - 1) + (Len(s) - at)) :
                u[i] = IF i <= at - 1 THEN SubSeq(s, 1, at - 1)[i] ELSE SubSeq(s, at + 1, Len(s))[i - (at - 1)]
      <4>1. PICK a \in Seq(S) : a = SubSeq(s, 1, at - 1)
        BY <2>6
      <4>2. PICK b \in Seq(S) : b = SubSeq(s, at + 1, Len(s))
        BY <2>7
      <4>3. /\ a \o b \in Seq(S) /\ Len(a \o b) = Len(a) + Len(b)
            /\ \A i \in 1..(Len(a) + Len(b)) : (a \o b)[i] = IF i <= Len(a) THEN a[i] ELSE b[i - Len(a)]
        BY ConcatProperties
      <4> QED BY <2>5, <2>6, <2>7, <4>1, <4>2, <4>3
    <3>2. ASSUME NEW i \in 1..(Len(s) - 1) PROVE u[i] = s[From(i)]
      <4>1. CASE i < at
        BY <1>1, <2>6, <3>1, <4>1
      <4>2. CASE i >= at
        <5>1. i - (at - 1) \in 1..(Len(s) - at) /\ at + (i - (at - 1)) = i + 1
          BY <1>1, <4>2
        <5>2. u[i] = SubSeq(s, at + 1, Len(s))[i - (at - 1)]
          BY <1>1, <3>1, <4>2
        <5> QED BY <2>7, <4>2, <5>1, <5>2
      <4> QED BY <1>1, <4>1, <4>2
    <3> QED BY <1>1, <3>1, <3>2
  <2>9. \A i \in 1..(Len(s) - 1) : From(i) \in 1..Len(s) /\ From(i) # at
    BY <1>1
  <2>10. \A i, j \in 1..(Len(s) - 1) : From(i) = From(j) => i = j
    BY <1>1
  <2>11. \A n \in 1..Len(s) : n # at => \E i \in 1..(Len(s) - 1) : From(i) = n
    <3> SUFFICES ASSUME NEW n \in 1..Len(s), n # at
                 PROVE  \E i \in 1..(Len(s) - 1) : From(i) = n
      OBVIOUS
    <3>1. CASE n < at
      <4>1. n \in 1..(Len(s) - 1) /\ From(n) = n
        BY <1>1, <3>1
      <4> QED BY <4>1
    <3>2. CASE n > at
      <4>1. n - 1 \in 1..(Len(s) - 1) /\ From(n - 1) = n
        BY <1>1, <3>2
      <4> QED BY <4>1
    <3> QED BY <3>1, <3>2
  <2> HIDE DEF From
  <2>12. \A i \in 1..(Len(s) - 1) : u[i] \in ToSet(s) /\ u[i] # k
    BY <1>1, <2>1, <2>8, <2>9 DEF ToSet, IsInjective
  <2>13. ASSUME NEW x \in ToSet(s) \ {k} PROVE \E i \in 1..(Len(s) - 1) : u[i] = x
    <3>1. PICK n \in 1..Len(s) : s[n] = x
      BY <1>1 DEF ToSet
    <3>2. n # at
      BY <2>1, <3>1
    <3>3. PICK i \in 1..(Len(s) - 1) : From(i) = n
      BY <2>11, <3>2
    <3> QED BY <2>8, <3>1, <3>3
  <2>14. DOMAIN u = 1..(Len(s) - 1)
    BY <2>8
  <2>15. ToSet(u) = ToSet(s) \ {k}
    BY <2>12, <2>13, <2>14 DEF ToSet
  <2>16. IsInjective(u)
    BY <1>1, <2>8, <2>9, <2>10, <2>14 DEF IsInjective
  <2> QED
    BY <1>3, <2>4, <2>5, <2>8, <2>15, <2>16 DEF RemoveAt
<1> QED BY <1>2, <1>3

LEMMA Appending ==
    ASSUME NEW S, NEW s \in Seq(S), NEW k \in S, IsInjective(s), k \notin ToSet(s)
    PROVE  /\ Append(s, k) \in Seq(S) /\ IsInjective(Append(s, k))
           /\ ToSet(Append(s, k)) = ToSet(s) \union {k}
           /\ Len(Append(s, k)) = Len(s) + 1
<1>1. PICK u : u = Append(s, k)
  OBVIOUS
<1>2. /\ Len(s) \in Nat /\ u \in Seq(S) /\ Len(u) = Len(s) + 1 /\ u[Len(s) + 1] = k
      /\ \A i \in 1..Len(s) : u[i] = s[i]
  BY <1>1
<1>3. DOMAIN u = 1..(Len(s) + 1) /\ DOMAIN s = 1..Len(s)
  BY <1>2
<1>4. \A i \in 1..Len(s) : s[i] # k
  BY <1>3 DEF ToSet
<1>5. IsInjective(u)
  BY <1>2, <1>3, <1>4 DEF IsInjective
<1>6. ToSet(u) = ToSet(s) \union {k}
  <2>1. \A x \in ToSet(u) : x \in ToSet(s) \union {k}
    BY <1>2, <1>3 DEF ToSet
  <2>2. \A x \in ToSet(s) \union {k} : x \in ToSet(u)
    BY <1>2, <1>3 DEF ToSet
  <2> QED BY <2>1, <2>2
<1> QED BY <1>1, <1>2, <1>5, <1>6

LEMMA Beheading ==
    ASSUME NEW S, NEW s \in Seq(S), IsInjective(s), s # << >>
    PROVE  /\ Head(s) \in S /\ Head(s) \in ToSet(s)
           /\ Tail(s) \in Seq(S) /\ IsInjective(Tail(s))
           /\ ToSet(Tail(s)) = ToSet(s) \ {Head(s)}
           /\ Len(Tail(s)) = Len(s) - 1
<1>1. PICK u : u = Tail(s)
  OBVIOUS
<1>2. /\ Len(s) \in Nat \ {0} /\ u \in Seq(S) /\ Len(u) = Len(s) - 1 /\ Head(s) = s[1]
      /\ \A i \in 1..(Len(s) - 1) : u[i] = s[i + 1]
  BY <1>1, HeadTailProperties
<1>3. DOMAIN u = 1..(Len(s) - 1) /\ DOMAIN s = 1..Len(s) /\ 1 \in 1..Len(s)
  BY <1>2
<1>4. \A i \in 1..(Len(s) - 1) : i + 1 \in 1..Len(s) /\ i + 1 # 1
  BY <1>2
<1>5. IsInjective(u)
  BY <1>2, <1>3, <1>4 DEF IsInjective
<1>6. ToSet(u) = ToSet(s) \ {s[1]}
  <2>1. \A x \in ToSet(u) : x \in ToSet(s) \ {s[1]}
    <3> TAKE x \in ToSet(u)
    <3>1. PICK i \in 1..(Len(s) - 1) : u[i] = x
      BY <1>3 DEF ToSet
    <3>2. i + 1 \in DOMAIN s /\ s[i + 1] = x /\ s[i + 1] # s[1]
      BY <1>2, <1>3, <1>4, <3>1 DEF IsInjective
    <3> QED BY <3>2 DEF ToSet
  <2>2. ASSUME NEW x \in ToSet(s) \ {s[1]} PROVE x \in ToSet(u)
    <3>1. PICK i \in 1..Len(s) : s[i] = x
      BY <1>3 DEF ToSet
    <3>2. i - 1 \in 1..(Len(s) - 1) /\ (i - 1) + 1 = i
      BY <1>2, <2>2, <3>1
    <3> QED BY <1>2, <1>3, <3>1, <3>2 DEF ToSet
  <2> QED BY <2>1, <2>2
<1>7. Head(s) \in S /\ Head(s) \in ToSet(s)
  BY <1>2, <1>3 DEF ToSet
<1> QED BY <1>1, <1>2, <1>5, <1>6, <1>7

-----------------------------------------------------------------------------
(***************************************************************************)
(* The server process.  Types, beyond those of TypeOK.                     *)
(***************************************************************************)

PolicyTypes ==
    /\ file \in [Paths -> Weights \union {Missing, Partial}]
    /\ tmp \in [Paths -> Weights \union {Missing, Partial}]
    /\ newest \in [Paths -> Weights \union {Missing, Partial}]
    /\ saver = {} \/ \E r \in Requests : saver = {r}

MemoryTypes ==
    /\ cacheSize \in Nat \ {0} /\ maxHistory \in Nat \ {0}
    /\ cacheSize \in CacheSizes
    /\ recent \in Seq(Nodes) /\ IsInjective(recent) /\ Len(recent) <= cacheSize
    /\ memory \in [Nodes -> Requests \union {NotYet}]
    /\ \A n \in ToSet(recent) : memory[n] \in Requests
    /\ history \in [Requests -> Seq(Requests)]
    /\ \A r \in Requests : Len(history[r]) <= maxHistory

Steps == {"new", "memory", "observe", "cache", "policy", "save", "write", "rename", "over"}
Saving == {"save", "write", "rename"}

RequestTypes ==
    /\ pc \in [Requests -> Steps]
    /\ node \in [Requests -> Nodes \union {NotYet}]
    /\ target \in [Requests -> Targets \union {NotYet}]
    /\ ref \in [Requests -> Requests \union {NotYet}]
    /\ prior \in [Requests -> SUBSET Weights]
    /\ shape \in [Requests -> Shapes \union {NotYet}]
    /\ \A r \in Requests :
          /\ pc[r] \in {"observe", "cache"} => node[r] \in Nodes /\ ref[r] \in Requests
          /\ pc[r] \in Saving => target[r] \in Targets /\ shape[r] \in Shapes

PastTypes ==
    /\ before \in [Requests -> SUBSET Requests]
    /\ evicted \subseteq Nodes
    /\ observed \subseteq Requests /\ saved \subseteq Requests /\ blind \subseteq Requests

ConfigTypes ==
    /\ server \in {"down", "up", "draining"}
    /\ {container, dotenv, env} \subseteq Values \union {""}
    /\ {config, startup} \subseteq Parsed \union {Default}

ProcessTypes == PolicyTypes /\ MemoryTypes /\ RequestTypes /\ PastTypes /\ ConfigTypes

LEMMA PathType == ASSUME NEW t \in Targets PROVE Path(t) \in Paths
  BY DEF Paths

LEMMA TrainedType ==
    ASSUME RequestTypes, NEW r \in Requests, pc[r] \in Saving
    PROVE  Trained(r) \in Weights
<1>1. shape[r] \in Shapes /\ prior[r] \subseteq Weights
  BY DEF RequestTypes
<1>2. \A w \in Usable(r) : w.by \subseteq Requests
  BY <1>1 DEF Usable, Weights
<1>3. {r} \union UNION {w.by : w \in Usable(r)} \subseteq Requests
  BY <1>2
<1> QED BY <1>1, <1>3 DEF Trained, Weights

\* The steps of an analysis that leave the policy files alone, and the others.
LEMMA PolicyStep == PolicyTypes /\ RequestTypes /\ [Next]_vars => PolicyTypes'
<1> SUFFICES ASSUME PolicyTypes, RequestTypes, [Next]_vars PROVE PolicyTypes'
  OBVIOUS
<1>1. ASSUME UNCHANGED <<policyVars, newest>> PROVE PolicyTypes'
  BY <1>1 DEF policyVars, PolicyTypes
<1>2. ASSUME NEW r \in Requests, BeginSave(r) PROVE PolicyTypes'
  BY <1>2 DEF BeginSave, SaveBegins, pastVars, PolicyTypes
<1>3. ASSUME NEW r \in Requests, WriteTemporary(r) PROVE PolicyTypes'
  <2>1. Trained(r) \in Weights
    BY <1>3, TrainedType DEF WriteTemporary, Saving
  <2>2. CASE SaveWritten(target[r], Trained(r))
    BY <1>3, <2>1, <2>2 DEF WriteTemporary, SaveWritten, pastVars, PolicyTypes
  <2>3. CASE SaveFails
    BY <1>3, <2>3 DEF WriteTemporary, SaveFails, pastVars, PolicyTypes
  <2> QED BY <1>3, <2>2, <2>3 DEF WriteTemporary
<1>4. ASSUME NEW r \in Requests, RenameTemporary(r) PROVE PolicyTypes'
  <2>1. Trained(r) \in Weights /\ Path(target[r]) \in Paths
    BY <1>4, TrainedType, PathType DEF RenameTemporary, Saving, RequestTypes
  <2>2. CASE SaveRenamed(target[r]) /\ newest' = [newest EXCEPT ![Path(target[r])] = Trained(r)]
    BY <2>1, <2>2 DEF SaveRenamed, PolicyTypes
  <2>3. CASE SaveNotRenamed(target[r]) /\ newest' = newest
    BY <2>1, <2>3 DEF SaveNotRenamed, PolicyTypes
  <2> QED BY <1>4, <2>2, <2>3 DEF RenameTemporary
<1>5. ASSUME Exit PROVE PolicyTypes'
  BY <1>5 DEF Exit, PolicyCrash, PolicyTypes
<1>6. ASSUME NEW r \in Requests, Analysis(r) PROVE PolicyTypes'
  BY <1>1, <1>2, <1>3, <1>4, <1>6 DEF Analysis, Arrive, GetTemporal, Observe, SetTemporal, ReturnEarly, LoadPolicy, pastVars
<1> QED
  BY <1>1, <1>5, <1>6 DEF Next, Start, Poll, Edit, Terminate, Drained, GraceOver, Crash, vars, pastVars

\* A node that is used stands last in the cache's list.
LEMMA UsedFacts ==
    ASSUME MemoryTypes, NEW n \in Nodes
    PROVE  /\ Used(n) \in Seq(Nodes) /\ IsInjective(Used(n))
           /\ ToSet(Used(n)) = ToSet(recent) \union {n}
           /\ Len(Used(n)) = IF Cached(n) THEN Len(recent) ELSE Len(recent) + 1
<1>1. recent \in Seq(Nodes) /\ IsInjective(recent) /\ Len(recent) \in Nat
  BY DEF MemoryTypes
<1>2. PICK left \in Seq(Nodes) : left = RemoveFirst(recent, n)
  BY <1>1, Removing
<1>3. /\ IsInjective(left) /\ ToSet(left) = ToSet(recent) \ {n}
      /\ Len(left) = IF n \in ToSet(recent) THEN Len(recent) - 1 ELSE Len(recent)
  BY <1>1, <1>2, Removing
<1>4. /\ Append(left, n) \in Seq(Nodes) /\ IsInjective(Append(left, n))
      /\ ToSet(Append(left, n)) = ToSet(left) \union {n}
      /\ Len(Append(left, n)) = Len(left) + 1
  BY <1>3, Appending
<1>5. Used(n) = Append(left, n)
  BY <1>2 DEF Used
<1> QED BY <1>1, <1>3, <1>4, <1>5 DEF Cached

\* Set adds its node and pushes out at most the one used least recently.
LEMMA SetFacts ==
    ASSUME MemoryTypes, NEW n \in Nodes, NEW m, SetMemory(n, m)
    PROVE  /\ recent' \in Seq(Nodes) /\ IsInjective(recent') /\ Len(recent') <= cacheSize
           /\ ToSet(recent') = (ToSet(recent) \union {n}) \ PushedOut(n)
           /\ n \notin PushedOut(n) /\ PushedOut(n) \subseteq Nodes
<1>1. recent \in Seq(Nodes) /\ IsInjective(recent) /\ Len(recent) \in Nat
      /\ cacheSize \in Nat \ {0} /\ Len(recent) <= cacheSize
  BY DEF MemoryTypes
<1>2. /\ Used(n) \in Seq(Nodes) /\ IsInjective(Used(n))
      /\ ToSet(Used(n)) = ToSet(recent) \union {n}
      /\ Len(Used(n)) = IF Cached(n) THEN Len(recent) ELSE Len(recent) + 1
  BY UsedFacts
<1>3. CASE Cached(n) \/ Len(recent) < cacheSize
  <2>1. PushedOut(n) = {} /\ recent' = Used(n)
    BY <1>3 DEF SetMemory, PushedOut
  <2> QED BY <1>1, <1>2, <1>3, <2>1
<1>4. CASE ~Cached(n) /\ Len(recent) = cacheSize
  <2>1. PushedOut(n) = {Head(recent)} /\ recent' = Tail(Used(n))
    BY <1>1, <1>4 DEF SetMemory, PushedOut
  <2>2. Head(recent) \in Nodes /\ Head(recent) \in ToSet(recent)
    BY <1>1, <1>4, Beheading
  <2>3. Used(n) = Append(recent, n)
    <3>1. DOMAIN recent = 1..Len(recent)
      BY <1>1
    <3>2. ~ \E i \in 1..Len(recent) : recent[i] = n
      BY <1>4, <3>1 DEF Cached, ToSet
    <3> QED BY <3>2, Zenon DEF Used, RemoveFirst
  <2>4. Head(Used(n)) = Head(recent) /\ Used(n) # << >>
    BY <1>1, <1>4, <2>3
  <2>5. /\ Tail(Used(n)) \in Seq(Nodes) /\ IsInjective(Tail(Used(n)))
        /\ ToSet(Tail(Used(n))) = ToSet(Used(n)) \ {Head(Used(n))}
        /\ Len(Tail(Used(n))) = Len(Used(n)) - 1
    BY <1>2, <2>4, Beheading
  <2>6. n # Head(recent)
    BY <1>4, <2>2 DEF Cached
  <2> QED BY <1>1, <1>2, <1>4, <2>1, <2>2, <2>4, <2>5, <2>6
<1> QED BY <1>1, <1>3, <1>4

LEMMA ObservedType ==
    ASSUME MemoryTypes, NEW s \in Seq(Requests), Len(s) <= maxHistory, NEW r \in Requests
    PROVE  Observed(s, r) \in Seq(Requests) /\ Len(Observed(s, r)) <= maxHistory
<1>1. maxHistory \in Nat \ {0} /\ Len(s) \in Nat
  BY DEF MemoryTypes
<1>2. CASE Len(s) = maxHistory
  <2>1. s # << >>
    BY <1>1, <1>2
  <2>2. Tail(s) \in Seq(Requests) /\ Len(Tail(s)) = Len(s) - 1
    BY <2>1, HeadTailProperties
  <2> QED BY <1>1, <1>2, <2>2 DEF Observed
<1>3. CASE Len(s) # maxHistory
  BY <1>1, <1>3 DEF Observed
<1> QED BY <1>2, <1>3

LEMMA MemoryStep == MemoryTypes /\ RequestTypes /\ [Next]_vars => MemoryTypes'
<1> SUFFICES ASSUME MemoryTypes, RequestTypes, [Next]_vars PROVE MemoryTypes'
  OBVIOUS
<1>1. ASSUME UNCHANGED memoryVars PROVE MemoryTypes'
  BY <1>1 DEF memoryVars, MemoryTypes
<1>2. ASSUME NEW r \in Requests, NEW n \in Nodes, GetTemporal(r, n) PROVE MemoryTypes'
  <2>1. UNCHANGED <<cacheSize, maxHistory, memory, history>>
    BY <1>2 DEF GetTemporal, GetMemory
  <2>2. CASE Cached(n)
    <3>1. recent' = Used(n)
      BY <1>2, <2>2 DEF GetTemporal, GetMemory
    <3>2. ToSet(recent') = ToSet(recent) /\ Len(recent') = Len(recent)
          /\ recent' \in Seq(Nodes) /\ IsInjective(recent')
      BY <2>2, <3>1, UsedFacts DEF Cached
    <3> QED BY <2>1, <3>2 DEF MemoryTypes
  <2>3. CASE ~Cached(n)
    BY <1>1, <1>2, <2>1, <2>3 DEF GetTemporal, GetMemory, memoryVars
  <2> QED BY <2>2, <2>3
<1>3. ASSUME NEW r \in Requests, Observe(r) PROVE MemoryTypes'
  <2>1. ref[r] \in Requests /\ history[ref[r]] \in Seq(Requests) /\ Len(history[ref[r]]) <= maxHistory
    BY <1>3 DEF Observe, RequestTypes, MemoryTypes
  <2>2. PICK h \in Seq(Requests) : h = Observed(history[ref[r]], r) /\ Len(h) <= maxHistory
    BY <2>1, ObservedType
  <2>3. history' = [history EXCEPT ![ref[r]] = h] /\ UNCHANGED <<cacheSize, maxHistory, recent, memory>>
    BY <1>3, <2>2 DEF Observe, UpdateMemory, MemoryTypes
  <2> QED BY <2>1, <2>2, <2>3 DEF MemoryTypes
<1>4. ASSUME NEW r \in Requests, SetTemporal(r) PROVE MemoryTypes'
  <2>1. node[r] \in Nodes /\ ref[r] \in Requests /\ SetMemory(node[r], ref[r])
    BY <1>4 DEF SetTemporal, RequestTypes
  <2>2. /\ recent' \in Seq(Nodes) /\ IsInjective(recent') /\ Len(recent') <= cacheSize
        /\ ToSet(recent') \subseteq ToSet(recent) \union {node[r]}
    BY <2>1, SetFacts
  <2>3. memory' = [memory EXCEPT ![node[r]] = ref[r]] /\ UNCHANGED <<cacheSize, maxHistory, history>>
    BY <2>1 DEF SetMemory
  <2> QED BY <2>1, <2>2, <2>3 DEF MemoryTypes
<1>5. ASSUME Exit PROVE MemoryTypes'
  <2>1. /\ recent' = << >> /\ memory' = [n \in Nodes |-> NotYet]
        /\ history' = [r \in DOMAIN history |-> << >>]
        /\ UNCHANGED <<cacheSize, maxHistory>>
    BY <1>5 DEF Exit, MemoryCrash
  <2>2. IsInjective(recent') /\ ToSet(recent') = {} /\ Len(recent') = 0 /\ recent' \in Seq(Nodes)
    BY <2>1 DEF IsInjective, ToSet
  <2>3. history' \in [Requests -> Seq(Requests)] /\ \A r \in Requests : Len(history'[r]) = 0
    BY <2>1 DEF MemoryTypes
  <2> QED BY <2>1, <2>2, <2>3 DEF MemoryTypes
<1>6. ASSUME NEW r \in Requests, Analysis(r) PROVE MemoryTypes'
  BY <1>1, <1>2, <1>3, <1>4, <1>6 DEF Analysis, Arrive, ReturnEarly, LoadPolicy, BeginSave, WriteTemporary, RenameTemporary
<1> QED
  BY <1>1, <1>5, <1>6 DEF Next, Start, Poll, Edit, Terminate, Drained, GraceOver, Crash, vars

\* What GetTemporal chooses is there.
LEMMA RememberedType ==
    ASSUME MemoryTypes, NEW n \in Nodes, NEW r \in Requests
    PROVE  Remembered(n, r) \in Requests
  BY DEF MemoryTypes, Remembered, Cached

LEMMA StoredType == ASSUME PolicyTypes, NEW t \in Targets PROVE Stored(t) \subseteq Weights
  BY PathType DEF PolicyTypes, Stored

LEMMA RequestStep == PolicyTypes /\ MemoryTypes /\ RequestTypes /\ [Next]_vars => RequestTypes'
<1> SUFFICES ASSUME PolicyTypes, MemoryTypes, RequestTypes, [Next]_vars PROVE RequestTypes'
  OBVIOUS
<1>1. ASSUME UNCHANGED requestVars PROVE RequestTypes'
  BY <1>1 DEF requestVars, RequestTypes
<1>2. ASSUME NEW r \in Requests, NEW to \in Steps \ {"observe", "save"}, Goto(r, to),
             to \in {"cache"} \union Saving => pc[r] \in {"observe", "cache"} \union Saving,
             to = "cache" => pc[r] = "observe", to \in Saving => pc[r] \in Saving,
             UNCHANGED <<node, target, ref, prior, shape>>
      PROVE  RequestTypes'
  BY <1>2 DEF Goto, RequestTypes, Saving, Steps
<1>3. ASSUME NEW r \in Requests, NEW n \in Nodes, GetTemporal(r, n) PROVE RequestTypes'
  <2>1. Remembered(n, r) \in Requests
    BY RememberedType
  <2> QED BY <1>3, <2>1 DEF GetTemporal, Goto, RequestTypes, Saving, Steps
<1>4. ASSUME NEW r \in Requests, NEW t \in Targets, NEW k \in Shapes, LoadPolicy(r, t, k) PROVE RequestTypes'
  <2>1. PICK known \in SUBSET Weights : prior' = [prior EXCEPT ![r] = known]
    BY <1>4, StoredType DEF LoadPolicy
  <2> QED BY <1>4, <2>1 DEF LoadPolicy, Goto, RequestTypes, Saving, Steps
<1>5. ASSUME Exit PROVE RequestTypes'
  BY <1>5 DEF Exit, RequestTypes, Saving, Steps
<1>6. ASSUME NEW r \in Requests, Analysis(r) PROVE RequestTypes'
  <2>1. CASE Arrive(r)
    BY <1>2, <2>1 DEF Arrive, Steps, Saving
  <2>2. CASE Observe(r)
    BY <1>2, <2>2 DEF Observe, Steps, Saving
  <2>3. CASE SetTemporal(r)
    BY <1>2, <2>3 DEF SetTemporal, Steps, Saving
  <2>4. CASE ReturnEarly(r)
    BY <1>2, <2>4 DEF ReturnEarly, Steps, Saving
  <2>5. CASE BeginSave(r)
    BY <1>2, <2>5 DEF BeginSave, Steps, Saving
  <2>6. CASE WriteTemporary(r)
    BY <1>2, <2>6 DEF WriteTemporary, Steps, Saving
  <2>7. CASE RenameTemporary(r)
    BY <1>2, <2>7 DEF RenameTemporary, Steps, Saving
  <2> QED BY <1>3, <1>4, <1>6, <2>1, <2>2, <2>3, <2>4, <2>5, <2>6, <2>7 DEF Analysis
<1> QED
  BY <1>1, <1>5, <1>6 DEF Next, Start, Poll, Edit, Terminate, Drained, GraceOver, Crash, vars, requestVars

LEMMA PastStep == MemoryTypes /\ RequestTypes /\ PastTypes /\ [Next]_vars => PastTypes'
<1> SUFFICES ASSUME MemoryTypes, RequestTypes, PastTypes, [Next]_vars PROVE PastTypes'
  OBVIOUS
<1>1. ASSUME UNCHANGED pastVars PROVE PastTypes'
  BY <1>1 DEF pastVars, PastTypes
<1>2. ASSUME NEW r \in Requests, SetTemporal(r) PROVE PastTypes'
  <2>1. PushedOut(node[r]) \subseteq Nodes
    BY <1>2, SetFacts DEF SetTemporal, RequestTypes
  <2> QED BY <1>2, <2>1 DEF SetTemporal, PastTypes
<1>3. ASSUME Exit PROVE PastTypes'
  BY <1>3 DEF Exit, PastTypes
<1>4. ASSUME NEW r \in Requests, Analysis(r) PROVE PastTypes'
  <2>1. CASE Arrive(r)
    BY <2>1 DEF Arrive, PastTypes
  <2>2. ASSUME NEW t \in Targets, NEW k \in Shapes, LoadPolicy(r, t, k) PROVE PastTypes'
    BY <2>2 DEF LoadPolicy, PastTypes
  <2>3. CASE RenameTemporary(r)
    BY <2>3 DEF RenameTemporary, PastTypes
  <2> QED
    BY <1>1, <1>2, <1>4, <2>1, <2>2, <2>3 DEF Analysis, GetTemporal, Observe, ReturnEarly, BeginSave, WriteTemporary
<1> QED
  BY <1>1, <1>3, <1>4 DEF Next, Start, Poll, Edit, Terminate, Drained, GraceOver, Crash, vars

LEMMA GetenvType == \A v : Getenv(v) \in Parsed \union {Default}
  BY DEF Getenv

LEMMA ConfigStep == ConfigTypes /\ [Next]_vars => ConfigTypes'
<1> SUFFICES ASSUME ConfigTypes, [Next]_vars PROVE ConfigTypes'
  OBVIOUS
<1>1. ASSUME UNCHANGED <<configVars, server>> PROVE ConfigTypes'
  BY <1>1 DEF configVars, ConfigTypes
<1>2. CASE Start
  BY <1>2, GetenvType DEF Start, ConfigStart, ConfigTypes
<1>3. CASE Poll
  BY <1>3, GetenvType DEF Poll, ConfigPoll, LoadEnv, ConfigTypes
<1>4. CASE Edit
  BY <1>4 DEF Edit, EditDotenv, ConfigTypes
<1>5. CASE Terminate
  BY <1>5 DEF Terminate, configVars, ConfigTypes
<1>6. ASSUME Exit PROVE ConfigTypes'
  BY <1>6 DEF Exit, ConfigDown, ConfigTypes
<1>7. ASSUME NEW r \in Requests, Analysis(r) PROVE ConfigTypes'
  BY <1>1, <1>7 DEF Analysis, Arrive, GetTemporal, Observe, SetTemporal, ReturnEarly, LoadPolicy, BeginSave,
                    WriteTemporary, RenameTemporary
<1> QED
  BY <1>1, <1>2, <1>3, <1>4, <1>5, <1>6, <1>7 DEF Next, Drained, GraceOver, Crash, vars

LEMMA ProcessInit == Init => ProcessTypes
<1> SUFFICES ASSUME Init PROVE ProcessTypes
  OBVIOUS
<1>1. PolicyTypes
  BY DEF Init, PolicyInit, PolicyTypes
<1>2. MemoryTypes
  <2>1. /\ cacheSize \in CacheSizes /\ maxHistory \in HistorySizes /\ recent = << >>
        /\ memory = [n \in Nodes |-> NotYet] /\ history = [r \in Requests |-> << >>]
    BY DEF Init, MemoryInit
  <2>2. recent \in Seq(Nodes) /\ IsInjective(recent) /\ ToSet(recent) = {} /\ Len(recent) = 0
    BY <2>1 DEF IsInjective, ToSet
  <2>3. \A r \in Requests : history[r] \in Seq(Requests) /\ Len(history[r]) = 0
    BY <2>1
  <2>4. cacheSize \in Nat \ {0} /\ maxHistory \in Nat \ {0}
    BY <2>1, ServerAssumption
  <2> QED BY <2>1, <2>2, <2>3, <2>4 DEF MemoryTypes
<1>3. RequestTypes
  BY DEF Init, RequestTypes, Steps, Saving
<1>4. PastTypes
  BY DEF Init, PastTypes
<1>5. ConfigTypes
  BY DEF Init, ConfigInit, ConfigTypes
<1> QED BY <1>1, <1>2, <1>3, <1>4, <1>5 DEF ProcessTypes

LEMMA ProcessStep == ProcessTypes /\ [Next]_vars => ProcessTypes'
  BY PolicyStep, MemoryStep, RequestStep, PastStep, ConfigStep DEF ProcessTypes

LEMMA ProcessTyped == Spec => []ProcessTypes
  BY ProcessInit, ProcessStep, PTL DEF Spec

\* Every part of the process keeps its types: one goroutine at most holds the
\* policy lock, the cache never holds more nodes than it has room for, each
\* once and with a memory, and a memory is never longer than its limit.
THEOREM ProcessTypeCorrect == Spec => []TypeOK
<1>1. ProcessTypes => TypeOK
  <2> SUFFICES ASSUME ProcessTypes PROVE TypeOK
    OBVIOUS
  <2>1. saver \subseteq Requests /\ Cardinality(saver) <= 1
    <3>1. CASE saver = {}
      BY <3>1, FS_EmptySet
    <3>2. ASSUME NEW r \in Requests, saver = {r} PROVE saver \subseteq Requests /\ Cardinality(saver) <= 1
      <4>1. Cardinality({r}) = 1
        BY FS_Singleton, Zenon
      <4> QED BY <3>2, <4>1
    <3> QED BY <3>1, <3>2 DEF ProcessTypes, PolicyTypes
  <2>2. \A i, j \in DOMAIN recent : recent[i] = recent[j] => i = j
    BY DEF ProcessTypes, MemoryTypes, IsInjective
  <2>3. ASSUME NEW r \in Requests PROVE Len(history[r]) <= maxHistory /\ ToSet(history[r]) \subseteq Requests
    <3>1. history[r] \in Seq(Requests) /\ Len(history[r]) <= maxHistory
      BY DEF ProcessTypes, MemoryTypes
    <3> QED BY <3>1 DEF ToSet
  <2> QED
    BY <2>1, <2>2, <2>3 DEF TypeOK, ProcessTypes, PolicyTypes, MemoryTypes, RequestTypes, ConfigTypes, Steps
<1> QED BY <1>1, ProcessTyped, PTL

-----------------------------------------------------------------------------
(***************************************************************************)
(* The policy files.  Whoever writes or renames holds the lock, and what   *)
(* is renamed is what was trained.                                         *)
(***************************************************************************)

Locked ==
    \A r \in Requests :
        /\ pc[r] \in {"write", "rename"} => saver = {r}
        /\ pc[r] = "rename" => tmp[Path(target[r])] = Trained(r)

LEMMA TrainedSame ==
    ASSUME NEW r \in Requests, prior'[r] = prior[r], shape'[r] = shape[r]
    PROVE  Trained(r)' = Trained(r)
  BY DEF Trained, Usable

\* Everything but a save leaves the files and the lock alone.
LEMMA LockedStep == ProcessTypes /\ Locked /\ [Next]_vars => Locked'
<1> SUFFICES ASSUME ProcessTypes, Locked, [Next]_vars PROVE Locked'
  OBVIOUS
<1>1. pc \in [Requests -> Steps]
  BY DEF ProcessTypes, RequestTypes
<1>2. ASSUME UNCHANGED policyVars, UNCHANGED <<pc, target, prior, shape>> PROVE Locked'
  BY <1>2, TrainedSame DEF Locked, policyVars
<1>3. ASSUME NEW r \in Requests, NEW to \in Steps \ {"write", "rename"}, Goto(r, to), UNCHANGED policyVars,
             \A q \in Requests \ {r} : target'[q] = target[q] /\ prior'[q] = prior[q] /\ shape'[q] = shape[q]
      PROVE  Locked'
  <2>1. \A q \in Requests : pc'[q] \in {"write", "rename"} => q # r /\ pc'[q] = pc[q]
    BY <1>1, <1>3 DEF Goto, Steps
  <2>2. \A q \in Requests \ {r} : target'[q] = target[q] /\ Trained(q)' = Trained(q)
    BY <1>3, TrainedSame
  <2>3. tmp' = tmp /\ saver' = saver
    BY <1>3 DEF policyVars
  <2> QED BY <2>1, <2>2, <2>3 DEF Locked
<1>4. ASSUME NEW r \in Requests, BeginSave(r) PROVE Locked'
  <2>1. saver = {} /\ saver' = {r} /\ pc' = [pc EXCEPT ![r] = "write"]
    BY <1>4 DEF BeginSave, SaveBegins, Goto
  <2>2. \A q \in Requests : pc[q] \notin {"write", "rename"}
    BY <2>1 DEF Locked
  <2>3. \A q \in Requests : pc'[q] \in {"write", "rename"} => q = r /\ pc'[q] = "write"
    BY <1>1, <2>1, <2>2
  <2> QED BY <2>1, <2>3 DEF Locked
<1>5. ASSUME NEW r \in Requests, WriteTemporary(r) PROVE Locked'
  <2>1. saver = {r} /\ \A q \in Requests \ {r} : pc[q] \notin {"write", "rename"}
    BY <1>5 DEF WriteTemporary, Locked
  <2>2. Path(target[r]) \in Paths /\ tmp \in [Paths -> Weights \union {Missing, Partial}]
    BY <1>5, PathType DEF WriteTemporary, ProcessTypes, RequestTypes, PolicyTypes, Saving
  <2>3. CASE SaveWritten(target[r], Trained(r)) /\ Goto(r, "rename")
    <3>1. \A q \in Requests : pc'[q] \in {"write", "rename"} => q = r
      BY <1>1, <2>1, <2>3 DEF Goto
    <3>2. tmp'[Path(target[r])] = Trained(r) /\ saver' = {r}
      BY <2>1, <2>2, <2>3 DEF SaveWritten
    <3>3. target' = target /\ Trained(r)' = Trained(r)
      BY <1>5, TrainedSame DEF WriteTemporary
    <3> QED BY <3>1, <3>2, <3>3 DEF Locked
  <2>4. CASE SaveFails /\ Goto(r, "over")
    <3>1. \A q \in Requests : pc'[q] \notin {"write", "rename"}
      BY <1>1, <2>1, <2>4 DEF Goto
    <3> QED BY <3>1 DEF Locked
  <2> QED BY <1>5, <2>3, <2>4 DEF WriteTemporary
<1>6. ASSUME NEW r \in Requests, RenameTemporary(r) PROVE Locked'
  <2>1. saver = {r} /\ \A q \in Requests \ {r} : pc[q] \notin {"write", "rename"}
    BY <1>6 DEF RenameTemporary, Locked
  <2>2. \A q \in Requests : pc'[q] \notin {"write", "rename"}
    BY <1>1, <1>6, <2>1 DEF RenameTemporary, Goto
  <2> QED BY <2>2 DEF Locked
<1>7. ASSUME Exit PROVE Locked'
  <2>1. \A q \in Requests : pc'[q] \notin {"write", "rename"}
    BY <1>1, <1>7 DEF Exit, InFlight
  <2> QED BY <2>1 DEF Locked
<1>8. ASSUME NEW r \in Requests, Analysis(r) PROVE Locked'
  <2>1. CASE Arrive(r)
    BY <1>3, <2>1 DEF Arrive, Steps
  <2>2. ASSUME NEW n \in Nodes, GetTemporal(r, n) PROVE Locked'
    BY <1>3, <2>2 DEF GetTemporal, Steps
  <2>3. CASE Observe(r)
    BY <1>3, <2>3 DEF Observe, Steps
  <2>4. CASE SetTemporal(r)
    BY <1>3, <2>4 DEF SetTemporal, Steps
  <2>5. CASE ReturnEarly(r)
    BY <1>3, <2>5 DEF ReturnEarly, Steps
  <2>6. ASSUME NEW t \in Targets, NEW k \in Shapes, LoadPolicy(r, t, k) PROVE Locked'
    <3>1. \A q \in Requests \ {r} : target'[q] = target[q] /\ prior'[q] = prior[q] /\ shape'[q] = shape[q]
      BY <2>6 DEF LoadPolicy, ProcessTypes, RequestTypes
    <3> QED BY <1>3, <2>6, <3>1 DEF LoadPolicy, Steps
  <2> QED BY <1>4, <1>5, <1>6, <1>8, <2>1, <2>2, <2>3, <2>4, <2>5, <2>6 DEF Analysis
<1> QED
  BY <1>2, <1>7, <1>8 DEF Next, Start, Poll, Edit, Terminate, Drained, GraceOver, Crash, vars, requestVars

\* A rename puts the trained weights under the name of the policy, and
\* nothing else writes there.
LEMMA AtomicStep == ProcessTypes /\ Locked /\ SaveIsAtomic /\ [Next]_vars => SaveIsAtomic'
<1> SUFFICES ASSUME ProcessTypes, Locked, SaveIsAtomic, [Next]_vars PROVE SaveIsAtomic'
  OBVIOUS
<1>1. ASSUME file' = file, newest' = newest PROVE SaveIsAtomic'
  BY <1>1 DEF SaveIsAtomic
<1>2. ASSUME NEW r \in Requests, RenameTemporary(r), SaveRenamed(target[r]),
             newest' = [newest EXCEPT ![Path(target[r])] = Trained(r)]
      PROVE  SaveIsAtomic'
  <2>1. tmp[Path(target[r])] = Trained(r)
    BY <1>2 DEF RenameTemporary, Locked
  <2>2. file' = [file EXCEPT ![Path(target[r])] = Trained(r)]
    BY <1>2, <2>1 DEF SaveRenamed
  <2> QED BY <1>2, <2>2 DEF SaveIsAtomic, ProcessTypes, PolicyTypes
<1>3. ASSUME NEW r \in Requests, RenameTemporary(r) PROVE SaveIsAtomic'
  BY <1>1, <1>2, <1>3 DEF RenameTemporary, SaveNotRenamed
<1>4. ASSUME NEW r \in Requests, Analysis(r) PROVE SaveIsAtomic'
  BY <1>1, <1>3, <1>4 DEF Analysis, Arrive, GetTemporal, Observe, SetTemporal, ReturnEarly, LoadPolicy, BeginSave,
        SaveBegins, WriteTemporary, SaveWritten, SaveFails, policyVars, pastVars
<1> QED
  BY <1>1, <1>4 DEF Next, Start, Poll, Edit, Terminate, Drained, GraceOver, Crash, Exit, PolicyCrash, policyVars,
        pastVars, vars

LEMMA AtomicInit == Init => Locked /\ SaveIsAtomic
  BY DEF Init, PolicyInit, Locked, SaveIsAtomic

LEMMA FilesInvariant == Spec => [](ProcessTypes /\ Locked /\ SaveIsAtomic)
  BY ProcessInit, ProcessStep, AtomicInit, LockedStep, AtomicStep, PTL DEF Spec

\* A policy file is always whole and always what the last rename put there,
\* over every failed write and every death of the process.
THEOREM SavesAreAtomic == Spec => []SaveIsAtomic
  BY FilesInvariant, PTL

-----------------------------------------------------------------------------
(***************************************************************************)
(* What an analysis has gone through does not change any more.             *)
(***************************************************************************)

Chosen == {"save", "write", "rename", "over"}

Frame ==
    \A q \in Requests :
        /\ pc[q] # "new" => before'[q] = before[q] /\ pc'[q] # "new"
        /\ pc[q] \notin {"new", "memory"} => node'[q] = node[q] /\ ref'[q] = ref[q]
        /\ pc[q] \in Chosen => target'[q] = target[q] /\ prior'[q] = prior[q] /\ shape'[q] = shape[q]
        /\ pc[q] = "over" => pc'[q] = "over"

LEMMA FrameStep == ProcessTypes /\ [Next]_vars => Frame /\ saved \subseteq saved' /\ blind \subseteq blind'
<1> SUFFICES ASSUME ProcessTypes, [Next]_vars PROVE Frame /\ saved \subseteq saved' /\ blind \subseteq blind'
  OBVIOUS
<1>1. pc \in [Requests -> Steps] /\ before \in [Requests -> SUBSET Requests]
  BY DEF ProcessTypes, RequestTypes, PastTypes
<1>2. /\ node \in [Requests -> Nodes \union {NotYet}] /\ target \in [Requests -> Targets \union {NotYet}]
      /\ ref \in [Requests -> Requests \union {NotYet}] /\ prior \in [Requests -> SUBSET Weights]
      /\ shape \in [Requests -> Shapes \union {NotYet}]
  BY DEF ProcessTypes, RequestTypes
<1> DEFINE Goal == Frame /\ saved \subseteq saved' /\ blind \subseteq blind'
<1>3. ASSUME UNCHANGED <<requestVars, before, saved, blind>> PROVE Goal
  BY <1>3 DEF Frame, requestVars
<1>4. ASSUME NEW r \in Requests, NEW to \in Steps \ {"new"}, Goto(r, to), pc[r] # "over",
             UNCHANGED <<node, target, ref, prior, shape>>,
             pc[r] # "new" => before' = before,
             \A q \in Requests \ {r} : before'[q] = before[q],
             saved \subseteq saved', blind \subseteq blind'
      PROVE  Goal
  <2>1. pc' = [pc EXCEPT ![r] = to]
    BY <1>4 DEF Goto
  <2>2. \A q \in Requests : pc'[q] = IF q = r THEN to ELSE pc[q]
    BY <1>1, <2>1
  <2> QED BY <1>4, <2>2 DEF Frame, Steps
<1>5. ASSUME NEW r \in Requests, NEW n \in Nodes, GetTemporal(r, n) PROVE Goal
  BY <1>1, <1>2, <1>5 DEF GetTemporal, Goto, Frame, Chosen, pastVars
<1>6. ASSUME NEW r \in Requests, NEW t \in Targets, NEW k \in Shapes, LoadPolicy(r, t, k) PROVE Goal
  <2>1. pc[r] = "policy" /\ pc' = [pc EXCEPT ![r] = "save"]
    BY <1>6 DEF LoadPolicy, Goto
  <2>2. \A q \in Requests : pc'[q] = IF q = r THEN "save" ELSE pc[q]
    BY <1>1, <2>1
  <2>3. \A q \in Requests \ {r} : target'[q] = target[q] /\ prior'[q] = prior[q] /\ shape'[q] = shape[q]
    BY <1>2, <1>6 DEF LoadPolicy
  <2>4. UNCHANGED <<node, ref, before, saved>> /\ blind \subseteq blind'
    BY <1>6 DEF LoadPolicy
  <2> QED BY <2>1, <2>2, <2>3, <2>4 DEF Frame, Chosen
<1>7. ASSUME Exit PROVE Goal
  BY <1>1, <1>7 DEF Exit, InFlight, Frame
<1>8. ASSUME NEW r \in Requests, Analysis(r) PROVE Goal
  <2>1. CASE Arrive(r)
    BY <1>1, <1>4, <2>1 DEF Arrive, Steps
  <2>2. CASE Observe(r)
    BY <1>4, <2>2 DEF Observe, Steps, pastVars
  <2>3. CASE SetTemporal(r)
    BY <1>4, <2>3 DEF SetTemporal, Steps
  <2>4. CASE ReturnEarly(r)
    BY <1>4, <2>4 DEF ReturnEarly, Steps, pastVars
  <2>5. CASE BeginSave(r)
    BY <1>4, <2>5 DEF BeginSave, Steps, pastVars
  <2>6. CASE WriteTemporary(r)
    BY <1>4, <2>6 DEF WriteTemporary, Steps, pastVars
  <2>7. CASE RenameTemporary(r)
    BY <1>4, <2>7 DEF RenameTemporary, Steps
  <2> QED BY <1>5, <1>6, <1>8, <2>1, <2>2, <2>3, <2>4, <2>5, <2>6, <2>7 DEF Analysis
<1> QED
  BY <1>3, <1>7, <1>8 DEF Next, Start, Poll, Edit, Terminate, Drained, GraceOver, Crash, vars, requestVars, pastVars

\* A request is over when another one finds it over, and after its save; what
\* it has chosen it has chosen before.
Past ==
    /\ \A q \in Requests : \A r \in before[q] : pc[r] = "over"
    /\ \A r \in saved : pc[r] = "over" /\ target[r] \in Targets
    /\ \A r \in observed : pc[r] \in {"policy", "over"} \union Saving /\ node[r] \in Nodes /\ ref[r] \in Requests
    /\ \A r \in Requests : pc[r] \in {"new", "memory"} => ref[r] = NotYet

LEMMA PastInit == Init => Past
  BY DEF Init, Past

LEMMA PastFacts == ProcessTypes /\ Past /\ [Next]_vars => Past'
<1> SUFFICES ASSUME ProcessTypes, Past, [Next]_vars PROVE Past'
  OBVIOUS
<1>1. pc \in [Requests -> Steps] /\ ref \in [Requests -> Requests \union {NotYet}]
      /\ before \in [Requests -> SUBSET Requests] /\ saved \subseteq Requests /\ observed \subseteq Requests
  BY DEF ProcessTypes, RequestTypes, PastTypes
<1>2. Frame
  BY FrameStep
<1>3. /\ \A q \in Requests : before'[q] \subseteq {r \in Requests : pc[r] = "over"}
      /\ \A r \in Requests : pc'[r] \in {"new", "memory"} => ref'[r] = NotYet
  <2>1. ASSUME NEW q \in Requests, NEW r \in Requests, Arrive(r)
        PROVE  before'[q] \subseteq {p \in Requests : pc[p] = "over"}
    BY <1>1, <2>1 DEF Arrive, Past
  <2>2. ASSUME NEW q \in Requests, before' = before
        PROVE  before'[q] \subseteq {p \in Requests : pc[p] = "over"}
    BY <1>1, <2>2 DEF Past
  <2>3. ASSUME NEW q \in Requests PROVE before'[q] \subseteq {p \in Requests : pc[p] = "over"}
    BY <2>1, <2>2 DEF Next, Analysis, GetTemporal, Observe, SetTemporal, ReturnEarly, LoadPolicy, BeginSave, WriteTemporary,
        RenameTemporary, Start, Poll, Edit, Terminate, Drained, GraceOver, Crash, Exit, pastVars, vars
  <2>4. ASSUME NEW r \in Requests, pc'[r] \in {"new", "memory"} PROVE ref'[r] = NotYet
    <3>1. ASSUME ref' = ref, pc[r] \in {"new", "memory"} PROVE ref'[r] = NotYet
      BY <3>1 DEF Past
    <3>2. ASSUME NEW q \in Requests, NEW n \in Nodes, GetTemporal(q, n) PROVE ref'[r] = NotYet
      BY <1>1, <2>4, <3>2 DEF GetTemporal, Goto, Past
    <3>3. ASSUME NEW q \in Requests, NEW to \in Steps \ {"memory", "new"}, Goto(q, to) PROVE pc[r] \in {"new", "memory"}
      BY <1>1, <2>4, <3>3 DEF Goto
    <3>4. ASSUME NEW q \in Requests, Analysis(q) PROVE ref'[r] = NotYet
      <4>1. CASE Arrive(q)
        BY <1>1, <2>4, <3>1, <4>1 DEF Arrive, Goto
      <4>2. CASE Observe(q)
        BY <3>1, <3>3, <4>2 DEF Observe, Steps
      <4>3. CASE SetTemporal(q)
        BY <3>1, <3>3, <4>3 DEF SetTemporal, Steps
      <4>4. CASE ReturnEarly(q)
        BY <3>1, <3>3, <4>4 DEF ReturnEarly, Steps
      <4>5. ASSUME NEW t \in Targets, NEW k \in Shapes, LoadPolicy(q, t, k) PROVE ref'[r] = NotYet
        BY <3>1, <3>3, <4>5 DEF LoadPolicy, Steps
      <4>6. CASE BeginSave(q)
        BY <3>1, <3>3, <4>6 DEF BeginSave, Steps
      <4>7. CASE WriteTemporary(q)
        BY <3>1, <3>3, <4>7 DEF WriteTemporary, Steps
      <4>8. CASE RenameTemporary(q)
        BY <3>1, <3>3, <4>8 DEF RenameTemporary, Steps
      <4> QED BY <3>2, <3>4, <4>1, <4>2, <4>3, <4>4, <4>5, <4>6, <4>7, <4>8 DEF Analysis
    <3>5. ASSUME Exit PROVE ref'[r] = NotYet
      BY <1>1, <2>4, <3>1, <3>5 DEF Exit, InFlight
    <3> QED
      BY <2>4, <3>1, <3>4, <3>5 DEF Next, Start, Poll, Edit, Terminate, Drained, GraceOver, Crash, vars, requestVars
  <2> QED BY <2>3, <2>4
<1>4. ASSUME NEW r \in saved' PROVE pc'[r] = "over" /\ target'[r] \in Targets
  <2>1. CASE r \in saved
    BY <1>1, <1>2, <2>1 DEF Past, Frame, Chosen
  <2>2. ASSUME NEW q \in Requests, RenameTemporary(q) PROVE pc'[r] = "over" /\ target'[r] \in Targets
    BY <1>1, <2>1, <2>2 DEF RenameTemporary, Goto, ProcessTypes, RequestTypes, Saving
  <2>3. ASSUME saved' = saved PROVE pc'[r] = "over" /\ target'[r] \in Targets
    BY <1>4, <2>1, <2>3
  <2> QED
    BY <2>2, <2>3 DEF Next, Analysis, Arrive, GetTemporal, Observe, SetTemporal, ReturnEarly, LoadPolicy, BeginSave,
        WriteTemporary, Start, Poll, Edit, Terminate, Drained, GraceOver, Crash, Exit, pastVars, vars
<1>5. ASSUME NEW r \in observed'
      PROVE  pc'[r] \in {"policy", "over"} \union Saving /\ node'[r] \in Nodes /\ ref'[r] \in Requests
  <2> DEFINE Goal == pc'[r] \in {"policy", "over"} \union Saving /\ node'[r] \in Nodes /\ ref'[r] \in Requests
  <2>1. ASSUME r \in observed, pc'[r] \in {"policy", "over"} \union Saving PROVE Goal
    BY <1>1, <1>2, <2>1 DEF Past, Frame, Saving
  <2>2. ASSUME NEW q \in Requests, SetTemporal(q) PROVE Goal
    <3>1. observed' = observed \union {q} /\ pc' = [pc EXCEPT ![q] = "policy"] /\ node' = node /\ ref' = ref
      BY <2>2 DEF SetTemporal, Goto
    <3>2. node[q] \in Nodes /\ ref[q] \in Requests
      BY <2>2 DEF SetTemporal, ProcessTypes, RequestTypes
    <3> QED BY <1>1, <3>1, <3>2 DEF Past
  <2>3. ASSUME NEW q \in Requests, NEW to \in {"policy", "over"} \union Saving, Goto(q, to), observed' = observed PROVE Goal
    <3>1. r \in Requests /\ r \in observed
      BY <1>1, <2>3
    <3>2. pc'[r] \in {"policy", "over"} \union Saving
      BY <1>1, <2>3, <3>1 DEF Goto, Past
    <3> QED BY <2>1, <3>1, <3>2
  <2>4. ASSUME NEW q \in Requests, pc[q] \in {"new", "memory", "observe"}, NEW to \in Steps, Goto(q, to), observed' = observed PROVE Goal
    <3>1. r \in Requests /\ r \in observed /\ q # r
      BY <1>1, <2>4 DEF Past, Saving
    <3>2. pc'[r] \in {"policy", "over"} \union Saving
      BY <1>1, <2>4, <3>1 DEF Goto, Past
    <3> QED BY <2>1, <3>1, <3>2
  <2>5. ASSUME NEW q \in Requests, Analysis(q) PROVE Goal
    <3>1. CASE Arrive(q)
      BY <2>4, <3>1 DEF Arrive, Steps
    <3>2. ASSUME NEW n \in Nodes, GetTemporal(q, n) PROVE Goal
      BY <2>4, <3>2 DEF GetTemporal, Steps, pastVars
    <3>3. CASE Observe(q)
      BY <2>4, <3>3 DEF Observe, Steps, pastVars
    <3>4. CASE ReturnEarly(q)
      BY <2>3, <3>4 DEF ReturnEarly, pastVars
    <3>5. ASSUME NEW t \in Targets, NEW k \in Shapes, LoadPolicy(q, t, k) PROVE Goal
      BY <2>3, <3>5 DEF LoadPolicy, Saving
    <3>6. CASE BeginSave(q)
      BY <2>3, <3>6 DEF BeginSave, Saving, pastVars
    <3>7. CASE WriteTemporary(q)
      BY <2>3, <3>7 DEF WriteTemporary, Saving, pastVars
    <3>8. CASE RenameTemporary(q)
      BY <2>3, <3>8 DEF RenameTemporary
    <3> QED BY <2>2, <2>5, <3>1, <3>2, <3>3, <3>4, <3>5, <3>6, <3>7, <3>8 DEF Analysis
  <2>6. ASSUME pc' = pc, observed' = observed PROVE Goal
    BY <1>5, <2>1, <2>6 DEF Past
  <2>7. ASSUME Exit PROVE Goal
    BY <1>5, <2>7 DEF Exit
  <2> HIDE DEF Goal
  <2>8. Goal
    BY <2>5, <2>6, <2>7 DEF Next, Start, Poll, Edit, Terminate, Drained, GraceOver, Crash, vars, requestVars, pastVars
  <2> QED BY <2>8 DEF Goal
<1>6. \A q \in Requests : \A r \in before'[q] : pc'[r] = "over"
  BY <1>2, <1>3 DEF Frame
<1> QED BY <1>3, <1>4, <1>5, <1>6 DEF Past

-----------------------------------------------------------------------------
(***************************************************************************)
(* What the trained policies go on with.                                   *)
(***************************************************************************)

\* A later save of the file of r that need not go on with its training.
Covered(r) ==
    \E q \in saved \ {r} :
        /\ Path(target[q]) = Path(target[r])
        /\ Overlap(q, r) \/ shape[q] # shape[r] \/ q \in blind

\* The file of a saved policy is there, and has the shape of one that was
\* saved in it.
Writers ==
    \A r \in saved :
        /\ file[Path(target[r])] \in Weights
        /\ \E q \in saved : Path(target[q]) = Path(target[r]) /\ shape[q] = file[Path(target[r])].shape

\* An analysis that is about to save goes on with the training of every
\* earlier one in its file, unless that training is covered or could not be read.
Loaded ==
    \A q \in Requests : pc[q] \in Saving =>
        \A r \in saved \intersect before[q] :
            Path(target[r]) = Path(target[q]) /\ shape[r] = shape[q] =>
                r \in Trained(q).by \/ q \in blind \/ Covered(r)

Continuing == ProcessTypes /\ Past /\ Locked /\ Writers /\ Loaded /\ TrainingAccumulates

LEMMA InTheFile ==
    TrainingAccumulates <=> \A r \in saved : r \in file[Path(target[r])].by \/ Covered(r)
  BY DEF TrainingAccumulates, Covered

\* What has been saved stays as it is.
LEMMA SavedSame ==
    ASSUME ProcessTypes, Past, [Next]_vars, NEW r \in saved
    PROVE  r \in saved' /\ pc[r] = "over" /\ UNCHANGED <<target[r], shape[r], before[r]>>
<1>1. Frame /\ saved \subseteq saved'
  BY FrameStep
<1>2. r \in Requests /\ pc[r] = "over"
  BY DEF Past, ProcessTypes, PastTypes
<1> QED BY <1>1, <1>2 DEF Frame, Chosen

LEMMA CoveredKept ==
    ASSUME ProcessTypes, Past, [Next]_vars, NEW r \in saved, Covered(r)
    PROVE  Covered(r)'
<1>1. PICK q \in saved \ {r} : Path(target[q]) = Path(target[r]) /\ (Overlap(q, r) \/ shape[q] # shape[r] \/ q \in blind)
  BY DEF Covered
<1>2. /\ q \in saved' /\ UNCHANGED <<target[q], shape[q], before[q]>>
      /\ UNCHANGED <<target[r], shape[r], before[r]>>
  BY SavedSame
<1>3. blind \subseteq blind'
  BY FrameStep
<1>4. Path(target'[q]) = Path(target'[r])
  BY <1>1, <1>2
<1>5. Overlap(q, r) => Overlap(q, r)'
  BY <1>2 DEF Overlap
<1> QED BY <1>1, <1>2, <1>3, <1>4, <1>5 DEF Covered

\* Only a rename changes a file or adds to what is saved.
LEMMA SavesOnly ==
    ASSUME [Next]_vars,
           ~ \E q \in Requests : RenameTemporary(q) /\ SaveRenamed(target[q]) /\ saved' = saved \union {q}
    PROVE  file' = file /\ saved' = saved
<1>1. ASSUME NEW q \in Requests, RenameTemporary(q) PROVE file' = file /\ saved' = saved
  BY <1>1 DEF RenameTemporary, SaveNotRenamed
<1> QED
  BY <1>1 DEF Next, Analysis, Arrive, GetTemporal, Observe, SetTemporal, ReturnEarly, LoadPolicy, BeginSave,
        SaveBegins, WriteTemporary, SaveWritten, SaveFails, Start, Poll, Edit, Terminate, Drained, GraceOver, Crash,
        Exit, PolicyCrash, policyVars, pastVars, vars

\* A rename: what it does to the file of its policy and to the others.
LEMMA Renames ==
    ASSUME ProcessTypes, Locked, NEW q \in Requests, RenameTemporary(q), SaveRenamed(target[q])
    PROVE  /\ pc[q] = "rename" /\ Path(target[q]) \in Paths
           /\ file'[Path(target[q])] = Trained(q)
           /\ \A p \in Paths \ {Path(target[q])} : file'[p] = file[p]
           /\ Trained(q) \in Weights /\ Trained(q).shape = shape[q] /\ q \in Trained(q).by
           /\ UNCHANGED <<target, shape, before, blind>>
<1>1. pc[q] = "rename" /\ Path(target[q]) \in Paths /\ Trained(q) \in Weights
  BY TrainedType, PathType DEF RenameTemporary, ProcessTypes, RequestTypes, Saving
<1>2. tmp[Path(target[q])] = Trained(q)
  BY <1>1 DEF Locked
<1>3. file' = [file EXCEPT ![Path(target[q])] = Trained(q)]
  BY <1>2 DEF SaveRenamed
<1> QED BY <1>1, <1>3 DEF RenameTemporary, ProcessTypes, PolicyTypes, Trained

LEMMA WritersStep == Continuing /\ [Next]_vars => Writers'
<1> SUFFICES ASSUME ProcessTypes, Past, Locked, Writers, [Next]_vars, NEW r \in saved'
             PROVE  /\ file'[Path(target'[r])] \in Weights
                    /\ \E q \in saved' : Path(target'[q]) = Path(target'[r]) /\ shape'[q] = file'[Path(target'[r])].shape
  BY DEF Continuing, Writers
<1> DEFINE Goal ==
      /\ file'[Path(target'[r])] \in Weights
      /\ \E q \in saved' : Path(target'[q]) = Path(target'[r]) /\ shape'[q] = file'[Path(target'[r])].shape
<1>1. ASSUME r \in saved, file'[Path(target[r])] = file[Path(target[r])] PROVE Goal
  <2>1. PICK q \in saved : Path(target[q]) = Path(target[r]) /\ shape[q] = file[Path(target[r])].shape
    BY <1>1 DEF Writers
  <2>2. q \in saved' /\ UNCHANGED <<target[q], shape[q], target[r]>>
    BY <1>1, SavedSame
  <2>3. file[Path(target[r])] \in Weights
    BY <1>1 DEF Writers
  <2>4. file'[Path(target'[r])] = file[Path(target[r])] /\ Path(target'[q]) = Path(target'[r])
    BY <1>1, <2>1, <2>2
  <2> QED BY <2>1, <2>2, <2>3, <2>4
<1>2. ASSUME NEW q \in Requests, RenameTemporary(q), SaveRenamed(target[q]), saved' = saved \union {q} PROVE Goal
  <2>1. /\ Path(target[q]) \in Paths /\ file'[Path(target[q])] = Trained(q)
        /\ \A p \in Paths \ {Path(target[q])} : file'[p] = file[p]
        /\ Trained(q) \in Weights /\ Trained(q).shape = shape[q]
        /\ target' = target /\ shape' = shape
    BY <1>2, Renames
  <2>2. CASE Path(target[r]) = Path(target[q])
    BY <1>2, <2>1, <2>2
  <2>3. CASE Path(target[r]) # Path(target[q])
    <3>1. r \in saved /\ Path(target[r]) \in Paths
      BY <1>2, <2>3, PathType DEF Past
    <3> QED BY <1>1, <2>1, <2>3, <3>1
  <2> QED BY <2>2, <2>3
<1>3. ASSUME file' = file, saved' = saved PROVE Goal
  BY <1>1, <1>3
<1> QED BY <1>2, <1>3, SavesOnly

LEMMA AccumulatesStep == Continuing /\ [Next]_vars => TrainingAccumulates'
<1> SUFFICES ASSUME ProcessTypes, Past, Locked, Loaded, TrainingAccumulates, [Next]_vars, NEW r \in saved'
             PROVE  r \in file'[Path(target'[r])].by \/ Covered(r)'
  BY InTheFile DEF Continuing, TrainingAccumulates, Covered
<1> DEFINE Goal == r \in file'[Path(target'[r])].by \/ Covered(r)'
<1>1. ASSUME r \in saved, file'[Path(target[r])] = file[Path(target[r])] PROVE Goal
  <2>1. r \in file[Path(target[r])].by \/ Covered(r)
    BY <1>1, InTheFile
  <2> QED BY <1>1, <2>1, SavedSame, CoveredKept
<1>2. ASSUME NEW q \in Requests, RenameTemporary(q), SaveRenamed(target[q]), saved' = saved \union {q} PROVE Goal
  <2>1. /\ pc[q] = "rename" /\ Path(target[q]) \in Paths /\ file'[Path(target[q])] = Trained(q)
        /\ \A p \in Paths \ {Path(target[q])} : file'[p] = file[p]
        /\ q \in Trained(q).by
        /\ UNCHANGED <<target, shape, before, blind>>
    BY <1>2, Renames
  <2>2. CASE r = q
    BY <2>1, <2>2
  <2>3. CASE r # q /\ Path(target[r]) # Path(target[q])
    <3>1. r \in saved /\ Path(target[r]) \in Paths
      BY <1>2, <2>3, PathType DEF Past
    <3> QED BY <1>1, <2>1, <2>3, <3>1
  <2>4. CASE r # q /\ Path(target[r]) = Path(target[q])
    <3>1. r \in saved /\ r \in Requests
      BY <1>2, <2>4 DEF ProcessTypes, PastTypes
    <3>2. q \notin before[r]
      BY <2>1, <3>1 DEF Past
    <3>3. ASSUME Overlap(q, r) \/ shape[q] # shape[r] \/ q \in blind PROVE Covered(r)'
      <4>1. Overlap(q, r) => Overlap(q, r)'
        BY <2>1 DEF Overlap
      <4> QED BY <1>2, <2>1, <2>4, <3>3, <4>1 DEF Covered
    <3>4. CASE r \in before[q] /\ shape[q] = shape[r] /\ q \notin blind
      <4>1. r \in Trained(q).by \/ Covered(r)
        BY <2>1, <2>4, <3>1, <3>4 DEF Loaded, Saving
      <4>2. r \in Trained(q).by => Goal
        BY <2>1, <2>4
      <4> QED BY <3>1, <4>1, <4>2, CoveredKept
    <3> QED BY <3>2, <3>3, <3>4 DEF Overlap
  <2> QED BY <2>2, <2>3, <2>4
<1>3. ASSUME file' = file, saved' = saved PROVE Goal
  BY <1>1, <1>3
<1> QED BY <1>2, <1>3, SavesOnly

\* A load finds in the file what is saved there.
LEMMA LoadedNow ==
    ASSUME Continuing, NEW q \in Requests, NEW t \in Targets, NEW k \in Shapes, LoadPolicy(q, t, k),
           NEW r \in saved, Path(target[r]) = Path(t), shape[r] = k
    PROVE  r \in Trained(q)'.by \/ q \in blind' \/ Covered(r)
<1>1. CASE q \in blind'
  BY <1>1
<1>2. CASE q \notin blind'
  <2>1. PICK w : w = file[Path(target[r])]
    OBVIOUS
  <2>2. w \in Weights
    BY <2>1 DEF Continuing, Writers
  <2>3. Stored(t) = {w}
    BY <2>1, <2>2, ServerAssumption DEF Stored
  <2>4. prior' = [prior EXCEPT ![q] = {w}] /\ shape' = [shape EXCEPT ![q] = k]
    BY <1>2, <2>3 DEF LoadPolicy
  <2>5. prior'[q] = {w} /\ shape'[q] = k
    BY <2>4 DEF Continuing, ProcessTypes, RequestTypes
  <2>6. CASE w.shape = k
    <3>1. Usable(q)' = {w}
      BY <2>5, <2>6 DEF Usable
    <3>2. w.by \subseteq Trained(q)'.by
      BY <3>1 DEF Trained
    <3>3. r \in w.by \/ Covered(r)
      BY <2>1, InTheFile DEF Continuing
    <3> QED BY <3>2, <3>3
  <2>7. CASE w.shape # k
    <3>1. PICK p \in saved : Path(target[p]) = Path(target[r]) /\ shape[p] = w.shape
      BY <2>1 DEF Continuing, Writers
    <3>2. p # r /\ shape[p] # shape[r]
      BY <2>7, <3>1
    <3> QED BY <3>1, <3>2 DEF Covered
  <2> QED BY <2>6, <2>7
<1> QED BY <1>1, <1>2

LEMMA LoadedStep == Continuing /\ [Next]_vars => Loaded'
<1> SUFFICES ASSUME Continuing, [Next]_vars, NEW q \in Requests, pc'[q] \in Saving,
                    NEW r \in saved', r \in before'[q],
                    Path(target'[r]) = Path(target'[q]), shape'[r] = shape'[q]
             PROVE  r \in Trained(q)'.by \/ q \in blind' \/ Covered(r)'
  BY DEF Loaded
<1>1. ProcessTypes /\ Past /\ Loaded /\ pc \in [Requests -> Steps]
  BY DEF Continuing, ProcessTypes, RequestTypes
<1>2. Frame /\ blind \subseteq blind'
  BY <1>1, FrameStep
<1>3. CASE pc[q] \in Saving
  <2>1. before'[q] = before[q] /\ target'[q] = target[q] /\ shape'[q] = shape[q] /\ prior'[q] = prior[q]
    BY <1>2, <1>3 DEF Frame, Saving, Chosen
  <2>2. pc[r] = "over"
    BY <1>1, <2>1 DEF Past
  <2>3. r \in saved
    <3>1. ASSUME NEW p \in Requests, RenameTemporary(p), saved' = saved \union {p} PROVE r \in saved
      BY <2>2, <3>1 DEF RenameTemporary
    <3> QED BY <3>1, SavesOnly
  <2>4. target'[r] = target[r] /\ shape'[r] = shape[r]
    BY <1>1, <2>3, SavedSame
  <2>5. Path(target[r]) = Path(target[q])
    BY <2>1, <2>4
  <2>6. r \in Trained(q).by \/ q \in blind \/ Covered(r)
    BY <1>1, <1>3, <2>1, <2>3, <2>4, <2>5 DEF Loaded
  <2>7. Trained(q)' = Trained(q)
    BY <2>1, TrainedSame
  <2> QED BY <1>1, <1>2, <2>3, <2>6, <2>7, CoveredKept
<1>4. CASE pc[q] \notin Saving
  <2>1. ASSUME NEW p \in Requests, NEW to \in Steps \ Saving, Goto(p, to) PROVE FALSE
    BY <1>1, <1>4, <2>1 DEF Goto
  <2>2. ASSUME NEW p \in Requests, NEW t \in Targets, NEW k \in Shapes, LoadPolicy(p, t, k)
        PROVE  r \in Trained(q)'.by \/ q \in blind' \/ Covered(r)'
    <3>1. p = q
      BY <1>1, <1>4, <2>2 DEF LoadPolicy, Goto
    <3>2. target' = [target EXCEPT ![q] = t] /\ shape' = [shape EXCEPT ![q] = k] /\ saved' = saved
      BY <2>2, <3>1 DEF LoadPolicy
    <3>3. target'[q] = t /\ shape'[q] = k
      BY <3>2 DEF Continuing, ProcessTypes, RequestTypes
    <3>4. target'[r] = target[r] /\ shape'[r] = shape[r]
      BY <1>1, <3>2, SavedSame
    <3>5. Path(target[r]) = Path(t) /\ shape[r] = k
      BY <3>3, <3>4
    <3>6. r \in Trained(q)'.by \/ q \in blind' \/ Covered(r)
      BY <2>2, <3>1, <3>2, <3>5, LoadedNow
    <3> QED BY <1>1, <3>2, <3>6, CoveredKept
  <2>3. ASSUME NEW p \in Requests, pc[p] \in Saving, NEW to \in Steps, Goto(p, to) PROVE FALSE
    BY <1>1, <1>4, <2>3 DEF Goto
  <2>4. ASSUME NEW p \in Requests, Analysis(p)
        PROVE  r \in Trained(q)'.by \/ q \in blind' \/ Covered(r)'
    <3>1. ~Arrive(p)
      BY <2>1 DEF Arrive, Steps, Saving
    <3>2. ASSUME NEW n \in Nodes, GetTemporal(p, n) PROVE FALSE
      BY <2>1, <3>2 DEF GetTemporal, Steps, Saving
    <3>3. ~Observe(p)
      BY <2>1 DEF Observe, Steps, Saving
    <3>4. ~SetTemporal(p)
      BY <2>1 DEF SetTemporal, Steps, Saving
    <3>5. ~ReturnEarly(p)
      BY <2>1 DEF ReturnEarly, Steps, Saving
    <3>6. ~BeginSave(p)
      BY <2>3 DEF BeginSave, Steps, Saving
    <3>7. ~WriteTemporary(p)
      BY <2>3 DEF WriteTemporary, Steps, Saving
    <3>8. ~RenameTemporary(p)
      BY <2>3 DEF RenameTemporary, Steps, Saving
    <3> QED BY <2>2, <2>4, <3>1, <3>2, <3>3, <3>4, <3>5, <3>6, <3>7, <3>8 DEF Analysis
  <2>5. pc' # pc
    BY <1>4
  <2>6. ~Exit
    BY <1>1, <1>4 DEF Exit, Saving
  <2> QED
    BY <2>4, <2>5, <2>6 DEF Next, Start, Poll, Edit, Terminate, Drained, GraceOver, Crash, vars, requestVars
<1> QED BY <1>3, <1>4

LEMMA ContinuingInit == Init => Continuing
<1> SUFFICES ASSUME Init PROVE Continuing
  OBVIOUS
<1>1. saved = {} /\ \A q \in Requests : pc[q] = "new"
  BY DEF Init
<1>2. Writers /\ TrainingAccumulates /\ Loaded
  BY <1>1 DEF Writers, TrainingAccumulates, Loaded, Saving
<1> QED BY <1>2, ProcessInit, PastInit, AtomicInit DEF Continuing

LEMMA ContinuingStep == Continuing /\ [Next]_vars => Continuing'
  BY ProcessStep, PastFacts, LockedStep, WritersStep, LoadedStep, AccumulatesStep DEF Continuing

\* The training of an analysis is in the file of its target, however many
\* analyses and restarts follow, unless a save covers it that overlapped it,
\* was of another shape or could not read the file.
THEOREM TrainingIsKept == Spec => []TrainingAccumulates
<1>1. Continuing => TrainingAccumulates
  BY DEF Continuing
<1> QED BY <1>1, ContinuingInit, ContinuingStep, PTL DEF Spec

-----------------------------------------------------------------------------
(***************************************************************************)
(* What the memories hold.                                                 *)
(***************************************************************************)

\* A memory h holds the observation r and from there on nothing of old, or is
\* full without anything of old.
Holds(h, r, old) ==
    \/ \E i \in 1..Len(h) : h[i] = r /\ \A j \in i..Len(h) : h[j] \notin old
    \/ Len(h) = maxHistory /\ \A j \in 1..Len(h) : h[j] \notin old

\* The memory r appended to does so for all that was over when r arrived.
InMemory(r) == Holds(history[ref[r]], r, before[r])

Remembering == \A r \in Requests : r \in observed \/ pc[r] = "cache" => InMemory(r)

\* m is the memory r appended to, or one an analysis has that overlapped r.
Shared(r, m) == m = ref[r] \/ \E q \in Requests : ref[q] = m /\ Overlap(q, r)

\* The node of an observation is in the cache until it is pushed out, with
\* such a memory ...
Caching ==
    \A r \in observed : node[r] \notin evicted => Cached(node[r]) /\ Shared(r, memory[node[r]])

\* ... and later analyses of the node have such a memory.
Sharing ==
    \A q \in Requests : pc[q] \in {"observe", "cache"} =>
        \A r \in observed \intersect before[q] :
            node[r] = node[q] /\ node[q] \notin evicted => Shared(r, ref[q])

Keeping == ProcessTypes /\ Past /\ Remembering /\ Caching /\ Sharing

\* An observation is appended, and nothing of old comes in with it.
LEMMA ObservedHolds ==
    ASSUME MemoryTypes, NEW h \in Seq(Requests), Len(h) <= maxHistory, NEW q \in Requests, NEW old, q \notin old
    PROVE  /\ Holds(Observed(h, q), q, old)
           /\ \A r : Holds(h, r, old) => Holds(Observed(h, q), r, old)
<1>1. maxHistory \in Nat \ {0} /\ Len(h) \in Nat
  BY DEF MemoryTypes
<1>2. CASE Len(h) # maxHistory
  <2>1. PICK u : u = Append(h, q)
    OBVIOUS
  <2>2. /\ Len(u) = Len(h) + 1 /\ u[Len(h) + 1] = q
        /\ \A i \in 1..Len(h) : u[i] = h[i]
    BY <2>1
  <2>3. Observed(h, q) = u
    BY <1>2, <2>1 DEF Observed
  <2>4. Len(h) + 1 \in 1..Len(u) /\ \A j \in (Len(h) + 1)..Len(u) : j = Len(h) + 1
    BY <1>1, <2>2
  <2>5. Holds(u, q, old)
    BY <2>2, <2>4 DEF Holds
  <2>6. ASSUME NEW r, Holds(h, r, old) PROVE Holds(u, r, old)
    <3>1. PICK i \in 1..Len(h) : h[i] = r /\ \A j \in i..Len(h) : h[j] \notin old
      BY <1>2, <2>6 DEF Holds
    <3>2. i \in 1..Len(u) /\ u[i] = r
      BY <1>1, <2>2, <3>1
    <3>3. ASSUME NEW j \in i..Len(u) PROVE u[j] \notin old
      <4>1. CASE j <= Len(h)
        BY <1>1, <2>2, <3>1, <4>1
      <4>2. CASE j > Len(h)
        <5>1. j = Len(h) + 1
          BY <1>1, <2>2, <3>3, <4>2
        <5> QED BY <2>2, <5>1
      <4> QED BY <1>1, <4>1, <4>2
    <3> QED BY <3>2, <3>3 DEF Holds
  <2> QED BY <2>3, <2>5, <2>6
<1>3. CASE Len(h) = maxHistory
  <2>1. h # << >>
    BY <1>1, <1>3
  <2>2. PICK t : t = Tail(h)
    OBVIOUS
  <2>3. t \in Seq(Requests) /\ Len(t) = Len(h) - 1 /\ \A i \in 1..(Len(h) - 1) : t[i] = h[i + 1]
    BY <1>1, <2>1, <2>2, HeadTailProperties
  <2>4. PICK u : u = Append(t, q)
    OBVIOUS
  <2>5. /\ Len(u) = Len(h) /\ u[Len(h)] = q
        /\ \A i \in 1..(Len(h) - 1) : u[i] = h[i + 1]
    <3>1. /\ Len(u) = Len(t) + 1 /\ u[Len(t) + 1] = q
          /\ \A i \in 1..Len(t) : u[i] = t[i]
      BY <2>3, <2>4
    <3> QED BY <1>1, <2>3, <3>1
  <2>6. Observed(h, q) = u
    BY <1>3, <2>2, <2>4 DEF Observed
  <2>7. Len(h) \in 1..Len(u) /\ \A j \in Len(h)..Len(u) : j = Len(h)
    BY <1>1, <1>3, <2>5
  <2>8. Holds(u, q, old)
    BY <2>5, <2>7 DEF Holds
  <2>9. ASSUME NEW n \in 1..Len(h), \A j \in (n + 1)..Len(h) : h[j] \notin old
        PROVE  \A j \in n..Len(u) : u[j] \notin old
    <3> SUFFICES ASSUME NEW j \in n..Len(u) PROVE u[j] \notin old
      OBVIOUS
    <3>1. CASE j = Len(h)
      BY <2>5, <3>1
    <3>2. CASE j # Len(h)
      <4>1. j \in 1..(Len(h) - 1) /\ j + 1 \in (n + 1)..Len(h)
        BY <1>1, <2>5, <3>2
      <4> QED BY <2>5, <2>9, <4>1
    <3> QED BY <3>1, <3>2
  <2>10. ASSUME NEW r, Holds(h, r, old) PROVE Holds(u, r, old)
    <3>1. CASE \A j \in 1..Len(h) : h[j] \notin old
      <4>1. 1 \in 1..Len(h) /\ \A j \in (1 + 1)..Len(h) : h[j] \notin old
        BY <1>1, <1>3, <3>1
      <4>2. \A j \in 1..Len(u) : u[j] \notin old
        BY <2>9, <4>1
      <4> QED BY <1>3, <2>5, <4>2 DEF Holds
    <3>2. CASE \E i \in 1..Len(h) : h[i] = r /\ \A j \in i..Len(h) : h[j] \notin old
      <4>1. PICK i \in 1..Len(h) : h[i] = r /\ \A j \in i..Len(h) : h[j] \notin old
        BY <3>2
      <4>2. CASE i = 1
        BY <3>1, <4>1, <4>2
      <4>3. CASE i # 1
        <5>1. PICK n \in 1..Len(h) : i = n + 1
          <6>1. i - 1 \in 1..Len(h) /\ i = (i - 1) + 1
            BY <1>1, <4>3
          <6> QED BY <6>1
        <5>2. n \in 1..(Len(h) - 1) /\ n \in 1..Len(u)
          BY <1>1, <2>5, <5>1
        <5>3. u[n] = r
          BY <2>5, <4>1, <5>1, <5>2
        <5>4. \A j \in n..Len(u) : u[j] \notin old
          BY <2>9, <4>1, <5>1
        <5> QED BY <5>2, <5>3, <5>4 DEF Holds
      <4> QED BY <4>2, <4>3
    <3> QED BY <2>10, <3>1, <3>2 DEF Holds
  <2> QED BY <2>6, <2>8, <2>10
<1> QED BY <1>2, <1>3

\* Steps that are neither the end of the process nor about the cache.
LEMMA CacheSame ==
    ASSUME ProcessTypes, [Next]_vars, ~Exit, ~ \E q \in Requests : SetTemporal(q)
    PROVE  UNCHANGED <<observed, evicted, memory>> /\ ToSet(recent') = ToSet(recent)
<1>1. ASSUME NEW q \in Requests, NEW n \in Nodes, GetTemporal(q, n)
      PROVE  UNCHANGED <<observed, evicted, memory>> /\ ToSet(recent') = ToSet(recent)
  <2>1. ToSet(Used(n)) = ToSet(recent) \union {n}
    BY UsedFacts DEF ProcessTypes
  <2> QED BY <1>1, <2>1 DEF GetTemporal, GetMemory, Cached, pastVars
<1> QED
  BY <1>1 DEF Next, Analysis, Arrive, Observe, UpdateMemory, ReturnEarly, LoadPolicy, BeginSave, WriteTemporary,
        RenameTemporary, Start, Poll, Edit, Terminate, Drained, GraceOver, Crash, memoryVars, pastVars, vars

LEMMA HistorySame ==
    ASSUME [Next]_vars, ~Exit
    PROVE  /\ maxHistory' = maxHistory
           /\ ~(\E q \in Requests : Observe(q)) => history' = history
  BY DEF Next, Analysis, Arrive, GetTemporal, GetMemory, Observe, UpdateMemory, SetTemporal, SetMemory, ReturnEarly,
        LoadPolicy, BeginSave, WriteTemporary, RenameTemporary, Start, Poll, Edit, Terminate, Drained, GraceOver, Crash,
        memoryVars, vars

\* Only an observation goes to the cache, only what gets a memory observes.
LEMMA CameFrom ==
    ASSUME ProcessTypes, [Next]_vars, NEW r \in Requests
    PROVE  /\ pc'[r] = "cache" => pc[r] = "cache" \/ Observe(r)
           /\ pc'[r] = "observe" => pc[r] = "observe" \/ \E n \in Nodes : GetTemporal(r, n)
<1>1. pc \in [Requests -> Steps]
  BY DEF ProcessTypes, RequestTypes
<1> DEFINE Goal ==
      /\ pc'[r] = "cache" => pc[r] = "cache" \/ Observe(r)
      /\ pc'[r] = "observe" => pc[r] = "observe" \/ \E n \in Nodes : GetTemporal(r, n)
<1>2. ASSUME NEW q \in Requests, NEW to \in Steps \ {"observe", "cache"}, Goto(q, to) PROVE Goal
  BY <1>1, <1>2 DEF Goto
<1>3. ASSUME pc' = pc PROVE Goal
  BY <1>3
<1>4. ASSUME Exit PROVE Goal
  BY <1>1, <1>4 DEF Exit
<1>5. ASSUME NEW q \in Requests, Analysis(q) PROVE Goal
  <2>1. CASE Arrive(q)
    BY <1>2, <2>1 DEF Arrive, Steps
  <2>2. ASSUME NEW n \in Nodes, GetTemporal(q, n) PROVE Goal
    <3>1. pc'[r] = IF r = q THEN "observe" ELSE pc[r]
      BY <1>1, <2>2 DEF GetTemporal, Goto
    <3> QED BY <2>2, <3>1
  <2>3. CASE Observe(q)
    <3>1. pc'[r] = IF r = q THEN "cache" ELSE pc[r]
      BY <1>1, <2>3 DEF Observe, Goto
    <3> QED BY <2>3, <3>1
  <2>4. CASE SetTemporal(q)
    BY <1>2, <2>4 DEF SetTemporal, Steps
  <2>5. CASE ReturnEarly(q)
    BY <1>2, <2>5 DEF ReturnEarly, Steps
  <2>6. ASSUME NEW t \in Targets, NEW k \in Shapes, LoadPolicy(q, t, k) PROVE Goal
    BY <1>2, <2>6 DEF LoadPolicy, Steps
  <2>7. CASE BeginSave(q)
    BY <1>2, <2>7 DEF BeginSave, Steps
  <2>8. CASE WriteTemporary(q)
    BY <1>2, <2>8 DEF WriteTemporary, Steps
  <2>9. CASE RenameTemporary(q)
    BY <1>2, <2>9 DEF RenameTemporary, Steps
  <2> QED BY <1>5, <2>1, <2>2, <2>3, <2>4, <2>5, <2>6, <2>7, <2>8, <2>9 DEF Analysis
<1> QED
  BY <1>3, <1>4, <1>5 DEF Next, Start, Poll, Edit, Terminate, Drained, GraceOver, Crash, vars, requestVars

LEMMA RememberingStep == Keeping /\ [Next]_vars => Remembering'
<1> SUFFICES ASSUME Keeping, [Next]_vars, NEW r \in Requests, r \in observed' \/ pc'[r] = "cache"
             PROVE  InMemory(r)'
  BY DEF Remembering
<1>1. /\ ProcessTypes /\ MemoryTypes /\ RequestTypes /\ Past /\ Remembering
      /\ pc \in [Requests -> Steps] /\ before \in [Requests -> SUBSET Requests] /\ observed \subseteq Requests
  BY DEF Keeping, ProcessTypes, RequestTypes, PastTypes
<1>2. Frame
  BY <1>1, FrameStep
<1>3. ~Exit
  BY <1>1 DEF Exit, InFlight
<1>4. maxHistory' = maxHistory
  BY <1>3, HistorySame
<1>5. r \in observed \/ pc[r] = "cache" \/ Observe(r)
  <2>1. ASSUME NEW q \in Requests, SetTemporal(q) PROVE r \in observed \/ pc[r] = "cache" \/ pc'[r] = "cache"
    BY <2>1 DEF SetTemporal
  <2>2. CASE ~ \E q \in Requests : SetTemporal(q)
    <3>1. observed' = observed
      BY <1>1, <1>3, <2>2, CacheSame
    <3> QED BY <1>1, <3>1, CameFrom
  <2> QED BY <1>1, <2>1, <2>2, CameFrom
<1>6. pc[r] \notin {"new", "memory"}
  BY <1>1, <1>5 DEF Past, Observe, Saving
<1>7. ref'[r] = ref[r] /\ before'[r] = before[r]
  BY <1>2, <1>6 DEF Frame
<1>8. ASSUME history'[ref[r]] = history[ref[r]], r \in observed \/ pc[r] = "cache" PROVE InMemory(r)'
  <2>1. Holds(history[ref[r]], r, before[r])
    BY <1>1, <1>8 DEF Remembering, InMemory
  <2> QED BY <1>4, <1>7, <1>8, <2>1 DEF InMemory, Holds
<1>9. ASSUME NEW q \in Requests, Observe(q) PROVE InMemory(r)'
  <2>1. /\ pc[q] = "observe" /\ ref[q] \in Requests
        /\ history \in [Requests -> Seq(Requests)]
        /\ history[ref[q]] \in Seq(Requests) /\ Len(history[ref[q]]) <= maxHistory
    BY <1>1, <1>9 DEF Observe, RequestTypes, MemoryTypes
  <2>2. q \notin before[r]
    BY <1>1, <2>1 DEF Past
  <2>3. /\ Holds(Observed(history[ref[q]], q), q, before[r])
        /\ Holds(history[ref[q]], r, before[r]) => Holds(Observed(history[ref[q]], q), r, before[r])
    BY <1>1, <2>1, <2>2, ObservedHolds
  <2>4. history' = [history EXCEPT ![ref[q]] = Observed(history[ref[q]], q)]
    BY <1>9 DEF Observe, UpdateMemory
  <2>5. r = q \/ r \in observed \/ pc[r] = "cache"
    <3>1. r = q \/ pc'[r] = pc[r]
      BY <1>1, <1>9 DEF Observe, Goto
    <3>2. observed' = observed
      BY <1>9 DEF Observe, pastVars
    <3> QED BY <3>1, <3>2
  <2>6. CASE ref[r] # ref[q]
    <3>1. history'[ref[r]] = history[ref[r]] /\ r # q
      BY <2>1, <2>4, <2>6
    <3> QED BY <1>8, <2>5, <3>1
  <2>7. CASE ref[r] = ref[q]
    <3>1. history'[ref[r]] = Observed(history[ref[q]], q)
      BY <2>1, <2>4, <2>7
    <3>2. r = q \/ Holds(history[ref[q]], r, before[r])
      BY <1>1, <2>5, <2>7 DEF Remembering, InMemory
    <3>3. Holds(history'[ref[r]], r, before[r])
      BY <2>3, <3>1, <3>2
    <3> QED BY <1>4, <1>7, <3>3 DEF InMemory, Holds
  <2> QED BY <2>6, <2>7
<1>10. ASSUME ~ \E q \in Requests : Observe(q) PROVE InMemory(r)'
  <2>1. history' = history
    BY <1>3, <1>10, HistorySame
  <2> QED BY <1>5, <1>8, <1>10, <2>1
<1> QED BY <1>9, <1>10

\* A memory that is shared goes on being so: who has it has it for good.
LEMMA SharedKept ==
    ASSUME ProcessTypes, Past, [Next]_vars, NEW r \in observed, NEW m \in Requests, Shared(r, m)
    PROVE  Shared(r, m)'
<1>1. Frame
  BY FrameStep
<1>2. r \in Requests /\ pc[r] \notin {"new", "memory"}
  BY DEF ProcessTypes, PastTypes, Past, Saving
<1>3. UNCHANGED <<ref[r], before[r]>>
  BY <1>1, <1>2 DEF Frame
<1>4. ASSUME NEW q \in Requests, ref[q] = m, Overlap(q, r) PROVE Shared(r, m)'
  <2>1. pc[q] \notin {"new", "memory"}
    BY <1>4, ServerAssumption DEF Past
  <2>2. UNCHANGED <<ref[q], before[q]>>
    BY <1>1, <2>1 DEF Frame
  <2>3. ref'[q] = m /\ Overlap(q, r)'
    BY <1>3, <1>4, <2>2 DEF Overlap
  <2> QED BY <2>3 DEF Shared
<1>5. ASSUME m = ref[r] PROVE Shared(r, m)'
  BY <1>3, <1>5 DEF Shared
<1> QED BY <1>4, <1>5 DEF Shared

LEMMA CachingStep == Keeping /\ [Next]_vars => Caching'
<1> SUFFICES ASSUME Keeping, [Next]_vars, NEW r \in observed', node'[r] \notin evicted'
             PROVE  Cached(node[r])' /\ Shared(r, memory[node[r]])'
  BY DEF Caching
<1>1. /\ ProcessTypes /\ MemoryTypes /\ RequestTypes /\ Past /\ Caching /\ Sharing
      /\ pc \in [Requests -> Steps] /\ observed \subseteq Requests
  BY DEF Keeping, ProcessTypes, RequestTypes, PastTypes
<1>2. Frame
  BY <1>1, FrameStep
<1>3. ~Exit
  BY DEF Exit
<1>4. ASSUME r \in observed
      PROVE  /\ r \in Requests /\ UNCHANGED <<node[r], ref[r], before[r]>> /\ node[r] \in Nodes
             /\ node[r] \notin evicted => Cached(node[r]) /\ Shared(r, memory[node[r]]) /\ memory[node[r]] \in Requests
  <2>1. r \in Requests /\ pc[r] \notin {"new", "memory"} /\ node[r] \in Nodes
    BY <1>1, <1>4 DEF Past, Saving
  <2>2. UNCHANGED <<node[r], ref[r], before[r]>>
    BY <1>2, <2>1 DEF Frame
  <2>3. node[r] \notin evicted => Cached(node[r]) /\ Shared(r, memory[node[r]]) /\ memory[node[r]] \in Requests
    BY <1>1, <1>4 DEF Caching, Cached, MemoryTypes
  <2> QED BY <2>1, <2>2, <2>3
<1>5. ASSUME NEW q \in Requests, SetTemporal(q) PROVE Cached(node[r])' /\ Shared(r, memory[node[r]])'
  <2>1. /\ pc[q] = "cache" /\ node[q] \in Nodes /\ ref[q] \in Requests /\ SetMemory(node[q], ref[q])
        /\ evicted' = evicted \union PushedOut(node[q]) /\ observed' = observed \union {q}
        /\ UNCHANGED <<node, ref, before>>
    BY <1>1, <1>5 DEF SetTemporal, RequestTypes
  <2>2. /\ ToSet(recent') = (ToSet(recent) \union {node[q]}) \ PushedOut(node[q])
        /\ node[q] \notin PushedOut(node[q])
    BY <1>1, <2>1, SetFacts
  <2>3. memory' = [memory EXCEPT ![node[q]] = ref[q]] /\ memory \in [Nodes -> Requests \union {NotYet}]
    BY <1>1, <2>1 DEF SetMemory, MemoryTypes
  <2>4. CASE r = q
    <3>1. Cached(node[r])'
      BY <2>1, <2>2, <2>4 DEF Cached
    <3>2. memory'[node'[r]] = ref'[r]
      BY <2>1, <2>3, <2>4
    <3> QED BY <3>1, <3>2 DEF Shared
  <2>5. CASE r # q
    <3>1. r \in observed /\ node[r] \notin evicted /\ node[r] \notin PushedOut(node[q])
      BY <2>1, <2>5
    <3>2. Cached(node[r])'
      BY <1>4, <2>1, <2>2, <3>1 DEF Cached
    <3>3. CASE node[r] # node[q]
      <4>1. memory'[node'[r]] = memory[node[r]]
        BY <1>4, <2>1, <2>3, <3>1, <3>3
      <4> QED BY <1>1, <1>4, <3>1, <3>2, <4>1, SharedKept
    <3>4. CASE node[r] = node[q]
      <4>1. memory'[node'[r]] = ref[q]
        BY <2>1, <2>3, <3>4
      <4>2. q \notin before[r]
        BY <1>1, <1>4, <2>1, <3>1 DEF Past
      <4>3. Shared(r, ref[q])
        BY <1>1, <2>1, <3>1, <3>4, <4>2 DEF Sharing, Shared, Overlap
      <4> QED BY <1>1, <2>1, <3>1, <3>2, <4>1, <4>3, SharedKept
    <3> QED BY <3>3, <3>4
  <2> QED BY <2>4, <2>5
<1>6. ASSUME ~ \E q \in Requests : SetTemporal(q) PROVE Cached(node[r])' /\ Shared(r, memory[node[r]])'
  <2>1. UNCHANGED <<observed, evicted, memory>> /\ ToSet(recent') = ToSet(recent)
    BY <1>1, <1>3, <1>6, CacheSame
  <2>2. r \in observed /\ node[r] \notin evicted /\ node'[r] = node[r]
    BY <1>4, <2>1
  <2>3. Cached(node[r])' /\ memory'[node'[r]] = memory[node[r]]
    BY <1>4, <2>1, <2>2 DEF Cached
  <2> QED BY <1>1, <1>4, <2>2, <2>3, SharedKept
<1> QED BY <1>5, <1>6

LEMMA SharingStep == Keeping /\ [Next]_vars => Sharing'
<1> SUFFICES ASSUME Keeping, [Next]_vars, NEW q \in Requests, pc'[q] \in {"observe", "cache"},
                    NEW r \in observed', r \in before'[q], node'[r] = node'[q], node'[q] \notin evicted'
             PROVE  Shared(r, ref[q])'
  BY DEF Sharing
<1>1. /\ ProcessTypes /\ MemoryTypes /\ RequestTypes /\ Past /\ Caching /\ Sharing
      /\ pc \in [Requests -> Steps] /\ observed \subseteq Requests
  BY DEF Keeping, ProcessTypes, RequestTypes, PastTypes
<1>2. Frame
  BY <1>1, FrameStep
<1>3. ~Exit
  BY DEF Exit
<1>4. pc[q] \in {"memory", "observe", "cache"}
  <2>1. ASSUME NEW n \in Nodes, GetTemporal(q, n) PROVE pc[q] = "memory"
    BY <2>1 DEF GetTemporal
  <2>2. Observe(q) => pc[q] = "observe"
    BY DEF Observe
  <2> QED BY <1>1, <2>1, <2>2, CameFrom
<1>5. before'[q] = before[q]
  BY <1>2, <1>4 DEF Frame
<1>6. pc[r] = "over"
  BY <1>1, <1>5 DEF Past
<1>7. r \in observed /\ evicted \subseteq evicted'
  <2>1. ASSUME NEW p \in Requests, SetTemporal(p) PROVE r \in observed /\ evicted \subseteq evicted'
    <3>1. pc[p] = "cache" /\ observed' = observed \union {p} /\ evicted \subseteq evicted'
      BY <2>1 DEF SetTemporal
    <3> QED BY <1>6, <3>1
  <2> QED BY <1>1, <1>3, <2>1, CacheSame
<1>8. r \in Requests /\ node[r] \in Nodes /\ node'[r] = node[r]
  BY <1>1, <1>2, <1>6, <1>7 DEF Past, Frame
<1>9. CASE pc[q] \in {"observe", "cache"}
  <2>1. UNCHANGED <<node[q], ref[q]>> /\ ref[q] \in Requests
    BY <1>1, <1>2, <1>9 DEF Frame, RequestTypes
  <2>2. Shared(r, ref[q])
    BY <1>1, <1>5, <1>7, <1>8, <1>9, <2>1 DEF Sharing
  <2>3. Shared(r, ref[q])' <=> \E m \in Requests : m = ref'[q] /\ Shared(r, m)'
    BY <2>1 DEF Shared
  <2> QED BY <1>1, <1>7, <2>1, <2>2, <2>3, SharedKept
<1>10. CASE pc[q] = "memory"
  <2>1. PICK n \in Nodes : GetTemporal(q, n)
    <3>1. ~Observe(q)
      BY <1>10 DEF Observe
    <3> QED BY <1>1, <1>10, <3>1, CameFrom
  <2>2. node' = [node EXCEPT ![q] = n] /\ ref' = [ref EXCEPT ![q] = Remembered(n, q)]
    BY <2>1 DEF GetTemporal
  <2>3. node'[q] = n /\ ref'[q] = Remembered(n, q)
    BY <1>1, <2>2 DEF RequestTypes
  <2>4. node[r] = n /\ n \notin evicted
    BY <1>7, <1>8, <2>3
  <2>5. Cached(n) /\ Shared(r, memory[n]) /\ memory[n] \in Requests
    BY <1>1, <1>7, <2>4 DEF Caching, Cached, MemoryTypes
  <2>6. ref'[q] = memory[n]
    BY <2>3, <2>5 DEF Remembered
  <2>7. PICK m \in Requests : m = memory[n]
    BY <2>5
  <2>8. Shared(r, m)'
    BY <1>1, <1>7, <2>5, <2>7, SharedKept
  <2> QED BY <2>6, <2>7, <2>8 DEF Shared
<1> QED BY <1>4, <1>9, <1>10

LEMMA KeepingInit == Init => Keeping
<1> SUFFICES ASSUME Init PROVE Keeping
  OBVIOUS
<1>1. observed = {} /\ \A q \in Requests : pc[q] = "new"
  BY DEF Init
<1>2. Remembering /\ Caching /\ Sharing
  BY <1>1 DEF Remembering, Caching, Sharing
<1> QED BY <1>2, ProcessInit, PastInit DEF Keeping

LEMMA KeepingStep == Keeping /\ [Next]_vars => Keeping'
  BY ProcessStep, PastFacts, RememberingStep, CachingStep, SharingStep DEF Keeping

\* Whatever analyses overlap and whatever the cache pushes out, the
\* observation of an analysis is in the memory cached for its node, or that
\* memory is full of newer ones, or an analysis that overlapped it put another
\* memory there.
THEOREM ObservationsRemain == Spec => []ObservationsAreKept
<1>1. Keeping => ObservationsAreKept
  <2> SUFFICES ASSUME Keeping, NEW n \in Nodes \ evicted, NEW r \in ObservedAt(n)
               PROVE  /\ Cached(n)
                      /\ \/ r \in ToSet(history[memory[n]])
                         \/ Len(history[memory[n]]) = maxHistory /\ ToSet(history[memory[n]]) \intersect before[r] = {}
                         \/ ref[r] # memory[n] /\ \E q \in Requests : ref[q] = memory[n] /\ Overlap(q, r)
    BY DEF ObservationsAreKept
  <2>1. r \in observed /\ r \in Requests /\ node[r] = n
    BY DEF ObservedAt, Keeping, ProcessTypes, PastTypes
  <2>2. Cached(n) /\ Shared(r, memory[n])
    BY <2>1 DEF Keeping, Caching
  <2>3. CASE memory[n] = ref[r]
    <3>1. Holds(history[memory[n]], r, before[r])
      BY <2>1, <2>3 DEF Keeping, Remembering, InMemory
    <3>2. PICK h \in Seq(Requests) : h = history[memory[n]]
      BY <2>1, <2>3 DEF Keeping, ProcessTypes, MemoryTypes, Past
    <3>3. DOMAIN h = 1..Len(h)
      BY <3>2
    <3>4. \/ r \in ToSet(h)
          \/ Len(h) = maxHistory /\ ToSet(h) \intersect before[r] = {}
      BY <3>1, <3>2, <3>3 DEF Holds, ToSet
    <3> QED BY <2>2, <3>2, <3>4
  <2>4. CASE memory[n] # ref[r]
    BY <2>2, <2>4 DEF Shared
  <2> QED BY <2>3, <2>4
<1> QED BY <1>1, KeepingInit, KeepingStep, PTL DEF Spec

-----------------------------------------------------------------------------
(***************************************************************************)
(* Phase 1 of an analysis.  First what one processor does with one input.  *)
(***************************************************************************)

LEMMA MinOf ==
    ASSUME NEW S \in SUBSET Nat, S # {}
    PROVE  Min(S) \in S /\ \A x \in S : Min(S) <= x
<1>1. PICK x \in S : \A y \in S : ~ (<<y, x>> \in OpToRel(<, Nat))
  BY NatLessThanWellFounded, WFMin
<1>2. \A y \in S : <<y, x>> \in OpToRel(<, Nat) <=> y < x
  BY DEF OpToRel
<1>3. \A y \in S : ~ (y < x)
  BY <1>1, <1>2, Zenon
<1>4. \A y \in S : x <= y
  BY <1>3
<1> QED BY <1>4 DEF Min

LEMMA MaxOf ==
    ASSUME NEW S \in SUBSET Nat, S # {}, NEW n \in Nat, \A x \in S : x <= n
    PROVE  Max(S) \in S /\ \A x \in S : x <= Max(S)
<1> DEFINE T == {n - x : x \in S}
<1>1. T \in SUBSET Nat /\ T # {}
  <2>1. \A x \in S : x \in Nat /\ x <= n
    OBVIOUS
  <2>2. \A x \in S : n - x \in Nat
    BY <2>1
  <2> QED BY <2>2
<1>2. PICK m \in T : \A y \in T : m <= y
  <2> HIDE DEF T
  <2> QED BY <1>1, MinOf
<1>3. PICK x \in S : m = n - x
  BY <1>2
<1>4. \A y \in S : n - y \in T
  OBVIOUS
<1>5. ASSUME NEW y \in S PROVE x >= y
  <2>1. x \in Nat /\ y \in Nat /\ x <= n /\ y <= n
    OBVIOUS
  <2>2. m <= n - y
    BY <1>2, <1>4
  <2> QED BY <1>3, <2>1, <2>2
<1> QED BY <1>5 DEF Max

\* The newest elements of a sequence are its end.
LEMMA NewestFacts ==
    ASSUME NEW S, NEW s \in Seq(S), NEW k \in Nat \ {0}
    PROVE  /\ Newest(s, k) \in Seq(S) /\ Len(Newest(s, k)) <= k /\ Len(Newest(s, k)) <= Len(s)
           /\ s # << >> => Newest(s, k) # << >>
           /\ \A i \in 1..Len(Newest(s, k)) : Newest(s, k)[i] = s[Len(s) - Len(Newest(s, k)) + i]
<1>1. Len(s) \in Nat /\ \A i \in 1..Len(s) : s[i] \in S
  OBVIOUS
<1>2. CASE Len(s) > k
  <2>1. PICK n \in Nat : n = Len(s) - k
    BY <1>1, <1>2
  <2>2. Newest(s, k) = SubSeq(s, n + 1, Len(s))
    BY <1>1, <1>2, <2>1 DEF Newest
  <2>3. \A i \in (n + 1)..Len(s) : s[i] \in S
    BY <1>1, <2>1
  <2>4. /\ SubSeq(s, n + 1, Len(s)) \in Seq(S)
        /\ Len(SubSeq(s, n + 1, Len(s))) = IF n + 1 <= Len(s) THEN Len(s) - (n + 1) + 1 ELSE 0
        /\ \A i \in 1..(Len(s) - (n + 1) + 1) : SubSeq(s, n + 1, Len(s))[i] = s[(n + 1) + i - 1]
    BY <1>1, <2>3, SubSeqProperties
  <2>5. PICK u \in Seq(S) : u = SubSeq(s, n + 1, Len(s))
    BY <2>4
  <2>6. Len(u) = k
    BY <1>1, <1>2, <2>1, <2>4, <2>5
  <2>7. Len(s) - (n + 1) + 1 = k /\ \A i \in 1..k : (n + 1) + i - 1 = Len(s) - k + i
    BY <1>1, <2>1
  <2>8. \A i \in 1..k : u[i] = s[Len(s) - k + i]
    BY <2>4, <2>5, <2>7
  <2>9. Newest(s, k) = u
    BY <2>2, <2>5
  <2>10. u # << >> /\ Len(u) <= k /\ Len(u) <= Len(s) /\ \A i \in 1..Len(u) : u[i] = s[Len(s) - Len(u) + i]
    BY <1>1, <1>2, <2>6, <2>8
  <2> QED BY <2>5, <2>9, <2>10, Zenon
<1>3. CASE ~(Len(s) > k)
  <2>1. Newest(s, k) = s
    BY <1>3 DEF Newest
  <2>2. \A i \in 1..Len(s) : Len(s) - Len(s) + i = i
    BY <1>1
  <2> QED BY <1>1, <1>3, <2>1, <2>2
<1> QED BY <1>2, <1>3

\* What the flush sends, and a processor's record.
Stamped == [tick : Ticks, sample : 1..MaxSamples]
Processors == [lastTick : 0..MaxTick, lastTime : 0..MaxTick, window : Seq(Points), gaps : Seq(Nat)]

\* The window is a gapless run of ticks up to the last real point.
Contiguous(p, size) ==
    /\ Len(p.window) <= size
    /\ \A i \in 2..Len(p.window) : p.window[i].tick = p.window[i - 1].tick + 1
    /\ p.window = << >> <=> p.lastTick = 0
    /\ p.window # << >> => Last(p.window).tick = p.lastTick /\ Last(p.window).sample # 0

\* The points an input adds follow the last one.
LEMMA NewPointsFacts ==
    ASSUME NEW p \in Processors, NEW in \in Stamped, in.tick > p.lastTick
    PROVE  LET pts == NewPoints(p, in)
           IN  /\ pts \in Seq(Points) /\ Len(pts) \in Nat \ {0} /\ pts[Len(pts)] = in
               /\ \A i \in 2..Len(pts) : pts[i].tick = pts[i - 1].tick + 1
               /\ p.lastTick # 0 => pts[1].tick = p.lastTick + 1
<1>1. in.tick \in 1..MaxTick /\ in.sample \in 1..MaxSamples /\ in \in Points
  <2>1. in.tick \in 1..MaxTick /\ in.sample \in 1..MaxSamples
    BY DEF Stamped, Ticks
  <2>2. Stamped \subseteq Points
    BY SignalAssumption DEF Stamped, Points, Ticks
  <2> QED BY <2>1, <2>2
<1>2. p.lastTick \in 0..MaxTick /\ MaxTick \in Nat
  BY SignalAssumption DEF Processors
<1>3. CASE p.lastTick = 0
  <2>1. PICK u : u = << in >>
    OBVIOUS
  <2>2. u \in Seq(Points) /\ Len(u) = 1 /\ u[1] = in
    BY <1>1, <2>1
  <2> QED BY <1>3, <2>1, <2>2 DEF NewPoints
<1>4. CASE p.lastTick # 0
  <2>1. PICK n \in Nat \ {0} : n = in.tick - p.lastTick
    BY <1>1, <1>2
  <2> DEFINE e(i) == IF p.lastTick + i = in.tick THEN in ELSE Point(p.lastTick + i, 0)
  <2>2. \A i \in 1..n : e(i) \in Points /\ e(i).tick = p.lastTick + i
    <3> TAKE i \in 1..n
    <3>1. p.lastTick + i \in 0..MaxTick /\ 0 \in 0..MaxSamples
      BY <1>1, <1>2, <2>1, SignalAssumption
    <3>2. Point(p.lastTick + i, 0) \in Points /\ Point(p.lastTick + i, 0).tick = p.lastTick + i
      BY <3>1 DEF Point, Points
    <3> QED BY <1>1, <3>2
  <2>3. e(n) = in
    BY <1>1, <1>2, <2>1
  <2>4. PICK u : u = [i \in 1..n |-> e(i)]
    OBVIOUS
  <2>5. NewPoints(p, in) = u
    BY <1>4, <2>1, <2>4 DEF NewPoints
  <2> HIDE DEF e
  <2>6. u \in Seq(Points) /\ Len(u) = n /\ \A i \in 1..n : u[i] = e(i)
    <3>1. u \in [1..n -> Points]
      BY <2>2, <2>4
    <3> QED BY <2>4, <3>1
  <2>7. \A i \in 2..n : u[i].tick = u[i - 1].tick + 1
    <3> TAKE i \in 2..n
    <3>1. i \in 1..n /\ i - 1 \in 1..n
      BY <2>1
    <3>2. u[i].tick = p.lastTick + i /\ u[i - 1].tick = p.lastTick + (i - 1)
      BY <2>2, <2>6, <3>1
    <3> QED BY <1>2, <3>2
  <2>8. 1 \in 1..n /\ n \in 1..n
    BY <2>1
  <2>9. u[1].tick = p.lastTick + 1 /\ u[n] = in
    BY <2>2, <2>3, <2>6, <2>8
  <2> QED BY <2>1, <2>5, <2>6, <2>7, <2>9
<1> QED BY <1>3, <1>4

LEMMA TrackedFacts ==
    ASSUME NEW p \in Processors, NEW in \in Stamped
    PROVE  Tracked(p, in) \in Processors /\ Tracked(p, in).lastTick = p.lastTick /\ Tracked(p, in).window = p.window
<1>1. /\ in.tick \in 1..MaxTick /\ MaxTick \in Nat
      /\ p.lastTick \in 0..MaxTick /\ p.lastTime \in 0..MaxTick /\ p.window \in Seq(Points) /\ p.gaps \in Seq(Nat)
  BY SignalAssumption DEF Stamped, Ticks, Processors
<1>2. PICK g \in Seq(Nat) : g = IF p.lastTime > 0 /\ in.tick > p.lastTime
                                THEN Newest(Append(p.gaps, in.tick - p.lastTime), MaxArrivalWindow)
                                ELSE p.gaps
  <2>1. CASE p.lastTime > 0 /\ in.tick > p.lastTime
    <3>1. in.tick - p.lastTime \in Nat
      BY <1>1, <2>1
    <3>2. Append(p.gaps, in.tick - p.lastTime) \in Seq(Nat)
      BY <1>1, <3>1
    <3>3. Newest(Append(p.gaps, in.tick - p.lastTime), MaxArrivalWindow) \in Seq(Nat)
      BY <3>2, ArrivalWindowAssumption, NewestFacts
    <3> QED BY <2>1, <3>3
  <2>2. CASE ~(p.lastTime > 0 /\ in.tick > p.lastTime)
    BY <1>1, <2>2
  <2> QED BY <2>1, <2>2
<1>3. Tracked(p, in) = [p EXCEPT !.gaps = g, !.lastTime = in.tick]
  BY <1>2 DEF Tracked
<1>4. in.tick \in 0..MaxTick
  BY <1>1
<1> QED BY <1>3, <1>4 DEF Processors

\* Contiguous runs that follow one another are one.
LEMMA Joined ==
    ASSUME NEW w \in Seq(Points), NEW pts \in Seq(Points),
           \A i \in 2..Len(w) : w[i].tick = w[i - 1].tick + 1,
           \A i \in 2..Len(pts) : pts[i].tick = pts[i - 1].tick + 1,
           w # << >> /\ pts # << >> => pts[1].tick = w[Len(w)].tick + 1
    PROVE  \A i \in 2..Len(w \o pts) : (w \o pts)[i].tick = (w \o pts)[i - 1].tick + 1
<1>1. PICK u : u = w \o pts
  OBVIOUS
<1>2. /\ Len(u) = Len(w) + Len(pts) /\ Len(w) \in Nat /\ Len(pts) \in Nat
      /\ \A i \in 1..(Len(w) + Len(pts)) : u[i] = IF i <= Len(w) THEN w[i] ELSE pts[i - Len(w)]
  <2>1. /\ Len(w \o pts) = Len(w) + Len(pts)
        /\ \A i \in 1..(Len(w) + Len(pts)) : (w \o pts)[i] = IF i <= Len(w) THEN w[i] ELSE pts[i - Len(w)]
    BY ConcatProperties
  <2> QED BY <1>1, <2>1
<1>3. ASSUME NEW i \in 2..Len(u) PROVE u[i].tick = u[i - 1].tick + 1
  <2>1. i \in 1..(Len(w) + Len(pts)) /\ i - 1 \in 1..(Len(w) + Len(pts))
    BY <1>2
  <2>2. CASE i <= Len(w)
    <3>1. u[i] = w[i] /\ u[i - 1] = w[i - 1] /\ i \in 2..Len(w)
      BY <1>2, <2>1, <2>2
    <3> QED BY <3>1
  <2>3. CASE i = Len(w) + 1
    <3>1. u[i] = pts[1] /\ u[i - 1] = w[Len(w)] /\ Len(w) # 0 /\ Len(pts) # 0
      BY <1>2, <2>1, <2>3
    <3> QED BY <3>1
  <2>4. CASE i > Len(w) + 1
    <3>1. PICK j \in 2..Len(pts) : j = i - Len(w)
      BY <1>2, <2>1, <2>4
    <3>2. u[i] = pts[j] /\ u[i - 1] = pts[j - 1]
      <4>1. (i - 1) - Len(w) = j - 1 /\ ~(i <= Len(w)) /\ ~(i - 1 <= Len(w))
        BY <1>2, <2>4, <3>1
      <4>2. u[i] = pts[i - Len(w)]
        BY <1>2, <2>1, <4>1
      <4>3. u[i - 1] = pts[(i - 1) - Len(w)]
        BY <1>2, <2>1, <4>1
      <4> QED BY <3>1, <4>1, <4>2, <4>3
    <3> QED BY <3>2
  <2> QED BY <1>2, <2>2, <2>3, <2>4
<1> QED BY <1>1, <1>3

\* An input that is newer than the last point is the last point; any other is
\* dropped.
LEMMA Processing ==
    ASSUME NEW p \in Processors, NEW in \in Stamped, NEW size \in Nat \ {0}, Contiguous(p, size)
    PROVE  /\ Process(p, in, size) \in Processors /\ Contiguous(Process(p, in, size), size)
           /\ IF in.tick > p.lastTick
              THEN /\ Process(p, in, size).lastTick = in.tick
                   /\ Process(p, in, size).window # << >> /\ Last(Process(p, in, size).window) = in
              ELSE Process(p, in, size).lastTick = p.lastTick /\ Process(p, in, size).window = p.window
<1>1. PICK z \in Processors : z = Tracked(p, in) /\ z.lastTick = p.lastTick /\ z.window = p.window
  BY TrackedFacts
<1>2. /\ in.tick \in 1..MaxTick /\ in.sample \in 1..MaxSamples
      /\ p.lastTick \in 0..MaxTick /\ MaxTick \in Nat /\ MaxSamples \in Nat
  BY SignalAssumption DEF Stamped, Ticks, Processors
<1>3. Accepts(p, in) <=> in.tick > p.lastTick
  BY <1>2 DEF Accepts
<1>4. CASE ~(in.tick > p.lastTick)
  <2>1. Process(p, in, size) = z
    BY <1>1, <1>3, <1>4 DEF Process
  <2>2. Contiguous(z, size)
    BY <1>1 DEF Contiguous
  <2> QED BY <1>1, <1>4, <2>1, <2>2
<1>5. CASE in.tick > p.lastTick
  <2>1. PICK pts : pts = NewPoints(p, in)
    OBVIOUS
  <2>2. /\ pts \in Seq(Points) /\ Len(pts) \in Nat \ {0} /\ pts[Len(pts)] = in
        /\ \A i \in 2..Len(pts) : pts[i].tick = pts[i - 1].tick + 1
        /\ p.lastTick # 0 => pts[1].tick = p.lastTick + 1
    BY <1>5, <2>1, NewPointsFacts
  <2>3. p.window \in Seq(Points)
    BY DEF Processors
  <2>4. PICK u : u = p.window \o pts
    OBVIOUS
  <2>5. u \in Seq(Points) /\ Len(u) \in Nat \ {0} /\ u[Len(u)] = in
    <3>1. /\ u \in Seq(Points) /\ Len(u) = Len(p.window) + Len(pts)
          /\ \A i \in 1..(Len(p.window) + Len(pts)) :
                u[i] = IF i <= Len(p.window) THEN p.window[i] ELSE pts[i - Len(p.window)]
      <4>1. PICK w \in Seq(Points) : w = p.window
        BY <2>3
      <4>2. /\ w \o pts \in Seq(Points) /\ Len(w \o pts) = Len(w) + Len(pts)
            /\ \A i \in 1..(Len(w) + Len(pts)) : (w \o pts)[i] = IF i <= Len(w) THEN w[i] ELSE pts[i - Len(w)]
        BY <2>2, ConcatProperties
      <4> QED BY <2>4, <4>1, <4>2
    <3>2. Len(p.window) \in Nat
      BY <2>3
    <3>3. PICK a \in Nat : a = Len(p.window)
      BY <3>2
    <3>4. PICK b \in Nat \ {0} : b = Len(pts)
      BY <2>2
    <3>5. a + b \in 1..(a + b) /\ ~(a + b <= a) /\ (a + b) - a = b
      BY <3>3, <3>4
    <3>6. u[a + b] = pts[(a + b) - a]
      BY <3>1, <3>3, <3>4, <3>5
    <3>7. Len(u) = a + b
      BY <3>1, <3>3, <3>4
    <3> QED BY <2>2, <3>1, <3>4, <3>5, <3>6, <3>7
  <2>6. \A i \in 2..Len(u) : u[i].tick = u[i - 1].tick + 1
    <3>1. p.window # << >> /\ pts # << >> => pts[1].tick = p.window[Len(p.window)].tick + 1
      BY <2>2 DEF Contiguous, Last
    <3>2. \A i \in 2..Len(p.window) : p.window[i].tick = p.window[i - 1].tick + 1
      BY DEF Contiguous
    <3> QED BY <2>2, <2>3, <2>4, <3>1, <3>2, Joined
  <2>7. PICK v : v = Newest(u, size)
    OBVIOUS
  <2>8. /\ v \in Seq(Points) /\ Len(v) <= size /\ Len(v) <= Len(u) /\ v # << >>
        /\ \A i \in 1..Len(v) : v[i] = u[Len(u) - Len(v) + i]
    <3>1. u # << >>
      BY <2>5
    <3> QED BY <2>5, <2>7, <3>1, NewestFacts
  <2>9. Len(v) \in Nat \ {0}
    BY <2>8
  <2>10. v[Len(v)] = in
    <3>1. Len(u) - Len(v) + Len(v) = Len(u) /\ Len(v) \in 1..Len(v)
      BY <2>5, <2>9
    <3> QED BY <2>5, <2>8, <3>1
  <2>11. \A i \in 2..Len(v) : v[i].tick = v[i - 1].tick + 1
    <3> TAKE i \in 2..Len(v)
    <3>a. \A a, b \in Nat : a <= b => b - a \in Nat
      OBVIOUS
    <3>b. Len(u) \in Nat /\ Len(v) \in Nat /\ Len(v) <= Len(u)
      BY <2>5, <2>8
    <3>1. PICK o \in Nat : o = Len(u) - Len(v)
      BY <3>a, <3>b
    <3>2. i \in 1..Len(v) /\ i - 1 \in 1..Len(v) /\ o + i \in 2..Len(u) /\ (o + i) - 1 = o + (i - 1)
      BY <2>5, <2>9, <3>1
    <3>3. v[i] = u[o + i] /\ v[i - 1] = u[(o + i) - 1]
      BY <2>8, <3>1, <3>2
    <3> QED BY <2>6, <3>2, <3>3
  <2>12. Process(p, in, size) = [z EXCEPT !.window = v, !.lastTick = in.tick]
    BY <1>1, <1>3, <1>5, <2>1, <2>4, <2>7 DEF Process, Insert
  <2>13. in.tick \in 0..MaxTick
    BY <1>2
  <2>14. PICK q \in Processors : q = Process(p, in, size) /\ q.window = v /\ q.lastTick = in.tick
    BY <2>8, <2>12, <2>13 DEF Processors
  <2>15. Contiguous(q, size)
    BY <1>2, <2>8, <2>10, <2>11, <2>14 DEF Contiguous, Last
  <2> QED BY <1>5, <2>8, <2>10, <2>14, <2>15 DEF Last
<1> QED BY <1>4, <1>5

-----------------------------------------------------------------------------
(***************************************************************************)
(* The processors of one analysis.  Types.                                 *)
(***************************************************************************)

SignalTypes ==
    /\ rows \in Nat \ {0} /\ samples \in [NodeIDs -> Arrivals] /\ maxProcessors \in Nat \ {0}
    /\ phase \in {"add", "flush", "state", "matrix", "done"}
    /\ todo \subseteq NodeIDs /\ tick \in 0..MaxTick
    /\ phase = "done" => todo = {}
    /\ buffer \in [NodeIDs -> [Ticks -> 0..MaxSamples]]
    /\ pool \in Seq(NodeIDs) /\ IsInjective(pool) /\ Len(pool) <= maxProcessors
    /\ procs \in [NodeIDs -> Processors]
    /\ channel \in [NodeIDs -> Seq(Stamped)]
    /\ columns \in [NodeIDs -> Seq(Points)]
    /\ lost \subseteq NodeIDs /\ undrained \subseteq NodeIDs

\* The samples of a node, and the newest of them.
LEMMA SamplesFacts ==
    ASSUME samples \in [NodeIDs -> Arrivals], NEW id \in NodeIDs
    PROVE  /\ Len(samples[id]) \in 0..MaxSamples /\ DOMAIN samples[id] = 1..Len(samples[id])
           /\ \A i \in 1..Len(samples[id]) : samples[id][i] \in Ticks
           /\ \A i \in 1..Len(samples[id]) : samples[id][i] <= Last(samples[id])
           /\ samples[id] # << >> =>
                 Len(samples[id]) # 0 /\ Last(samples[id]) \in Ticks /\ Last(samples[id]) = samples[id][Len(samples[id])]
<1>1. PICK s : s = samples[id]
  OBVIOUS
<1>2. s \in Arrivals
  BY <1>1
<1>3. PICK n \in 0..MaxSamples : s \in [1..n -> Ticks]
  BY <1>2 DEF Arrivals
<1>4. n \in Nat /\ Len(s) = n /\ DOMAIN s = 1..n
  BY <1>3, SignalAssumption
<1>5. \A i \in 1..n : s[i] \in Nat
  BY <1>3, SignalAssumption DEF Ticks
<1>6. ASSUME NEW i \in 1..n, ~(s[i] <= s[n]) PROVE FALSE
  <2> DEFINE Above == {k \in 1..n : ~(s[k] <= s[n])}
  <2>1. Above \in SUBSET Nat /\ Above # {} /\ \A k \in Above : k <= n
    BY <1>4, <1>6
  <2>2. PICK top \in Above : \A k \in Above : k <= top
    <3> HIDE DEF Above
    <3> QED BY <1>4, <2>1, MaxOf
  <2>3. top \in 1..n /\ top # n
    BY <1>4, <1>5
  <2>4. top + 1 \in 2..n /\ (top + 1) - 1 = top
    BY <1>4, <2>3
  <2>5. s[top] <= s[top + 1]
    BY <1>2, <1>4, <2>4 DEF Arrivals
  <2>6. top + 1 \notin Above
    BY <2>2, <2>3
  <2>7. s[top + 1] <= s[n] /\ top + 1 \in 1..n /\ n \in 1..n
    BY <1>4, <2>4, <2>6
  <2> QED BY <1>5, <2>2, <2>5, <2>7
<1>7. s # << >> => n # 0 /\ n \in 1..n
  BY <1>3, <1>4
<1> QED BY <1>1, <1>3, <1>4, <1>6, <1>7 DEF Last

\* What the aggregator keeps for a tick: its latest sample.
Aggregate(id, t) == Max({0} \union {i \in DOMAIN samples[id] : samples[id][i] = t})

LEMMA AggregateFacts ==
    ASSUME samples \in [NodeIDs -> Arrivals], NEW id \in NodeIDs, NEW t \in Ticks
    PROVE  /\ Aggregate(id, t) \in 0..Len(samples[id])
           /\ Aggregate(id, t) # 0 => samples[id][Aggregate(id, t)] = t
           /\ samples[id] # << >> /\ t = Last(samples[id]) => Aggregate(id, t) = Len(samples[id])
<1>1. PICK s : s = samples[id]
  OBVIOUS
<1>2. /\ Len(s) \in Nat /\ DOMAIN s = 1..Len(s)
      /\ s # << >> => Len(s) # 0 /\ Last(s) = s[Len(s)]
  BY <1>1, SamplesFacts, SignalAssumption
<1> DEFINE S == {0} \union {i \in 1..Len(s) : s[i] = t}
<1>3. S \in SUBSET Nat /\ S # {} /\ \A i \in S : i <= Len(s)
  BY <1>2
<1>4. Max(S) \in S /\ \A i \in S : i <= Max(S)
  <2> HIDE DEF S
  <2> QED BY <1>2, <1>3, MaxOf
<1>5. Aggregate(id, t) = Max(S)
  BY <1>1, <1>2 DEF Aggregate
<1>6. PICK m \in S : m = Max(S) /\ \A i \in S : i <= m
  BY <1>4
<1>7. m \in 0..Len(s) /\ (m # 0 => s[m] = t)
  BY <1>2
<1>8. s # << >> /\ t = Last(s) => m = Len(s)
  <2>1. s # << >> /\ t = Last(s) => Len(s) \in S
    BY <1>2
  <2> QED BY <1>2, <1>6, <1>7, <2>1
<1> QED BY <1>1, <1>5, <1>6, <1>7, <1>8

\* GetProcessor(id): id is in the pool, and one other may have left it.
LEMMA PoolFacts ==
    ASSUME SignalTypes, NEW id \in NodeIDs
    PROVE  /\ PoolWith(id) \in Seq(NodeIDs) /\ IsInjective(PoolWith(id)) /\ Len(PoolWith(id)) <= maxProcessors
           /\ ToSet(PoolWith(id)) = (ToSet(pool) \ EvictOne(id)) \union {id}
           /\ EvictOne(id) \subseteq ToSet(pool) /\ id \notin EvictOne(id)
           /\ ToSet(pool) \subseteq NodeIDs
<1>1. pool \in Seq(NodeIDs) /\ IsInjective(pool) /\ Len(pool) \in Nat /\ maxProcessors \in Nat \ {0} /\ Len(pool) <= maxProcessors
  BY DEF SignalTypes
<1>2. ToSet(pool) \subseteq NodeIDs
  BY <1>1 DEF ToSet
<1>3. PICK kept : kept = IF EvictOne(id) = {} THEN pool ELSE Tail(pool)
  OBVIOUS
<1>4. /\ kept \in Seq(NodeIDs) /\ IsInjective(kept) /\ ToSet(kept) = ToSet(pool) \ EvictOne(id)
      /\ Len(kept) < maxProcessors \/ (id \in ToSet(kept) /\ Len(kept) <= maxProcessors)
      /\ EvictOne(id) \subseteq ToSet(pool) /\ id \notin EvictOne(id)
  <2>1. CASE id \in ToSet(pool) \/ Len(pool) < maxProcessors
    <3>1. EvictOne(id) = {}
      BY <2>1 DEF EvictOne
    <3> QED BY <1>1, <1>3, <2>1, <3>1
  <2>2. CASE ~(id \in ToSet(pool) \/ Len(pool) < maxProcessors)
    <3>1. EvictOne(id) = {Head(pool)} /\ kept = Tail(pool) /\ pool # << >>
      BY <1>1, <1>3, <2>2 DEF EvictOne
    <3>2. /\ Head(pool) \in ToSet(pool)
          /\ Tail(pool) \in Seq(NodeIDs) /\ IsInjective(Tail(pool))
          /\ ToSet(Tail(pool)) = ToSet(pool) \ {Head(pool)}
          /\ Len(Tail(pool)) = Len(pool) - 1
      BY <1>1, <3>1, Beheading
    <3>3. Len(kept) < maxProcessors
      BY <1>1, <3>1, <3>2
    <3> QED BY <2>2, <3>1, <3>2, <3>3
  <2> QED BY <2>1, <2>2
<1>5. PICK left \in Seq(NodeIDs) : left = RemoveFirst(kept, id)
  BY <1>4, Removing
<1>6. /\ IsInjective(left) /\ ToSet(left) = ToSet(kept) \ {id}
      /\ Len(left) = IF id \in ToSet(kept) THEN Len(kept) - 1 ELSE Len(kept)
  BY <1>4, <1>5, Removing
<1>7. /\ Append(left, id) \in Seq(NodeIDs) /\ IsInjective(Append(left, id))
      /\ ToSet(Append(left, id)) = ToSet(left) \union {id}
      /\ Len(Append(left, id)) = Len(left) + 1
  BY <1>6, Appending
<1>8. PoolWith(id) = Append(left, id)
  BY <1>3, <1>5 DEF PoolWith
<1>9. Len(left) + 1 <= maxProcessors
  BY <1>1, <1>4, <1>6
<1>10. ToSet(Append(left, id)) = (ToSet(pool) \ EvictOne(id)) \union {id}
  BY <1>4, <1>6, <1>7
<1> QED BY <1>2, <1>4, <1>7, <1>8, <1>9, <1>10

Windows == \A id \in NodeIDs : Contiguous(procs[id], rows)

\* A node outside the pool has nothing.
Fresh == \A id \in NodeIDs : id \notin ToSet(pool) => procs[id] = NewProcessor /\ channel[id] = << >>

Shaped == SignalTypes /\ Windows /\ Fresh

\* GetProcessor(id) takes what the node had that it threw out, and no more.
LEMMA GettingFacts ==
    ASSUME Shaped, NEW id \in NodeIDs
    PROVE  /\ ProcsWith(id) \in [NodeIDs -> Processors]
           /\ ChannelsWith(id) \in [NodeIDs -> Seq(Stamped)]
           /\ \A k \in NodeIDs :
                 /\ ProcsWith(id)[k] = IF k \in EvictOne(id) THEN NewProcessor ELSE procs[k]
                 /\ ChannelsWith(id)[k] = IF k \in EvictOne(id) THEN << >> ELSE channel[k]
                 /\ Contiguous(ProcsWith(id)[k], rows)
                 /\ k \notin ToSet(PoolWith(id)) => ProcsWith(id)[k] = NewProcessor /\ ChannelsWith(id)[k] = << >>
<1>1. NewProcessor \in Processors
  BY SignalAssumption DEF NewProcessor, Processors
<1>2. procs \in [NodeIDs -> Processors] /\ channel \in [NodeIDs -> Seq(Stamped)]
  BY DEF Shaped, SignalTypes
<1>3. ProcsWith(id) \in [NodeIDs -> Processors] /\ ChannelsWith(id) \in [NodeIDs -> Seq(Stamped)]
  BY <1>1, <1>2 DEF ProcsWith, ChannelsWith
<1>4. ASSUME NEW k \in NodeIDs
      PROVE  /\ ProcsWith(id)[k] = IF k \in EvictOne(id) THEN NewProcessor ELSE procs[k]
             /\ ChannelsWith(id)[k] = IF k \in EvictOne(id) THEN << >> ELSE channel[k]
  <2>1. k \in {id} \ ToSet(pool) => procs[k] = NewProcessor /\ channel[k] = << >>
    BY DEF Shaped, Fresh
  <2> QED BY <2>1 DEF ProcsWith, ChannelsWith, Replaced
<1>5. ASSUME NEW k \in NodeIDs PROVE Contiguous(ProcsWith(id)[k], rows)
  <2>1. rows \in Nat \ {0}
    BY DEF Shaped, SignalTypes
  <2>2. Contiguous(NewProcessor, rows)
    BY <2>1 DEF Contiguous, NewProcessor
  <2>3. Contiguous(procs[k], rows)
    BY DEF Shaped, Windows
  <2> QED BY <1>4, <2>2, <2>3
<1>6. ASSUME NEW k \in NodeIDs, k \notin ToSet(PoolWith(id))
      PROVE  ProcsWith(id)[k] = NewProcessor /\ ChannelsWith(id)[k] = << >>
  <2>1. k \in EvictOne(id) \/ k \notin ToSet(pool)
    BY <1>6, PoolFacts DEF Shaped
  <2> QED BY <1>4, <2>1 DEF Shaped, Fresh
<1> QED BY <1>3, <1>4, <1>5, <1>6

LEMMA ColumnType ==
    ASSUME NEW p \in Processors, NEW n \in Nat \ {0}, Len(p.window) <= n
    PROVE  /\ Column(p, n) \in Seq(Points)
           /\ p.window # << >> => Column(p, n)[n] = Last(p.window)
<1>1. PICK w \in Seq(Points) : w = p.window
  BY DEF Processors
<1>2. Len(w) \in Nat /\ Len(w) <= n /\ \A i \in 1..Len(w) : w[i] \in Points
  BY <1>1
<1>3. PICK k \in Nat : k = n - Len(w)
  BY <1>2
<1>4. Point(0, 0) \in Points
  BY SignalAssumption DEF Point, Points
<1> DEFINE e(i) == IF i > k THEN w[i - k] ELSE Point(0, 0)
<1>5. \A i \in 1..n : e(i) \in Points
  <2> TAKE i \in 1..n
  <2>1. i > k => i - k \in 1..Len(w)
    BY <1>2, <1>3
  <2> QED BY <1>2, <1>4, <2>1
<1>6. Column(p, n) = [i \in 1..n |-> e(i)]
  BY <1>1, <1>3 DEF Column
<1>7. Column(p, n) \in Seq(Points)
  <2> HIDE DEF e
  <2>1. PICK u : u = [i \in 1..n |-> e(i)]
    OBVIOUS
  <2>2. u \in [1..n -> Points]
    BY <1>5, <2>1
  <2> QED BY <1>6, <2>1, <2>2
<1>8. ASSUME p.window # << >> PROVE Column(p, n)[n] = Last(p.window)
  <2>1. n > k /\ n - k = Len(w) /\ n \in 1..n
    BY <1>1, <1>2, <1>3, <1>8
  <2>2. Column(p, n)[n] = w[n - k]
    BY <1>6, <2>1
  <2> QED BY <1>1, <2>1, <2>2 DEF Last
<1> QED BY <1>7, <1>8

\* A sample of the buffer on its way to a channel.
LEMMA PointType ==
    ASSUME SignalTypes, NEW id \in NodeIDs, NEW t \in Ticks, buffer[id][t] # 0
    PROVE  Point(t, buffer[id][t]) \in Stamped
  BY SignalAssumption DEF SignalTypes, Point, Stamped

\* What was read from the store and the pool's limit stay as they are.
LEMMA InputSame == ASSUME [SignalNext]_signalVars PROVE UNCHANGED <<rows, samples, maxProcessors>>
  BY DEF SignalNext, Phase1, AddSamples, FlushGroup, FlushEnds, ReadState, ReadColumn, Work, signalVars, input

LEMMA ShapedInit == SignalInit => Shaped
<1> SUFFICES ASSUME SignalInit PROVE Shaped
  OBVIOUS
<1>1. NewProcessor \in Processors
  BY SignalAssumption DEF NewProcessor, Processors
<1>2. SignalTypes
  <2>1. IsInjective(pool) /\ Len(pool) = 0 /\ pool \in Seq(NodeIDs)
    BY DEF SignalInit, IsInjective
  <2>2. maxProcessors \in Nat \ {0} /\ tick \in 0..MaxTick
    BY SignalAssumption DEF SignalInit
  <2>3. buffer \in [NodeIDs -> [Ticks -> 0..MaxSamples]]
    BY SignalAssumption DEF SignalInit
  <2>4. procs \in [NodeIDs -> Processors] /\ channel \in [NodeIDs -> Seq(Stamped)] /\ columns \in [NodeIDs -> Seq(Points)]
    BY <1>1 DEF SignalInit
  <2> QED BY <2>1, <2>2, <2>3, <2>4 DEF SignalInit, SignalTypes
<1>3. ASSUME NEW id \in NodeIDs PROVE Contiguous(procs[id], rows)
  <2>1. rows \in Nat \ {0}
    BY <1>2 DEF SignalTypes
  <2>2. procs[id] = NewProcessor
    BY DEF SignalInit
  <2> QED BY <2>1, <2>2 DEF Contiguous, NewProcessor
<1>4. Fresh
  BY DEF SignalInit, Fresh
<1> QED BY <1>2, <1>3, <1>4 DEF Shaped, Windows

LEMMA CurrentFacts == ASSUME SignalTypes, todo # {} PROVE Current \in todo /\ Current \in NodeIDs /\ Rest \subseteq NodeIDs
  BY MinOf, SignalAssumption DEF SignalTypes, Current, Rest

LEMMA ShapedStep == Shaped /\ [SignalNext]_signalVars => Shaped'
<1> SUFFICES ASSUME Shaped, [SignalNext]_signalVars PROVE Shaped'
  OBVIOUS
<1>1. SignalTypes /\ Windows /\ Fresh
  BY DEF Shaped
<1> DEFINE ManagerTypes ==
      /\ pool' \in Seq(NodeIDs) /\ IsInjective(pool') /\ Len(pool') <= maxProcessors
      /\ procs' \in [NodeIDs -> Processors]
      /\ channel' \in [NodeIDs -> Seq(Stamped)]
<1>2. ASSUME NEW id \in NodeIDs, pool' = PoolWith(id), procs' = ProcsWith(id), rows' = rows /\ samples' = samples,
             channel' \in [NodeIDs -> Seq(Stamped)],
             \A k \in NodeIDs \ {id} : channel'[k] = ChannelsWith(id)[k]
      PROVE  ManagerTypes /\ Windows' /\ Fresh'
  <2>1. ManagerTypes
    BY <1>1, <1>2, PoolFacts, GettingFacts
  <2>2. Windows'
    BY <1>2, GettingFacts DEF Windows
  <2>3. ToSet(PoolWith(id)) = (ToSet(pool) \ EvictOne(id)) \union {id}
    BY <1>1, PoolFacts
  <2>4. Fresh'
    BY <1>2, <2>3, GettingFacts DEF Fresh
  <2> QED BY <2>1, <2>2, <2>4
<1>3. ASSUME UNCHANGED <<input, manager>> PROVE ManagerTypes /\ Windows' /\ Fresh'
  BY <1>1, <1>3 DEF input, manager, SignalTypes, Windows, Fresh
<1>4. CASE AddSamples
  <2>1. Current \in NodeIDs /\ Rest \subseteq NodeIDs
    BY <1>1, <1>4, CurrentFacts DEF AddSamples
  <2>2. \A t \in Ticks : Aggregate(Current, t) \in 0..MaxSamples
    <3> TAKE t \in Ticks
    <3>1. Aggregate(Current, t) \in 0..Len(samples[Current]) /\ Len(samples[Current]) \in 0..MaxSamples
      BY <1>1, <2>1, AggregateFacts, SamplesFacts DEF SignalTypes
    <3> QED BY <3>1, SignalAssumption
  <2>3. buffer' = [buffer EXCEPT ![Current] = [t \in Ticks |-> Aggregate(Current, t)]]
    BY <1>4 DEF AddSamples, Aggregate
  <2>4. buffer' \in [NodeIDs -> [Ticks -> 0..MaxSamples]]
    BY <1>1, <2>2, <2>3 DEF SignalTypes
  <2>5. /\ phase' \in {"add", "flush"} /\ todo' \subseteq NodeIDs
        /\ UNCHANGED <<rows, samples, maxProcessors, tick, pool, procs, channel, columns, lost, undrained>>
    BY <1>4, <2>1 DEF AddSamples, input, manager, result
  <2> QED BY <1>1, <2>4, <2>5, <1>3, <1>4 DEF Shaped, SignalTypes, AddSamples
<1>5. ASSUME NEW id \in NodeIDs, NEW t \in Ticks, FlushGroup(id, t) PROVE Shaped'
  <2>1. Point(t, buffer[id][t]) \in Stamped
    BY <1>1, <1>5, PointType DEF FlushGroup
  <2>2. /\ channel' \in [NodeIDs -> Seq(Stamped)]
        /\ \A k \in NodeIDs \ {id} : channel'[k] = ChannelsWith(id)[k]
    <3>1. ChannelsWith(id) \in [NodeIDs -> Seq(Stamped)]
      BY GettingFacts
    <3>2. PICK ch \in [NodeIDs -> Seq(Stamped)] : ch = ChannelsWith(id)
      BY <3>1
    <3>3. channel' = ch \/ channel' = [ch EXCEPT ![id] = Append(ch[id], Point(t, buffer[id][t]))]
      BY <1>5, <3>2 DEF FlushGroup
    <3>4. Append(ch[id], Point(t, buffer[id][t])) \in Seq(Stamped)
      BY <2>1, <3>2
    <3> QED BY <3>2, <3>3, <3>4
  <2>3. pool' = PoolWith(id) /\ procs' = ProcsWith(id) /\ UNCHANGED <<rows, samples, maxProcessors, phase, todo, columns, undrained>>
    BY <1>5 DEF FlushGroup, input, result
  <2>4. ManagerTypes /\ Windows' /\ Fresh'
    BY <1>2, <2>2, <2>3
  <2>5. buffer' = [buffer EXCEPT ![id][t] = 0]
    BY <1>5 DEF FlushGroup
  <2>6. buffer' \in [NodeIDs -> [Ticks -> 0..MaxSamples]]
    BY <1>1, <2>5, SignalAssumption DEF SignalTypes
  <2>7. tick' \in 0..MaxTick
    BY <1>5, SignalAssumption DEF FlushGroup, Ticks
  <2>8. lost' \subseteq NodeIDs
    <3>1. EvictOne(id) \subseteq NodeIDs
      BY <1>1, PoolFacts
    <3>2. lost' \subseteq lost \union EvictOne(id) \union {id}
      BY <1>5 DEF FlushGroup
    <3> QED BY <1>1, <3>1, <3>2 DEF SignalTypes
  <2> QED BY <1>1, <2>3, <2>4, <2>6, <2>7, <2>8 DEF Shaped, SignalTypes
<1>6. CASE FlushEnds
  <2>1. /\ phase' = "state"
        /\ UNCHANGED <<rows, samples, maxProcessors, todo, buffer, tick, pool, procs, channel, columns, lost, undrained>>
    BY <1>6 DEF FlushEnds, input, manager, result
  <2> QED BY <1>1, <1>3, <1>6, <2>1 DEF Shaped, SignalTypes, FlushEnds
<1>7. ASSUME NEW id \in NodeIDs, ReadState(id) PROVE Shaped'
  <2>1. /\ pool' = PoolWith(id) /\ procs' = ProcsWith(id) /\ channel' = ChannelsWith(id)
        /\ phase' = "matrix" /\ todo' = NodeIDs
        /\ lost' = lost \union EvictOne(id) /\ undrained' = undrained \union Behind(id)
        /\ UNCHANGED <<rows, samples, maxProcessors, buffer, tick, columns>>
    BY <1>7 DEF ReadState, input
  <2>2. ManagerTypes /\ Windows' /\ Fresh'
    BY <1>2, <2>1, GettingFacts
  <2>3. EvictOne(id) \subseteq NodeIDs /\ Behind(id) \subseteq NodeIDs
    BY <1>1, PoolFacts DEF Behind
  <2> QED BY <1>1, <2>1, <2>2, <2>3 DEF Shaped, SignalTypes
<1>8. CASE ReadColumn
  <2>1. Current \in NodeIDs /\ Rest \subseteq NodeIDs
    BY <1>1, <1>8, CurrentFacts DEF ReadColumn
  <2>2. PICK c \in NodeIDs : c = Current
    BY <2>1
  <2>3. /\ pool' = PoolWith(c) /\ procs' = ProcsWith(c) /\ channel' = ChannelsWith(c)
        /\ todo' = Rest /\ phase' = (IF Rest = {} THEN "done" ELSE phase) /\ phase = "matrix"
        /\ lost' = lost \union EvictOne(c) /\ undrained' = undrained \union Behind(c)
        /\ columns' = [columns EXCEPT ![c] = Column(ProcsWith(c)[c], rows)]
        /\ UNCHANGED <<rows, samples, maxProcessors, buffer, tick>>
    BY <1>8, <2>2 DEF ReadColumn, input
  <2>4. ManagerTypes /\ Windows' /\ Fresh'
    BY <1>2, <2>3, GettingFacts
  <2>5. EvictOne(c) \subseteq NodeIDs /\ Behind(c) \subseteq NodeIDs
    BY <1>1, PoolFacts DEF Behind
  <2>6. Column(ProcsWith(c)[c], rows) \in Seq(Points)
    <3>1. ProcsWith(c)[c] \in Processors /\ Contiguous(ProcsWith(c)[c], rows)
      BY GettingFacts
    <3>2. rows \in Nat \ {0}
      BY <1>1 DEF SignalTypes
    <3> QED BY <3>1, <3>2, ColumnType DEF Contiguous
  <2> QED BY <1>1, <2>1, <2>3, <2>4, <2>5, <2>6 DEF Shaped, SignalTypes
<1>9. ASSUME NEW id \in NodeIDs, Work(id) PROVE Shaped'
  <2>1. channel[id] \in Seq(Stamped) /\ channel[id] # << >>
    BY <1>1, <1>9 DEF SignalTypes, Work
  <2>2. Head(channel[id]) \in Stamped /\ Tail(channel[id]) \in Seq(Stamped)
    BY <2>1, HeadTailProperties
  <2>3. rows \in Nat \ {0}
    BY <1>1 DEF SignalTypes
  <2>4. PICK p : p = Process(procs[id], Head(channel[id]), rows)
    OBVIOUS
  <2>5. p \in Processors /\ Contiguous(p, rows)
    BY <1>1, <2>2, <2>3, <2>4, Processing DEF SignalTypes, Windows
  <2>6. /\ procs' = [procs EXCEPT ![id] = p] /\ channel' = [channel EXCEPT ![id] = Tail(channel[id])]
        /\ UNCHANGED <<rows, samples, maxProcessors, phase, todo, buffer, tick, pool, columns, lost, undrained>>
    BY <1>9, <2>4 DEF Work, input, result
  <2>7. procs' \in [NodeIDs -> Processors] /\ channel' \in [NodeIDs -> Seq(Stamped)]
    BY <1>1, <2>2, <2>5, <2>6 DEF SignalTypes
  <2>8. Windows'
    BY <1>1, <2>5, <2>6 DEF SignalTypes, Windows
  <2>9. Fresh'
    BY <1>1, <2>1, <2>6 DEF SignalTypes, Fresh
  <2> QED BY <1>1, <2>6, <2>7, <2>8, <2>9 DEF Shaped, SignalTypes
<1>10. CASE UNCHANGED signalVars
  <2>1. UNCHANGED <<rows, samples, maxProcessors, phase, todo, buffer, tick, pool, procs, channel, columns, lost, undrained>>
    BY <1>10 DEF signalVars, input, manager, result
  <2> QED BY <1>1, <1>3, <1>10, <2>1 DEF Shaped, SignalTypes, signalVars
<1> QED BY <1>4, <1>5, <1>6, <1>7, <1>8, <1>9, <1>10 DEF SignalNext, Phase1

LEMMA SignalShaped == SignalSpec => []Shaped
  BY ShapedInit, ShapedStep, PTL DEF SignalSpec

\* Phase 1 keeps its types: the pool holds every node once and never more
\* processors than its limit.
THEOREM SignalTypeCorrect == SignalSpec => []SignalTypeOK
<1>1. Stamped \subseteq Points
  BY SignalAssumption DEF Stamped, Points, Ticks
<1>2. Shaped => SignalTypeOK
  <2> SUFFICES ASSUME Shaped PROVE SignalTypeOK
    OBVIOUS
  <2>1. ToSet(pool) \subseteq NodeIDs
    BY DEF Shaped, SignalTypes, ToSet
  <2>2. ASSUME NEW id \in NodeIDs PROVE channel[id] \in Seq(Points)
    <3>1. channel[id] \in Seq(Stamped)
      BY DEF Shaped, SignalTypes
    <3> QED BY <1>1, <3>1, SeqMonotonic
  <2>3. channel \in [NodeIDs -> Seq(Points)]
    BY <2>2 DEF Shaped, SignalTypes
  <2> QED BY <2>1, <2>3 DEF Shaped, SignalTypes, SignalTypeOK
<1> QED BY <1>2, SignalShaped, PTL

-----------------------------------------------------------------------------
(***************************************************************************)
(* Where the newest sample of a node is: still in the buffer, in the       *)
(* channel, or the last point of the processor's window.                   *)
(***************************************************************************)

Top(id) == Point(Last(samples[id]), Len(samples[id]))

Older(s, t) == \A i \in 1..Len(s) : s[i].tick < t

Waiting(p, ch, x) == p.lastTick < x.tick /\ Older(ch, x.tick)

Underway(p, ch, x) ==
    \/ /\ p.lastTick < x.tick
       /\ \E i \in 1..Len(ch) : ch[i] = x /\ \A j \in 1..Len(ch) : j # i => ch[j].tick < x.tick
    \/ p.lastTick = x.tick /\ p.window # << >> /\ Last(p.window) = x /\ Older(ch, x.tick)

Sent(id) ==
    /\ \A t \in Ticks : buffer[id][t] # 0 => t <= Top(id).tick
    /\ IF buffer[id][Top(id).tick] = 0
       THEN Underway(procs[id], channel[id], Top(id))
       ELSE buffer[id][Top(id).tick] = Top(id).sample /\ Waiting(procs[id], channel[id], Top(id))

Delivered ==
    \A id \in NodeIDs \ lost : samples[id] # << >> /\ (phase # "add" \/ id \notin todo) => Sent(id)

Adding == phase = "add" => pool = << >> /\ \A id \in todo, t \in Ticks : buffer[id][t] = 0

Flushed == phase \in {"state", "matrix", "done"} => \A id \in NodeIDs, t \in Ticks : buffer[id][t] = 0

Columned ==
    \A id \in NodeIDs \ (lost \union undrained) :
        samples[id] # << >> /\ phase \in {"matrix", "done"} /\ id \notin todo => columns[id][rows] = Top(id)

LEMMA TopType ==
    ASSUME SignalTypes, NEW id \in NodeIDs, samples[id] # << >>
    PROVE  Top(id) \in Stamped /\ Top(id).tick = Last(samples[id]) /\ Top(id).sample = Len(samples[id])
           /\ Top(id).tick \in Ticks
  BY SamplesFacts DEF SignalTypes, Top, Point, Stamped

\* A worker that takes an input.
LEMMA Working ==
    ASSUME NEW p \in Processors, NEW ch \in Seq(Stamped), ch # << >>, NEW size \in Nat \ {0},
           Contiguous(p, size), NEW x \in Stamped
    PROVE  /\ Waiting(p, ch, x) => Waiting(Process(p, Head(ch), size), Tail(ch), x)
           /\ Underway(p, ch, x) => Underway(Process(p, Head(ch), size), Tail(ch), x)
<1>1. PICK h \in Stamped, rest \in Seq(Stamped) : h = Head(ch) /\ rest = Tail(ch)
  BY HeadTailProperties
<1>2. /\ Len(ch) \in Nat \ {0} /\ h = ch[1] /\ Len(rest) = Len(ch) - 1
      /\ \A i \in 1..(Len(ch) - 1) : rest[i] = ch[i + 1]
  BY <1>1, HeadTailProperties
<1>3. PICK q : q = Process(p, h, size)
  OBVIOUS
<1>4. /\ h.tick > p.lastTick => q.lastTick = h.tick /\ q.window # << >> /\ Last(q.window) = h
      /\ ~(h.tick > p.lastTick) => q.lastTick = p.lastTick /\ q.window = p.window
  BY <1>3, Processing
<1>5. h.tick \in Nat /\ x.tick \in Nat /\ p.lastTick \in Nat /\ \A i \in 1..Len(ch) : ch[i].tick \in Nat
  <2>1. \A y \in Stamped : y.tick \in Nat
    BY SignalAssumption DEF Stamped, Ticks
  <2>2. p.lastTick \in Nat
    BY SignalAssumption DEF Processors
  <2>3. \A i \in 1..Len(ch) : ch[i] \in Stamped
    OBVIOUS
  <2> QED BY <2>1, <2>2, <2>3
<1>6. \A i \in 1..(Len(ch) - 1) : i + 1 \in 1..Len(ch) /\ i + 1 # 1
  BY <1>2
<1>7. 1 \in 1..Len(ch)
  BY <1>2
<1>8. Older(ch, x.tick) => h.tick < x.tick /\ Older(rest, x.tick)
  BY <1>2, <1>6, <1>7 DEF Older
<1>9. Waiting(p, ch, x) => Waiting(q, rest, x)
  <2>1. h.tick < x.tick /\ p.lastTick < x.tick => q.lastTick < x.tick
    BY <1>4, <1>5
  <2> QED BY <1>8, <2>1 DEF Waiting
<1>10. ASSUME p.lastTick = x.tick, p.window # << >>, Last(p.window) = x, Older(ch, x.tick)
       PROVE  Underway(q, rest, x)
  <2>1. q.lastTick = p.lastTick /\ q.window = p.window
    BY <1>4, <1>5, <1>8, <1>10
  <2> QED BY <1>8, <1>10, <2>1 DEF Underway
<1>11. ASSUME p.lastTick < x.tick,
              NEW i \in 1..Len(ch), ch[i] = x, \A j \in 1..Len(ch) : j # i => ch[j].tick < x.tick
       PROVE  Underway(q, rest, x)
  <2>1. CASE i = 1
    <3>1. h = x /\ q.lastTick = x.tick /\ q.window # << >> /\ Last(q.window) = x
      BY <1>2, <1>4, <1>5, <1>11, <2>1
    <3>2. Older(rest, x.tick)
      BY <1>2, <1>6, <1>11, <2>1 DEF Older
    <3> QED BY <3>1, <3>2 DEF Underway
  <2>2. CASE i # 1
    <3>1. h.tick < x.tick
      BY <1>2, <1>7, <1>11, <2>2
    <3>2. q.lastTick < x.tick
      BY <1>4, <1>5, <1>11, <3>1
    <3>3. PICK k \in 1..(Len(ch) - 1) : i = k + 1
      <4>1. i - 1 \in 1..(Len(ch) - 1) /\ i = (i - 1) + 1
        BY <1>2, <2>2
      <4> QED BY <4>1
    <3>4. k \in 1..Len(rest) /\ rest[k] = x
      BY <1>2, <1>11, <3>3
    <3>5. \A j \in 1..Len(rest) : j # k => rest[j].tick < x.tick
      <4> SUFFICES ASSUME NEW j \in 1..Len(rest), j # k PROVE rest[j].tick < x.tick
        OBVIOUS
      <4>1. j \in 1..(Len(ch) - 1) /\ j + 1 # i
        BY <1>2, <3>3
      <4> QED BY <1>2, <1>6, <1>11, <4>1
    <3> QED BY <3>2, <3>4, <3>5 DEF Underway
  <2> QED BY <2>1, <2>2
<1>12. Underway(p, ch, x) => Underway(q, rest, x)
  <2> SUFFICES ASSUME Underway(p, ch, x) PROVE Underway(q, rest, x)
    OBVIOUS
  <2>1. CASE p.lastTick < x.tick /\ \E i \in 1..Len(ch) : ch[i] = x /\ \A j \in 1..Len(ch) : j # i => ch[j].tick < x.tick
    BY <1>11, <2>1
  <2>2. CASE p.lastTick = x.tick /\ p.window # << >> /\ Last(p.window) = x /\ Older(ch, x.tick)
    BY <1>10, <2>2
  <2> QED BY <2>1, <2>2 DEF Underway
<1> QED BY <1>1, <1>3, <1>9, <1>12

\* An input that is sent: an older one changes nothing for x, x itself is
\* on its way.
LEMMA Sending ==
    ASSUME NEW p, NEW ch \in Seq(Stamped), NEW in \in Stamped, NEW x \in Stamped
    PROVE  /\ in.tick < x.tick /\ Waiting(p, ch, x) => Waiting(p, Append(ch, in), x)
           /\ in.tick < x.tick /\ Underway(p, ch, x) => Underway(p, Append(ch, in), x)
           /\ in = x /\ Waiting(p, ch, x) => Underway(p, Append(ch, in), x)
<1>1. PICK u : u = Append(ch, in)
  OBVIOUS
<1>2. /\ Len(ch) \in Nat /\ Len(u) = Len(ch) + 1 /\ u[Len(ch) + 1] = in
      /\ \A i \in 1..Len(ch) : u[i] = ch[i]
  BY <1>1
<1>3. \A i \in 1..Len(u) : i \in 1..Len(ch) \/ i = Len(ch) + 1
  BY <1>2
<1>4. in.tick < x.tick /\ Older(ch, x.tick) => Older(u, x.tick)
  BY <1>2, <1>3 DEF Older
<1>5. ASSUME in.tick < x.tick, Underway(p, ch, x) PROVE Underway(p, u, x)
  <2>1. CASE p.lastTick < x.tick /\ \E i \in 1..Len(ch) : ch[i] = x /\ \A j \in 1..Len(ch) : j # i => ch[j].tick < x.tick
    <3>1. PICK i \in 1..Len(ch) : ch[i] = x /\ \A j \in 1..Len(ch) : j # i => ch[j].tick < x.tick
      BY <2>1
    <3>2. i \in 1..Len(u) /\ u[i] = x
      BY <1>2, <3>1
    <3>3. \A j \in 1..Len(u) : j # i => u[j].tick < x.tick
      BY <1>2, <1>3, <1>5, <3>1
    <3> QED BY <2>1, <3>2, <3>3 DEF Underway
  <2>2. CASE p.lastTick = x.tick /\ p.window # << >> /\ Last(p.window) = x /\ Older(ch, x.tick)
    BY <1>4, <1>5, <2>2 DEF Underway
  <2> QED BY <1>5, <2>1, <2>2 DEF Underway
<1>6. ASSUME in = x, Waiting(p, ch, x) PROVE Underway(p, u, x)
  <2>1. Len(ch) + 1 \in 1..Len(u) /\ u[Len(ch) + 1] = x
    BY <1>2, <1>6
  <2>2. \A j \in 1..Len(u) : j # Len(ch) + 1 => u[j].tick < x.tick
    BY <1>2, <1>3, <1>6 DEF Waiting, Older
  <2> QED BY <1>6, <2>1, <2>2 DEF Underway, Waiting
<1> QED BY <1>1, <1>4, <1>5, <1>6 DEF Waiting

Arriving == Shaped /\ Adding /\ Flushed /\ Delivered /\ Columned

LEMMA AddingStep == Shaped /\ Adding /\ [SignalNext]_signalVars => Adding'
<1> SUFFICES ASSUME Shaped, Adding, [SignalNext]_signalVars, phase' = "add"
             PROVE  pool' = << >> /\ \A id \in todo', t \in Ticks : buffer'[id][t] = 0
  BY DEF Adding
<1>1. CASE AddSamples
  <2>1. Current \in todo /\ pool' = pool /\ phase = "add" /\ todo' = todo \ {Current}
    BY <1>1, CurrentFacts DEF Shaped, AddSamples, Rest, manager
  <2>2. \A id \in todo' : buffer'[id] = buffer[id]
    BY <1>1, <2>1 DEF Shaped, SignalTypes, AddSamples
  <2> QED BY <2>1, <2>2 DEF Adding
<1>2. ASSUME UNCHANGED <<phase, todo, pool, buffer>> PROVE pool' = << >> /\ \A id \in todo', t \in Ticks : buffer'[id][t] = 0
  BY <1>2 DEF Adding
<1>3. ASSUME NEW id \in NodeIDs, Work(id)
      PROVE  pool' = << >> /\ \A k \in todo', t \in Ticks : buffer'[k][t] = 0
  BY <1>2, <1>3 DEF Work
<1> QED
  BY <1>1, <1>2, <1>3 DEF SignalNext, Phase1, FlushGroup, FlushEnds, ReadState, ReadColumn, signalVars, manager

LEMMA FlushedStep == Shaped /\ Flushed /\ [SignalNext]_signalVars => Flushed'
<1> SUFFICES ASSUME Shaped, Flushed, [SignalNext]_signalVars, phase' \in {"state", "matrix", "done"},
                    NEW id \in NodeIDs, NEW t \in Ticks
             PROVE  buffer'[id][t] = 0
  BY DEF Flushed
<1>1. CASE FlushEnds
  BY <1>1 DEF FlushEnds, Buffered
<1>2. ASSUME buffer' = buffer, phase' = phase \/ phase \in {"state", "matrix", "done"} PROVE buffer'[id][t] = 0
  BY <1>2 DEF Flushed
<1>3. ~AddSamples /\ ~ \E k \in NodeIDs, u \in Ticks : FlushGroup(k, u)
  BY DEF AddSamples, FlushGroup
<1> QED
  BY <1>1, <1>2, <1>3 DEF SignalNext, Phase1, ReadState, ReadColumn, Work, signalVars

\* Nothing changes for a node whose processor, channel and buffer stay.
LEMMA SentSame ==
    ASSUME NEW id \in NodeIDs, Sent(id),
           UNCHANGED <<rows, samples, buffer[id], procs[id], channel[id]>>
    PROVE  Sent(id)'
<1>1. Top(id)' = Top(id)
  BY DEF Top
<1> QED BY <1>1 DEF Sent

LEMMA DeliveredStep == Arriving /\ [SignalNext]_signalVars => Delivered'
<1> SUFFICES ASSUME Arriving, [SignalNext]_signalVars, NEW k \in NodeIDs, k \notin lost', samples'[k] # << >>,
                    phase' # "add" \/ k \notin todo'
             PROVE  Sent(k)'
  BY DEF Delivered
<1>1. /\ Shaped /\ SignalTypes /\ Windows /\ Fresh /\ Adding /\ Delivered
      /\ samples' = samples /\ samples[k] # << >>
  BY InputSame DEF Arriving, Shaped
<1>2. ASSUME k \notin lost, phase # "add" \/ k \notin todo, UNCHANGED <<rows, samples, buffer[k], procs[k], channel[k]>>
      PROVE  Sent(k)'
  BY <1>1, <1>2, SentSame DEF Delivered
<1>3. CASE AddSamples
  <2>1. PICK c \in NodeIDs : c = Current
    BY <1>1, <1>3, CurrentFacts DEF AddSamples
  <2>2. /\ phase = "add" /\ todo' = todo \ {c} /\ phase' = (IF todo \ {c} = {} THEN "flush" ELSE "add")
        /\ buffer' = [buffer EXCEPT ![c] = [t \in Ticks |-> Aggregate(c, t)]]
        /\ UNCHANGED <<rows, samples, pool, procs, channel, lost>>
    BY <1>3, <2>1 DEF AddSamples, Aggregate, Rest, input, manager
  <2>3. CASE k # c
    <3>1. k \notin todo /\ buffer'[k] = buffer[k]
      BY <1>1, <2>2, <2>3 DEF SignalTypes
    <3> QED BY <1>2, <2>2, <3>1
  <2>4. CASE k = c
    <3>1. procs[k] = NewProcessor /\ channel[k] = << >>
      BY <1>1, <2>2 DEF Adding, Fresh, ToSet
    <3>2. PICK x \in Stamped : x = Top(k) /\ x.tick = Last(samples[k]) /\ x.sample = Len(samples[k]) /\ x.tick \in Ticks
      BY <1>1, TopType
    <3>3. \A t \in Ticks : buffer'[k][t] = Aggregate(k, t)
      BY <1>1, <2>2, <2>4 DEF SignalTypes
    <3>4. buffer'[k][x.tick] = x.sample /\ x.sample # 0
      <4>1. Aggregate(k, x.tick) = Len(samples[k])
        BY <1>1, <3>2, AggregateFacts DEF SignalTypes
      <4>2. x.sample # 0
        BY SignalAssumption DEF Stamped
      <4> QED BY <3>2, <3>3, <4>1, <4>2
    <3>5. ASSUME NEW t \in Ticks, buffer'[k][t] # 0 PROVE t <= x.tick
      <4>1. PICK i \in 0..Len(samples[k]) : i = Aggregate(k, t) /\ i # 0 /\ samples[k][i] = t
        BY <1>1, <3>3, <3>5, AggregateFacts DEF SignalTypes
      <4>2. Len(samples[k]) \in 0..MaxSamples
        BY <1>1, SamplesFacts DEF SignalTypes
      <4>3. i \in 1..Len(samples[k])
        BY <4>1, <4>2, SignalAssumption
      <4> QED BY <1>1, <3>2, <4>1, <4>3, SamplesFacts DEF SignalTypes
    <3>6. Waiting(NewProcessor, << >>, x)
      BY SignalAssumption DEF Waiting, Older, NewProcessor, Stamped, Ticks
    <3>7. Top(k)' = x
      BY <2>2, <3>2 DEF Top
    <3> QED BY <2>2, <3>1, <3>4, <3>5, <3>6, <3>7 DEF Sent
  <2> QED BY <2>3, <2>4
<1>4. ASSUME NEW id \in NodeIDs, k \notin EvictOne(id)
      PROVE  ProcsWith(id)[k] = procs[k] /\ ChannelsWith(id)[k] = channel[k]
  BY <1>1, <1>4, GettingFacts
<1>5. ASSUME NEW id \in NodeIDs, NEW t \in Ticks, FlushGroup(id, t) PROVE Sent(k)'
  <2>1. /\ phase = "flush" /\ buffer[id][t] # 0 /\ k \notin lost /\ k \notin EvictOne(id)
        /\ procs' = ProcsWith(id) /\ rows' = rows /\ samples' = samples
        /\ buffer' = [buffer EXCEPT ![id][t] = 0]
    BY <1>5 DEF FlushGroup, input
  <2>2. procs'[k] = procs[k] /\ ChannelsWith(id)[k] = channel[k]
    BY <1>4, <2>1
  <2>3. ChannelsWith(id) \in [NodeIDs -> Seq(Stamped)]
    BY <1>1, GettingFacts
  <2>4. CASE k # id
    <3>1. channel'[k] = channel[k]
      BY <1>5, <2>2, <2>3, <2>4 DEF FlushGroup
    <3>2. buffer'[k] = buffer[k]
      BY <1>1, <2>1, <2>4 DEF SignalTypes
    <3> QED BY <1>2, <2>1, <2>2, <3>1, <3>2
  <2>5. CASE k = id
    <3>1. PICK in \in Stamped : in = Point(t, buffer[id][t]) /\ in.tick = t /\ in.sample = buffer[id][t]
      BY <1>1, <2>1, PointType DEF Point
    <3>2. channel'[k] = Append(channel[k], in)
      <4>1. ~(Len(ChannelsWith(id)[id]) >= ChannelSize)
        BY <1>5, <2>5 DEF FlushGroup
      <4>2. channel' = [ChannelsWith(id) EXCEPT ![id] = Append(ChannelsWith(id)[id], in)]
        BY <1>5, <3>1, <4>1 DEF FlushGroup
      <4> QED BY <2>2, <2>3, <2>5, <4>2
    <3>3. PICK x \in Stamped : x = Top(k) /\ x.tick \in Ticks
      BY <1>1, TopType
    <3>4. Top(k)' = x
      BY <2>1, <3>3 DEF Top
    <3>5. Sent(k) /\ channel[k] \in Seq(Stamped)
      BY <1>1, <2>1 DEF Delivered, SignalTypes
    <3>6. \A u \in Ticks : buffer'[k][u] = IF u = t THEN 0 ELSE buffer[k][u]
      BY <1>1, <2>1, <2>5 DEF SignalTypes
    <3>7. \A u \in Ticks : buffer'[k][u] # 0 => u <= x.tick
      BY <3>3, <3>5, <3>6 DEF Sent
    <3>8. CASE t = x.tick
      <4>1. buffer[k][x.tick] = x.sample /\ Waiting(procs[k], channel[k], x)
        BY <2>1, <2>5, <3>3, <3>5, <3>8 DEF Sent
      <4>2. in = x
        BY <2>5, <3>1, <3>8, <4>1 DEF Stamped
      <4>3. Underway(procs[k], Append(channel[k], in), x)
        BY <3>5, <4>1, <4>2, Sending
      <4> QED BY <2>2, <3>2, <3>3, <3>4, <3>6, <3>7, <3>8, <4>3 DEF Sent
    <3>9. CASE t # x.tick
      <4>1. in.tick < x.tick
        <5>1. t <= x.tick
          BY <2>1, <2>5, <3>3, <3>5 DEF Sent
        <5>2. t \in Nat /\ x.tick \in Nat
          BY <3>3, SignalAssumption DEF Ticks
        <5> QED BY <3>1, <3>9, <5>1, <5>2
      <4>2. buffer'[k][x.tick] = buffer[k][x.tick]
        BY <3>3, <3>6, <3>9
      <4>3. IF buffer[k][x.tick] = 0
            THEN Underway(procs[k], Append(channel[k], in), x)
            ELSE buffer[k][x.tick] = x.sample /\ Waiting(procs[k], Append(channel[k], in), x)
        BY <3>3, <3>5, <4>1, Sending DEF Sent
      <4> QED BY <2>2, <3>2, <3>4, <3>7, <4>2, <4>3 DEF Sent
    <3> QED BY <3>8, <3>9
  <2> QED BY <2>4, <2>5
<1>6. CASE FlushEnds
  BY <1>2, <1>6 DEF FlushEnds, input, manager
<1>7. ASSUME NEW id \in NodeIDs, ReadState(id) PROVE Sent(k)'
  <2>1. /\ phase = "state" /\ k \notin lost /\ k \notin EvictOne(id)
        /\ procs' = ProcsWith(id) /\ channel' = ChannelsWith(id) /\ UNCHANGED <<rows, samples, buffer>>
    BY <1>7 DEF ReadState, input
  <2> QED BY <1>2, <1>4, <2>1
<1>8. CASE ReadColumn
  <2>1. PICK c \in NodeIDs : c = Current
    BY <1>1, <1>8, CurrentFacts DEF ReadColumn
  <2>2. /\ phase = "matrix" /\ k \notin lost /\ k \notin EvictOne(c)
        /\ procs' = ProcsWith(c) /\ channel' = ChannelsWith(c) /\ UNCHANGED <<rows, samples, buffer>>
    BY <1>8, <2>1 DEF ReadColumn, input
  <2> QED BY <1>2, <1>4, <2>2
<1>9. ASSUME NEW id \in NodeIDs, Work(id) PROVE Sent(k)'
  <2>1. /\ channel[id] # << >> /\ procs' = [procs EXCEPT ![id] = Process(procs[id], Head(channel[id]), rows)]
        /\ channel' = [channel EXCEPT ![id] = Tail(channel[id])]
        /\ UNCHANGED <<rows, samples, phase, todo, buffer, lost>>
    BY <1>9 DEF Work, input
  <2>2. CASE k # id
    BY <1>1, <1>2, <2>1, <2>2 DEF SignalTypes
  <2>3. CASE k = id
    <3>1. Sent(k)
      BY <1>1, <2>1 DEF Delivered
    <3>2. procs'[k] = Process(procs[k], Head(channel[k]), rows) /\ channel'[k] = Tail(channel[k])
      BY <1>1, <2>1, <2>3 DEF SignalTypes
    <3>3. PICK x \in Stamped : x = Top(k)
      BY <1>1, TopType
    <3>4. Top(k)' = x
      BY <2>1, <3>3 DEF Top
    <3>5. /\ procs[k] \in Processors /\ channel[k] \in Seq(Stamped) /\ Contiguous(procs[k], rows) /\ rows \in Nat \ {0}
      BY <1>1 DEF SignalTypes, Windows
    <3>6. /\ Waiting(procs[k], channel[k], x) => Waiting(procs'[k], channel'[k], x)
          /\ Underway(procs[k], channel[k], x) => Underway(procs'[k], channel'[k], x)
      BY <2>1, <2>3, <3>2, <3>5, Working
    <3> QED BY <2>1, <3>1, <3>3, <3>4, <3>6 DEF Sent
  <2> QED BY <2>2, <2>3
<1>10. CASE UNCHANGED signalVars
  BY <1>2, <1>10 DEF signalVars, input, manager
<1> QED BY <1>3, <1>5, <1>6, <1>7, <1>8, <1>9, <1>10 DEF SignalNext, Phase1

LEMMA ColumnedStep == Arriving /\ [SignalNext]_signalVars => Columned'
<1> SUFFICES ASSUME Arriving, [SignalNext]_signalVars, NEW k \in NodeIDs, k \notin lost' \union undrained',
                    phase' \in {"matrix", "done"}, k \notin todo', samples'[k] # << >>
             PROVE  columns'[k][rows'] = Top(k)'
  BY DEF Columned
<1>1. /\ Shaped /\ SignalTypes /\ Windows /\ Flushed /\ Delivered /\ Columned
      /\ samples' = samples /\ samples[k] # << >>
  BY InputSame DEF Arriving, Shaped
<1>2. ASSUME k \notin lost \union undrained, phase \in {"matrix", "done"}, k \notin todo, rows' = rows /\ samples' = samples,
             columns'[k] = columns[k]
      PROVE  columns'[k][rows'] = Top(k)'
  BY <1>1, <1>2 DEF Columned, Top
<1>3. CASE ReadColumn
  <2>1. PICK c \in NodeIDs : c = Current
    BY <1>1, <1>3, CurrentFacts DEF ReadColumn
  <2>2. /\ phase = "matrix" /\ todo' = todo \ {c}
        /\ lost' = lost \union EvictOne(c) /\ undrained' = undrained \union Behind(c)
        /\ columns' = [columns EXCEPT ![c] = Column(ProcsWith(c)[c], rows)]
        /\ rows' = rows /\ samples' = samples
    BY <1>3, <2>1 DEF ReadColumn, Rest, input
  <2>3. CASE k # c
    BY <1>1, <1>2, <2>2, <2>3 DEF SignalTypes
  <2>4. CASE k = c
    <3>1. k \notin EvictOne(c) /\ k \notin lost /\ ChannelsWith(c)[c] = << >>
      BY <2>2, <2>4 DEF Behind
    <3>2. ProcsWith(c)[c] = procs[k] /\ channel[k] = << >>
      BY <1>1, <2>4, <3>1, GettingFacts
    <3>3. Sent(k)
      BY <1>1, <2>2, <3>1 DEF Delivered
    <3>4. PICK x \in Stamped : x = Top(k) /\ x.tick \in Ticks
      BY <1>1, TopType
    <3>5. buffer[k][x.tick] = 0
      BY <1>1, <2>2, <3>4 DEF Flushed
    <3>6. Underway(procs[k], << >>, x)
      BY <3>2, <3>3, <3>4, <3>5 DEF Sent
    <3>7. procs[k].window # << >> /\ Last(procs[k].window) = x
      BY <3>6 DEF Underway
    <3>8. procs[k] \in Processors /\ Contiguous(procs[k], rows) /\ rows \in Nat \ {0}
      BY <1>1 DEF SignalTypes, Windows
    <3>9. Column(procs[k], rows)[rows] = x
      BY <3>7, <3>8, ColumnType DEF Contiguous
    <3>10. columns'[k] = Column(procs[k], rows)
      BY <1>1, <2>2, <2>4, <3>2 DEF SignalTypes
    <3> QED BY <2>2, <3>4, <3>9, <3>10 DEF Top
  <2> QED BY <2>3, <2>4
<1>4. ASSUME NEW id \in NodeIDs, Work(id) PROVE columns'[k][rows'] = Top(k)'
  BY <1>2, <1>4 DEF Work, input, result
<1>5. CASE UNCHANGED signalVars
  BY <1>2, <1>5 DEF signalVars, input, result
<1>6. ~FlushEnds /\ ~AddSamples
  BY DEF FlushEnds, AddSamples
<1>7. ASSUME NEW id \in NodeIDs, ReadState(id) PROVE FALSE
  BY <1>7 DEF ReadState
<1>8. ASSUME NEW id \in NodeIDs, NEW t \in Ticks, FlushGroup(id, t) PROVE FALSE
  BY <1>8 DEF FlushGroup
<1> QED BY <1>3, <1>4, <1>5, <1>6, <1>7, <1>8 DEF SignalNext, Phase1

LEMMA ArrivingInit == SignalInit => Arriving
<1> SUFFICES ASSUME SignalInit PROVE Arriving
  OBVIOUS
<1>1. Shaped
  BY ShapedInit
<1>2. /\ phase = "add" /\ todo = NodeIDs /\ pool = << >>
      /\ \A id \in NodeIDs, t \in Ticks : buffer[id][t] = 0
  BY DEF SignalInit
<1> QED BY <1>1, <1>2 DEF Arriving, Adding, Flushed, Delivered, Columned

LEMMA ArrivingStep == Arriving /\ [SignalNext]_signalVars => Arriving'
  BY ShapedStep, AddingStep, FlushedStep, DeliveredStep, ColumnedStep DEF Arriving

\* In whatever order the flush walks its maps and however the workers are
\* scheduled, a window is a gapless run of ticks, and a column that was read
\* from a drained processor ends with the newest sample of its node.
THEOREM WindowsAreContiguous == SignalSpec => []WindowIsContiguous
<1>1. Arriving => WindowIsContiguous
  <2> SUFFICES ASSUME Arriving PROVE WindowIsContiguous
    OBVIOUS
  <2>1. ASSUME NEW id \in NodeIDs PROVE Contiguous(procs[id], rows)
    BY DEF Arriving, Shaped, Windows
  <2>2. ASSUME phase = "done", NEW id \in NodeIDs \ (lost \union undrained), samples[id] # << >>
        PROVE  columns[id][rows] = Point(Last(samples[id]), Len(samples[id]))
    BY <2>2 DEF Arriving, Columned, Shaped, SignalTypes, Top
  <2> QED BY <2>1, <2>2 DEF Contiguous, WindowIsContiguous
<1> QED BY <1>1, ArrivingInit, ArrivingStep, PTL DEF SignalSpec

-----------------------------------------------------------------------------
(***************************************************************************)
(* What may be lost.  No node has more inputs in its buffer and its        *)
(* channel than it has samples.                                            *)
(***************************************************************************)

Held(id) == {t \in Ticks : buffer[id][t] # 0}

Counted == \A id \in NodeIDs : Cardinality(Held(id)) + Len(channel[id]) <= Len(samples[id])

LEMMA HeldFinite == ASSUME NEW S, S \subseteq Ticks PROVE IsFiniteSet(S) /\ Cardinality(S) \in Nat
<1>1. IsFiniteSet(Ticks)
  BY SignalAssumption, FS_Interval DEF Ticks
<1> QED BY <1>1, FS_Subset, FS_CardinalityType

\* A tick of the buffer stands for a sample of its own.
LEMMA HeldAggregate ==
    ASSUME samples \in [NodeIDs -> Arrivals], NEW id \in NodeIDs
    PROVE  Cardinality({t \in Ticks : Aggregate(id, t) # 0}) <= Len(samples[id])
<1> DEFINE S == {t \in Ticks : Aggregate(id, t) # 0}
           T == 1..Len(samples[id])
           f == [t \in S |-> Aggregate(id, t)]
<1>1. Len(samples[id]) \in Nat
  BY SamplesFacts, SignalAssumption
<1>2. \A t \in S : Aggregate(id, t) \in T /\ samples[id][Aggregate(id, t)] = t
  BY <1>1, AggregateFacts
<1>3. f \in Injection(S, T)
  <2>1. f \in [S -> T]
    BY <1>2
  <2>2. IsInjective(f)
    BY <1>2 DEF IsInjective
  <2> QED BY <2>1, <2>2 DEF Injection
<1>4. IsFiniteSet(T) /\ Cardinality(T) = Len(samples[id])
  <2>1. PICK a \in Int, b \in Int : a = 1 /\ b = Len(samples[id])
    BY <1>1
  <2>2. IsFiniteSet(a..b) /\ Cardinality(a..b) = IF a > b THEN 0 ELSE b - a + 1
    BY FS_Interval
  <2>3. T = a..b
    BY <2>1
  <2>4. (IF a > b THEN 0 ELSE b - a + 1) = b
    BY <1>1, <2>1
  <2> QED BY <2>1, <2>2, <2>3, <2>4
<1> HIDE DEF S, T, f
<1>5. Cardinality(S) <= Cardinality(T)
  BY <1>3, <1>4, FS_Injection
<1> QED BY <1>4, <1>5 DEF S

LEMMA CountedStep == Shaped /\ Adding /\ Counted /\ [SignalNext]_signalVars => Counted'
<1> SUFFICES ASSUME Shaped, Adding, Counted, [SignalNext]_signalVars, NEW k \in NodeIDs
             PROVE  Cardinality(Held(k))' + Len(channel'[k]) <= Len(samples'[k])
  BY DEF Counted
<1>1. SignalTypes /\ Fresh
  BY DEF Shaped
<1>2. /\ Cardinality(Held(k)) + Len(channel[k]) <= Len(samples[k])
      /\ Cardinality(Held(k)) \in Nat /\ Len(channel[k]) \in Nat /\ Len(samples[k]) \in Nat
  <2>1. Len(channel[k]) \in Nat /\ Len(samples[k]) \in Nat
    BY <1>1, SamplesFacts, SignalAssumption DEF SignalTypes
  <2> QED BY <2>1, HeldFinite DEF Counted, Held
<1> DEFINE Goal == Cardinality(Held(k))' + Len(channel'[k]) <= Len(samples'[k])
<1>3. ASSUME rows' = rows /\ samples' = samples, buffer'[k] = buffer[k], Len(channel'[k]) \in Nat, Len(channel'[k]) <= Len(channel[k])
      PROVE  Goal
  <2>1. Held(k)' = Held(k)
    BY <1>3 DEF Held
  <2> QED BY <1>2, <1>3, <2>1
<1>4. ASSUME rows' = rows /\ samples' = samples, buffer'[k] = buffer[k], channel'[k] = channel[k] PROVE Goal
  BY <1>2, <1>3, <1>4
<1>5. ASSUME NEW id \in NodeIDs
      PROVE  Len(ChannelsWith(id)[k]) \in Nat /\ Len(ChannelsWith(id)[k]) <= Len(channel[k])
  <2>1. ChannelsWith(id)[k] = << >> \/ ChannelsWith(id)[k] = channel[k]
    BY GettingFacts
  <2>2. Len(<< >>) = 0
    OBVIOUS
  <2> QED BY <1>2, <2>1, <2>2
<1>6. CASE AddSamples
  <2>1. PICK c \in NodeIDs : c = Current
    BY <1>1, <1>6, CurrentFacts DEF AddSamples
  <2>2. /\ phase = "add" /\ buffer' = [buffer EXCEPT ![c] = [t \in Ticks |-> Aggregate(c, t)]]
        /\ UNCHANGED <<rows, samples, channel>>
    BY <1>6, <2>1 DEF AddSamples, Aggregate, input, manager
  <2>3. CASE k # c
    BY <1>1, <1>4, <2>2, <2>3 DEF SignalTypes
  <2>4. CASE k = c
    <3>1. channel[k] = << >>
      BY <1>1, <2>2 DEF Adding, Fresh, ToSet
    <3>2. Held(k)' = {t \in Ticks : Aggregate(k, t) # 0}
      BY <1>1, <2>2, <2>4 DEF SignalTypes, Held
    <3>3. Cardinality(Held(k)') <= Len(samples[k]) /\ Cardinality(Held(k)') \in Nat
      BY <1>1, <3>2, HeldAggregate, HeldFinite DEF SignalTypes
    <3>4. Len(channel'[k]) = 0
      BY <2>2, <3>1
    <3> QED BY <1>2, <2>2, <3>3, <3>4
  <2> QED BY <2>3, <2>4
<1>7. ASSUME NEW id \in NodeIDs, NEW t \in Ticks, FlushGroup(id, t) PROVE Goal
  <2>1. buffer[id][t] # 0 /\ rows' = rows /\ samples' = samples /\ buffer' = [buffer EXCEPT ![id][t] = 0]
    BY <1>7 DEF FlushGroup, input
  <2>2. ChannelsWith(id) \in [NodeIDs -> Seq(Stamped)]
    BY GettingFacts
  <2>3. PICK ch \in [NodeIDs -> Seq(Stamped)] : ch = ChannelsWith(id)
    BY <2>2
  <2>4. channel' = ch \/ channel' = [ch EXCEPT ![id] = Append(ch[id], Point(t, buffer[id][t]))]
    BY <1>7, <2>3 DEF FlushGroup
  <2>5. Len(ch[k]) \in Nat /\ Len(ch[k]) <= Len(channel[k])
    BY <1>5, <2>3
  <2>6. CASE k # id
    <3>1. channel'[k] = ch[k]
      BY <2>3, <2>4, <2>6
    <3>2. buffer'[k] = buffer[k]
      BY <1>1, <2>1, <2>6 DEF SignalTypes
    <3> QED BY <1>3, <2>1, <2>5, <3>1, <3>2
  <2>7. CASE k = id
    <3>1. Len(channel'[k]) \in Nat /\ Len(channel'[k]) <= Len(channel[k]) + 1
      <4>1. channel'[k] = ch[k] \/ channel'[k] = Append(ch[k], Point(t, buffer[id][t]))
        BY <2>3, <2>4, <2>7
      <4>2. ch[k] \in Seq(Stamped) /\ Point(t, buffer[id][t]) \in Stamped
        BY <1>1, <2>1, <2>3, PointType
      <4>3. Len(Append(ch[k], Point(t, buffer[id][t]))) = Len(ch[k]) + 1
        BY <4>2
      <4> QED BY <1>2, <2>5, <4>1, <4>3
    <3>2. Held(k)' = Held(k) \ {t} /\ t \in Held(k)
      BY <1>1, <2>1, <2>7 DEF SignalTypes, Held
    <3>3. IsFiniteSet(Held(k))
      BY HeldFinite DEF Held
    <3>4. Cardinality(Held(k)') = Cardinality(Held(k)) - 1
      BY <3>2, <3>3, FS_RemoveElement
    <3> QED BY <1>2, <2>1, <3>1, <3>4
  <2> QED BY <2>6, <2>7
<1>8. CASE FlushEnds
  BY <1>4, <1>8 DEF FlushEnds, input, manager
<1>9. ASSUME NEW id \in NodeIDs, ReadState(id) PROVE Goal
  <2>1. channel' = ChannelsWith(id) /\ UNCHANGED <<rows, samples, buffer>>
    BY <1>9 DEF ReadState, input
  <2> QED BY <1>3, <1>5, <2>1
<1>10. CASE ReadColumn
  <2>1. PICK c \in NodeIDs : c = Current
    BY <1>1, <1>10, CurrentFacts DEF ReadColumn
  <2>2. channel' = ChannelsWith(c) /\ UNCHANGED <<rows, samples, buffer>>
    BY <1>10, <2>1 DEF ReadColumn, input
  <2> QED BY <1>3, <1>5, <2>2
<1>11. ASSUME NEW id \in NodeIDs, Work(id) PROVE Goal
  <2>1. /\ channel[id] # << >> /\ channel' = [channel EXCEPT ![id] = Tail(channel[id])]
        /\ UNCHANGED <<rows, samples, buffer>>
    BY <1>11 DEF Work, input
  <2>2. channel[id] \in Seq(Stamped)
    BY <1>1 DEF SignalTypes
  <2>3. Len(Tail(channel[id])) = Len(channel[id]) - 1 /\ Len(channel[id]) \in Nat \ {0}
    BY <2>1, <2>2, HeadTailProperties
  <2>4. channel'[k] = IF k = id THEN Tail(channel[id]) ELSE channel[k]
    BY <1>1, <2>1 DEF SignalTypes
  <2> QED BY <1>2, <1>3, <2>1, <2>3, <2>4
<1>12. CASE UNCHANGED signalVars
  BY <1>4, <1>12 DEF signalVars, input, manager
<1> QED BY <1>6, <1>7, <1>8, <1>9, <1>10, <1>11, <1>12 DEF SignalNext, Phase1

\* With as many processors as nodes none has to go.
LEMMA NoEviction ==
    ASSUME SignalTypes, Cardinality(NodeIDs) <= maxProcessors, NEW id \in NodeIDs
    PROVE  EvictOne(id) = {}
<1>1. CASE id \in ToSet(pool)
  BY <1>1 DEF EvictOne
<1>2. CASE id \notin ToSet(pool)
  <2>1. pool \in Seq(NodeIDs) /\ IsInjective(pool) /\ Len(pool) \in Nat /\ DOMAIN pool = 1..Len(pool)
        /\ maxProcessors \in Nat
    BY DEF SignalTypes
  <2>2. \A i \in 1..Len(pool) : pool[i] \in NodeIDs \ {id}
    BY <1>2, <2>1 DEF ToSet
  <2>3. pool \in [1..Len(pool) -> NodeIDs \ {id}]
    BY <2>1, <2>2
  <2>4. PICK f : f = pool
    OBVIOUS
  <2>5. f \in Injection(1..Len(pool), NodeIDs \ {id})
    BY <2>1, <2>3, <2>4 DEF Injection
  <2>6. IsFiniteSet(NodeIDs \ {id}) /\ Cardinality(NodeIDs \ {id}) = Cardinality(NodeIDs) - 1 /\ Cardinality(NodeIDs) \in Nat
    <3>1. IsFiniteSet(NodeIDs)
      BY SignalAssumption
    <3>2. Cardinality(NodeIDs) \in Nat
      BY <3>1, FS_CardinalityType
    <3>3. IsFiniteSet(NodeIDs \ {id}) /\ Cardinality(NodeIDs \ {id}) = Cardinality(NodeIDs) - 1
      BY <3>1, FS_RemoveElement
    <3> QED BY <3>2, <3>3
  <2>7. Cardinality(1..Len(pool)) = Len(pool)
    <3>1. PICK n \in Nat : n = Len(pool)
      BY <2>1
    <3>2. 1 \in Int /\ n \in Int
      OBVIOUS
    <3>3. Cardinality(1..n) = IF 1 > n THEN 0 ELSE n - 1 + 1
      BY <3>2, FS_Interval
    <3>4. Cardinality(1..n) = n
      BY <3>3
    <3> QED BY <3>1, <3>4
  <2>8. Cardinality(1..Len(pool)) <= Cardinality(NodeIDs \ {id})
    BY <2>5, <2>6, FS_Injection
  <2>9. Len(pool) < maxProcessors
    BY <2>1, <2>6, <2>7, <2>8
  <2> QED BY <2>9 DEF EvictOne
<1> QED BY <1>1, <1>2

LEMMA NothingLostStep ==
    Shaped /\ Counted /\ NothingLostWithinLimits /\ [SignalNext]_signalVars => NothingLostWithinLimits'
<1> SUFFICES ASSUME Shaped, Counted, NothingLostWithinLimits, [SignalNext]_signalVars,
                    Cardinality(NodeIDs) <= maxProcessors', \A id \in NodeIDs : Len(samples'[id]) <= ChannelSize
             PROVE  lost' = {}
  BY DEF NothingLostWithinLimits
<1>1. SignalTypes
  BY DEF Shaped
<1>2. UNCHANGED <<rows, samples, maxProcessors>>
  BY InputSame
<1>3. /\ Cardinality(NodeIDs) <= maxProcessors /\ lost = {}
      /\ \A id \in NodeIDs : Len(samples[id]) <= ChannelSize
  BY <1>2 DEF NothingLostWithinLimits
<1>4. ASSUME NEW id \in NodeIDs, NEW t \in Ticks, FlushGroup(id, t) PROVE lost' = {}
  <2>1. EvictOne(id) = {}
    BY <1>1, <1>3, NoEviction
  <2>2. ChannelsWith(id)[id] = channel[id]
    BY <2>1, GettingFacts
  <2>3. t \in Held(id)
    BY <1>4 DEF FlushGroup, Held
  <2>4. IsFiniteSet(Held(id)) /\ Cardinality(Held(id)) \in Nat
    BY HeldFinite DEF Held
  <2>5. Cardinality(Held(id)) # 0
    BY <2>3, <2>4, FS_EmptySet
  <2>6. /\ Cardinality(Held(id)) + Len(channel[id]) <= Len(samples[id]) /\ Len(samples[id]) <= ChannelSize
        /\ Len(channel[id]) \in Nat /\ Len(samples[id]) \in Nat
    BY <1>1, <1>3, SamplesFacts, SignalAssumption DEF Counted, SignalTypes
  <2>7. ~(Len(channel[id]) >= ChannelSize)
    BY <1>3, <2>4, <2>5, <2>6, SignalAssumption
  <2> QED BY <1>3, <1>4, <2>1, <2>2, <2>7 DEF FlushGroup
<1>5. ASSUME NEW id \in NodeIDs, ReadState(id) PROVE lost' = {}
  BY <1>1, <1>3, <1>5, NoEviction DEF ReadState
<1>6. CASE ReadColumn
  <2>1. Current \in NodeIDs
    BY <1>1, <1>6, CurrentFacts DEF ReadColumn
  <2> QED BY <1>1, <1>3, <1>6, <2>1, NoEviction DEF ReadColumn
<1> QED
  BY <1>3, <1>4, <1>5, <1>6 DEF SignalNext, Phase1, AddSamples, FlushEnds, Work, signalVars

\* As long as there are no more nodes than processors and no more samples than
\* places in a channel, no input is refused and no processor thrown out.
THEOREM NothingIsLost == SignalSpec => []NothingLostWithinLimits
<1>1. SignalInit => Counted /\ NothingLostWithinLimits
  <2> SUFFICES ASSUME SignalInit PROVE Counted /\ NothingLostWithinLimits
    OBVIOUS
  <2>1. ASSUME NEW id \in NodeIDs PROVE Cardinality(Held(id)) + Len(channel[id]) <= Len(samples[id])
    <3>1. Held(id) = {} /\ Len(channel[id]) = 0 /\ samples \in [NodeIDs -> Arrivals]
      BY DEF SignalInit, Held
    <3>2. Cardinality(Held(id)) = 0
      BY <3>1, FS_EmptySet
    <3>3. Len(samples[id]) \in Nat
      BY <3>1, SamplesFacts, SignalAssumption
    <3> QED BY <3>1, <3>2, <3>3
  <2> QED BY <2>1 DEF Counted, SignalInit, NothingLostWithinLimits
<1>2. Arriving => Shaped /\ Adding
  BY DEF Arriving
<1> QED BY <1>1, <1>2, ArrivingInit, ArrivingStep, CountedStep, NothingLostStep, PTL DEF SignalSpec
=============================================================================
