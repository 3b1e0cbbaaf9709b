-------------------------- MODULE Collector_proofs --------------------------
(***************************************************************************)
(* What the collector guarantees for every set of containers and names,    *)
(* every window size and any number of renames and failed listings.        *)
(***************************************************************************)
EXTENDS Collector, SequenceTheorems, TLAPS

NameOrNone == NodeIDs \union {NoName}

\* n's window has a sample of container id.
Holds(n, id) == \E i \in DOMAIN nodes[n] : nodes[n][i] = id

Typed ==
    /\ nodes \in [NodeIDs -> Seq(Samples)]
    /\ name \in [IDs -> Names \union {NoName}]
    /\ created \subseteq IDs /\ up \subseteq created
    /\ pc \in {"wait", "collect"} /\ failures \in 0..MaxFailures
    /\ listed \in [IDs -> NameOrNone] /\ idToName \in [IDs -> NameOrNone]
    /\ baseline \in [IDs -> {"none", "new", "primed"}]
    /\ task \in [IDs -> {"done", "fetch", "check", "put"}]

\* Docker: unique names, and none for a container never created.
Docked ==
    /\ \A a, b \in IDs : name[a] = name[b] /\ name[a] # NoName => a = b
    /\ \A a \in IDs : a \notin created => name[a] = NoName /\ idToName[a] = NoName

\* What the loop tracks, and under which names.
Tracking ==
    /\ \A id \in IDs : baseline[id] # "none" <=> idToName[id] # NoName
    /\ \A id \in IDs : listed[id] # NoName => idToName[id] = listed[id]
    /\ \A id \in IDs : task[id] # "done" => listed[id] # NoName
    /\ \A a, b \in IDs : listed[a] = listed[b] /\ listed[a] # NoName => a = b

\* A container that was not renamed is tracked under the name it has.
NotRenamed ==
    \A id \in IDs : id \notin renamed /\ idToName[id] # NoName /\ name[id] # NoName =>
        idToName[id] = name[id]

\* Between two polls nothing is listed and the tracked names are distinct.
Waiting ==
    pc = "wait" =>
        /\ \A id \in IDs : listed[id] = NoName
        /\ \A a, b \in IDs : idToName[a] = idToName[b] /\ idToName[a] # NoName => a = b

\* Docker samples lie under the tracked name.
Owned ==
    \A n \in NodeIDs, id \in IDs : Holds(n, id) => id \in renamed \/ idToName[id] = n

\* A listed container that has the name of a dead one is new: it has nothing in
\* the store and this poll will add nothing.
Succeeding ==
    \A a, d \in IDs :
        /\ listed[a] # NoName /\ listed[d] = NoName /\ idToName[d] = idToName[a]
        /\ a \notin renamed
        => /\ \A n \in NodeIDs : ~Holds(n, a)
           /\ task[a] \in {"done", "fetch"}
           /\ task[a] = "fetch" => baseline[a] = "new"

\* A goroutine about to put over a fresh OTLP sample was overtaken by it.
Overtaken == \A id \in IDs : task[id] = "put" /\ FreshOTLP(listed[id]) => id \in arrived

Base == Typed /\ Docked /\ Tracking /\ NotRenamed /\ Waiting
IInv == Base /\ Owned /\ Succeeding /\ Overtaken

-----------------------------------------------------------------------------
\* A window after a Put is not empty, ends with the sample put, and has no
\* sample that is neither that one nor an old one.
LEMMA Putting ==
    ASSUME NEW s \in Seq(Samples), NEW x \in Samples
    PROVE  /\ Trimmed(s, x) \in Seq(Samples)
           /\ Trimmed(s, x) # << >>
           /\ Trimmed(s, x)[Len(Trimmed(s, x))] = x
           /\ \A i \in DOMAIN Trimmed(s, x) :
                Trimmed(s, x)[i] = x \/ \E j \in DOMAIN s : s[j] = Trimmed(s, x)[i]
<1> DEFINE a == Append(s, x)
           k == WindowSize
<1>1. k \in Nat \ {0}
  BY StoreAssumption DEF WindowSize
<1>2. a \in Seq(Samples) /\ Len(a) = Len(s) + 1 /\ Len(s) \in Nat /\ a[Len(a)] = x
  OBVIOUS
<1>3. \A i \in 1..Len(a) : a[i] = x \/ \E j \in DOMAIN s : s[j] = a[i]
  OBVIOUS
<1> HIDE DEF a, k
<1>4. CASE Len(a) > k
  <2>1. Trimmed(s, x) = SubSeq(a, Len(a) - k + 1, Len(a))
    BY <1>4 DEF Trimmed, LastOf, a, k
  <2>2. Len(a) - k + 1 \in 1..Len(a)
    BY <1>1, <1>2, <1>4
  <2>3. /\ SubSeq(a, Len(a) - k + 1, Len(a)) \in Seq(Samples)
        /\ Len(SubSeq(a, Len(a) - k + 1, Len(a))) = k
        /\ \A i \in 1..k : SubSeq(a, Len(a) - k + 1, Len(a))[i] = a[Len(a) - k + i]
    <3> DEFINE m == Len(a) - k + 1
               z == Len(a)
    <3>1. m \in 1..(z + 1) /\ z \in Nat /\ m..z \subseteq 1..z /\ z - m + 1 = k
      BY <1>1, <1>2, <2>2
    <3>2. \A i \in 1..k : m + i - 1 = Len(a) - k + i
      BY <1>1, <1>2
    <3> HIDE DEF m
    <3>3. /\ SubSeq(a, m, z) \in Seq(Samples) /\ Len(SubSeq(a, m, z)) = k
          /\ \A i \in 1..k : SubSeq(a, m, z)[i] = a[m + i - 1]
      BY <1>2, <3>1, SubSeqProperties
    <3> QED BY <3>2, <3>3 DEF m
  <2>4. \A i \in 1..k : Len(a) - k + i \in 1..Len(a)
    BY <1>1, <1>2, <1>4
  <2>5. Len(a) - k + k = Len(a) /\ k \in 1..k
    BY <1>1, <1>2
  <2> DEFINE u == SubSeq(a, Len(a) - k + 1, Len(a))
  <2>6. u \in Seq(Samples) /\ Len(u) = k /\ \A i \in 1..k : u[i] = a[Len(a) - k + i]
    BY <2>3
  <2>7. Trimmed(s, x) = u
    BY <2>1
  <2> HIDE DEF u
  <2>8. u # << >>
    BY <1>1, <2>6
  <2>9. u[Len(u)] = x
    BY <1>2, <2>5, <2>6
  <2>10. DOMAIN u = 1..k
    BY <2>6
  <2>11. \A i \in DOMAIN u : u[i] = x \/ \E j \in DOMAIN s : s[j] = u[i]
    BY <1>3, <2>4, <2>6, <2>10
  <2> QED BY <2>6, <2>7, <2>8, <2>9, <2>11
<1>5. CASE ~(Len(a) > k)
  <2>1. Trimmed(s, x) = a
    BY <1>5 DEF Trimmed, LastOf, a, k
  <2> QED BY <1>2, <1>3, <2>1
<1> QED BY <1>4, <1>5

\* What a Put of x under n does to the store.
LEMMA PutEffect ==
    ASSUME Typed, NEW n \in NodeIDs, NEW x \in Samples, Put(n, x)
    PROVE  /\ nodes' \in [NodeIDs -> Seq(Samples)]
           /\ nodes'[n] # << >> /\ nodes'[n][Len(nodes'[n])] = x
           /\ \A m \in NodeIDs : m # n => nodes'[m] = nodes[m]
           /\ \A m \in NodeIDs, id \in IDs :
                Holds(m, id)' => Holds(m, id) \/ (m = n /\ id = x)
<1>1. nodes \in [NodeIDs -> Seq(Samples)]
  BY DEF Typed
<1>2. nodes' = [nodes EXCEPT ![n] = Trimmed(nodes[n], x)]
  BY DEF Put
<1>3. nodes[n] \in Seq(Samples)
  BY <1>1
<1>4. /\ Trimmed(nodes[n], x) \in Seq(Samples)
      /\ Trimmed(nodes[n], x) # << >>
      /\ Trimmed(nodes[n], x)[Len(Trimmed(nodes[n], x))] = x
      /\ \A i \in DOMAIN Trimmed(nodes[n], x) :
           \/ Trimmed(nodes[n], x)[i] = x
           \/ \E j \in DOMAIN nodes[n] : nodes[n][j] = Trimmed(nodes[n], x)[i]
  BY <1>3, Putting
<1>5. nodes'[n] = Trimmed(nodes[n], x)
  BY <1>1, <1>2
<1>6. \A m \in NodeIDs : m # n => nodes'[m] = nodes[m]
  BY <1>1, <1>2
<1>7. ASSUME NEW m \in NodeIDs, NEW id \in IDs, Holds(m, id)'
      PROVE  Holds(m, id) \/ (m = n /\ id = x)
  <2>1. CASE m = n
    BY <1>4, <1>5, <1>7, <2>1 DEF Holds
  <2>2. CASE m # n
    BY <1>6, <1>7, <2>2 DEF Holds
  <2> QED BY <2>1, <2>2
<1>8. nodes' \in [NodeIDs -> Seq(Samples)]
  BY <1>1, <1>2, <1>4
<1> QED BY <1>4, <1>5, <1>6, <1>7, <1>8

LEMMA NamesApart == NoName \notin Names /\ NoName \notin NodeIDs /\ OTLP \notin IDs
                    /\ Samples = IDs \union {OTLP} /\ NodeIDs \subseteq Names
  BY CollectorAssumption DEF Names

LEMMA Initially == Init => IInv
<1> SUFFICES ASSUME Init PROVE IInv
  OBVIOUS
<1>1. nodes = [n \in NodeIDs |-> << >>]
  BY DEF Init, New
<1>2. \A n \in NodeIDs : nodes[n] = << >>
  BY <1>1
<1>3. \A n \in NodeIDs, id \in IDs : ~Holds(n, id)
  BY <1>2 DEF Holds
<1>4. \A id \in IDs : /\ name[id] = NoName /\ listed[id] = NoName /\ idToName[id] = NoName
                      /\ baseline[id] = "none" /\ task[id] = "done"
  BY DEF Init, Nameless
<1>5. Typed
  BY <1>1, CollectorAssumption DEF Init, Typed, Nameless, NameOrNone
<1>6. Docked /\ Tracking /\ NotRenamed /\ Waiting
  BY <1>4 DEF Docked, Tracking, NotRenamed, Waiting
<1>7. Owned /\ Succeeding /\ Overtaken
  BY <1>3, <1>4 DEF Owned, Succeeding, Overtaken
<1> QED BY <1>5, <1>6, <1>7 DEF IInv, Base

-----------------------------------------------------------------------------
(* One lemma per kind of step.                                             *)

\* Docker changes its containers; only the names of containers concern us.
LEMMA DockerSteps ==
    ASSUME IInv, NEW id \in IDs,
           \/ StartOrStop(id) \/ Destroy(id)
           \/ \E n \in Names : Create(id, n) \/ Rename(id, n)
    PROVE  IInv'
<1>1. UNCHANGED <<nodes, loop, fresh, arrived>> /\ renamed \subseteq renamed'
  BY DEF StartOrStop, Destroy, Create, Rename
<1>2. Typed'
  <2>1. CASE StartOrStop(id)
    BY <1>1, <2>1, NamesApart DEF IInv, Base, Typed, Docked, loop, StartOrStop
  <2>2. CASE Destroy(id)
    BY <1>1, <2>2 DEF IInv, Base, Typed, loop, Destroy
  <2>3. ASSUME NEW n \in Names, Create(id, n) PROVE Typed'
    BY <1>1, <2>3 DEF IInv, Base, Typed, loop, Create
  <2>4. ASSUME NEW n \in Names, Rename(id, n) PROVE Typed'
    BY <1>1, <2>4 DEF IInv, Base, Typed, loop, Rename
  <2> QED BY <2>1, <2>2, <2>3, <2>4
<1>3. Docked'
  <2>1. CASE StartOrStop(id)
    BY <1>1, <2>1 DEF IInv, Base, Docked, loop, StartOrStop
  <2>2. CASE Destroy(id)
    BY <1>1, <2>2 DEF IInv, Base, Typed, Docked, loop, Destroy
  <2>3. ASSUME NEW n \in Names, Create(id, n) PROVE Docked'
    BY <1>1, <2>3 DEF IInv, Base, Typed, Docked, loop, Create, Free
  <2>4. ASSUME NEW n \in Names, Rename(id, n) PROVE Docked'
    BY <1>1, <2>4 DEF IInv, Base, Typed, Docked, loop, Rename, Free
  <2> QED BY <2>1, <2>2, <2>3, <2>4
<1>4. NotRenamed'
  <2>1. CASE StartOrStop(id)
    BY <1>1, <2>1 DEF IInv, Base, NotRenamed, loop, StartOrStop
  <2>2. CASE Destroy(id)
    BY <1>1, <2>2 DEF IInv, Base, Typed, NotRenamed, loop, Destroy
  <2>3. ASSUME NEW n \in Names, Create(id, n) PROVE NotRenamed'
    BY <1>1, <2>3 DEF IInv, Base, Typed, Docked, NotRenamed, loop, Create
  <2>4. ASSUME NEW n \in Names, Rename(id, n) PROVE NotRenamed'
    BY <1>1, <2>4 DEF IInv, Base, Typed, NotRenamed, loop, Rename
  <2> QED BY <2>1, <2>2, <2>3, <2>4
<1>5. Tracking' /\ Waiting'
  BY <1>1 DEF IInv, Base, Tracking, Waiting, loop
<1>6. Owned' /\ Succeeding' /\ Overtaken'
  BY <1>1 DEF IInv, Owned, Succeeding, Overtaken, Holds, FreshOTLP, HasLatest,
              GetLatestSample, loop
<1> QED BY <1>2, <1>3, <1>4, <1>5, <1>6 DEF IInv, Base

\* The OTLP receiver adds nothing that belongs to a container.
LEMMA OTLPSteps ==
    ASSUME IInv, NEW n \in NodeIDs, ReceiveOTLP(n) \/ GrowOld(n)
    PROVE  IInv'
<1>1. UNCHANGED <<docker, loop>>
  BY DEF ReceiveOTLP, GrowOld
<1>2. (Docked /\ Tracking /\ NotRenamed /\ Waiting)'
  BY <1>1 DEF IInv, Base, Docked, Tracking, NotRenamed, Waiting, docker, loop
<1>3. CASE ReceiveOTLP(n)
  <2>1. Typed /\ Put(n, OTLP) /\ OTLP \in Samples
    BY <1>3, NamesApart DEF IInv, Base, ReceiveOTLP
  <2>2. /\ nodes' \in [NodeIDs -> Seq(Samples)]
        /\ \A m \in NodeIDs : m # n => nodes'[m] = nodes[m]
        /\ \A m \in NodeIDs, id \in IDs : Holds(m, id)' => Holds(m, id)
    BY <2>1, PutEffect, NamesApart
  <2>3. Typed'
    BY <1>1, <2>1, <2>2 DEF Typed, docker, loop
  <2>4. Owned' /\ Succeeding'
    BY <1>1, <2>2 DEF IInv, Owned, Succeeding, docker, loop
  <2>5. ASSUME NEW id \in IDs, task'[id] = "put", FreshOTLP(listed[id])' PROVE id \in arrived'
    <3>1. task[id] = "put" /\ listed'[id] = listed[id] /\ listed[id] \in NodeIDs
      BY <1>1, <2>1, <2>5 DEF IInv, Base, Tracking, Typed, loop, NameOrNone
    <3>2. CASE listed[id] = n
      BY <1>3, <3>1, <3>2 DEF ReceiveOTLP
    <3>3. CASE listed[id] # n
      <4>1. FreshOTLP(listed[id])
        BY <1>3, <2>2, <2>5, <3>1, <3>3 DEF ReceiveOTLP, FreshOTLP, HasLatest, GetLatestSample
      <4> QED BY <1>3, <3>1, <4>1 DEF IInv, Overtaken, ReceiveOTLP
    <3> QED BY <3>2, <3>3
  <2>6. Overtaken'
    BY <2>5 DEF Overtaken
  <2> QED BY <1>2, <2>3, <2>4, <2>6 DEF IInv, Base
<1>4. CASE GrowOld(n)
  <2>1. UNCHANGED <<nodes, arrived>> /\ fresh' \subseteq fresh
    BY <1>4 DEF GrowOld
  <2>2. Typed' /\ Owned' /\ Succeeding'
    BY <1>1, <2>1 DEF IInv, Base, Typed, Owned, Succeeding, Holds, docker, loop
  <2>3. Overtaken'
    BY <1>1, <2>1 DEF IInv, Overtaken, FreshOTLP, HasLatest, GetLatestSample, loop
  <2> QED BY <1>2, <2>2, <2>3 DEF IInv, Base
<1> QED BY <1>3, <1>4

\* A listing: who is found keeps its name or is renamed, and of two tracked
\* containers with one name the one found was not tracked before.
LEMMA ListStep == ASSUME IInv, List PROVE IInv'
<1> USE DEF IInv, Base
<1>1. /\ pc = "wait" /\ pc' = "collect"
      /\ UNCHANGED <<nodes, docker, failures, fresh, arrived>>
      /\ listed' = Listing
      /\ idToName' = [id \in IDs |-> IF id \in Found THEN Listing[id] ELSE idToName[id]]
      /\ baseline' = [id \in IDs |->
             IF id \in Found /\ baseline[id] = "none" THEN "new" ELSE baseline[id]]
      /\ task' = [id \in IDs |-> IF id \in Found THEN "fetch" ELSE "done"]
  BY DEF List
<1>2. \A id \in IDs :
        /\ Listing[id] \in NameOrNone /\ (id \in Found <=> Listing[id] # NoName)
        /\ id \in Found => Listing[id] = name[id] /\ name[id] \in NodeIDs
  BY NamesApart DEF Listing, Found, NameOrNone
<1>3. \A id \in IDs :
        /\ listed'[id] = Listing[id]
        /\ idToName'[id] = IF id \in Found THEN name[id] ELSE idToName[id]
        /\ baseline'[id] = IF id \in Found /\ baseline[id] = "none" THEN "new" ELSE baseline[id]
        /\ task'[id] = IF id \in Found THEN "fetch" ELSE "done"
  BY <1>1, <1>2
<1> HIDE DEF Listing, Found
<1>4. Typed'
  BY <1>1, <1>2, NamesApart DEF Typed, docker, NameOrNone, Listing
<1>5. Docked'
  BY <1>1, <1>2, <1>3, NamesApart DEF Typed, Docked, docker
<1>6. Tracking'
  BY <1>2, <1>3, NamesApart DEF Tracking, Docked
<1>7. NotRenamed'
  BY <1>1, <1>3 DEF NotRenamed, docker
<1>8. Waiting'
  BY <1>1 DEF Waiting
<1>9. ASSUME NEW id \in IDs, id \notin renamed, idToName[id] # NoName
      PROVE  idToName'[id] = idToName[id]
  BY <1>2, <1>3, <1>9, NamesApart DEF NotRenamed
<1>10. Owned'
  BY <1>1, <1>9, NamesApart DEF Owned, Holds, docker
<1>11. ASSUME NEW a \in IDs, NEW d \in IDs, listed'[a] # NoName, listed'[d] = NoName,
              idToName'[d] = idToName'[a], a \notin renamed
       PROVE  idToName[a] = NoName
  <2>1. a \in Found /\ d \notin Found /\ a # d /\ idToName[d] = name[a] /\ name[a] # NoName
    BY <1>2, <1>3, <1>11, NamesApart
  <2>2. idToName[a] # NoName => idToName[a] = idToName[d]
    BY <1>11, <2>1 DEF NotRenamed
  <2> QED BY <1>1, <2>1, <2>2 DEF Waiting
<1>12. Succeeding'
  <2> SUFFICES ASSUME NEW a \in IDs, NEW d \in IDs, listed'[a] # NoName, listed'[d] = NoName,
                      idToName'[d] = idToName'[a], a \notin renamed
               PROVE  /\ \A n \in NodeIDs : ~Holds(n, a)'
                      /\ task'[a] = "fetch" /\ baseline'[a] = "new"
    BY <1>1 DEF Succeeding, docker
  <2>1. idToName[a] = NoName
    BY <1>11
  <2>2. \A n \in NodeIDs : ~Holds(n, a)'
    BY <1>1, <2>1, NamesApart DEF Owned, Holds
  <2>3. a \in Found /\ baseline[a] = "none"
    BY <1>2, <1>3, <2>1 DEF Tracking
  <2> QED BY <1>3, <2>2, <2>3
<1>13. Overtaken'
  BY <1>3 DEF Overtaken
<1> QED BY <1>4, <1>5, <1>6, <1>7, <1>8, <1>10, <1>12, <1>13

\* A listing that fails changes nothing but its count.
LEMMA ListFailsStep == ASSUME IInv, ListFails PROVE IInv'
<1>1. /\ failures' = failures + 1 /\ failures < MaxFailures
      /\ UNCHANGED <<nodes, docker, pc, listed, baseline, idToName, task, fresh, arrived>>
  BY DEF ListFails
<1>2. Typed'
  BY <1>1, CollectorAssumption DEF IInv, Base, Typed, docker
<1> QED
  BY <1>1, <1>2 DEF IInv, Base, Docked, Tracking, NotRenamed, Waiting, Owned, Succeeding,
                    Overtaken, Holds, FreshOTLP, HasLatest, GetLatestSample, docker

\* What the steps of a goroutine have in common: its task goes on, nothing that
\* is tracked changes its name, and no baseline appears or disappears.
LEMMA GoroutineSteps ==
    ASSUME IInv, NEW id \in IDs, Fetch(id) \/ FetchFails(id) \/ Check(id) \/ PutSample(id)
    PROVE  /\ Base' /\ listed[id] \in NodeIDs
           /\ UNCHANGED <<docker, pc, listed, idToName, fresh>>
           /\ \A a \in IDs \ {id} : task'[a] = task[a] /\ baseline'[a] = baseline[a]
           /\ task'[id] # "fetch"
<1> USE DEF IInv, Base
<1>1. /\ UNCHANGED <<docker, pc, listed, idToName, failures, fresh>>
      /\ task[id] # "done"
      /\ \E to \in {"done", "check", "put"} : task' = [task EXCEPT ![id] = to]
      /\ \/ baseline' = baseline
         \/ baseline' = [baseline EXCEPT ![id] = "primed"]
  BY DEF Fetch, FetchFails, Check, PutSample, Goto
<1>2. listed[id] \in NodeIDs /\ idToName[id] = listed[id] /\ baseline[id] # "none"
  BY <1>1 DEF Tracking, Typed, NameOrNone
<1>3. /\ \A a \in IDs \ {id} : task'[a] = task[a] /\ baseline'[a] = baseline[a]
      /\ task'[id] \in {"done", "check", "put"} /\ baseline'[id] # "none"
  BY <1>1, <1>2 DEF Typed
<1>4. nodes' \in [NodeIDs -> Seq(Samples)]
  <2>1. CASE PutSample(id)
    BY <1>2, <2>1, NamesApart, PutEffect DEF PutSample
  <2>2. CASE nodes' = nodes
    BY <2>2 DEF Typed
  <2> QED BY <2>1, <2>2 DEF Fetch, FetchFails, Check, Goto
<1>5. Typed'
  BY <1>1, <1>4 DEF Typed, docker
<1>6. Tracking'
  BY <1>1, <1>2, <1>3, NamesApart DEF Tracking
<1>7. Docked' /\ NotRenamed' /\ Waiting'
  BY <1>1 DEF Docked, NotRenamed, Waiting, docker
<1> QED BY <1>1, <1>2, <1>3, <1>5, <1>6, <1>7

LEMMA FetchStep ==
    ASSUME IInv, NEW id \in IDs, Fetch(id) \/ FetchFails(id) PROVE IInv'
<1>1. /\ Base' /\ UNCHANGED <<docker, pc, listed, idToName, fresh>>
      /\ \A a \in IDs \ {id} : task'[a] = task[a] /\ baseline'[a] = baseline[a]
  BY GoroutineSteps
<1>2. /\ UNCHANGED <<nodes, arrived>> /\ task[id] = "fetch"
      /\ task' = [task EXCEPT ![id] = IF Fetch(id) /\ baseline[id] = "primed"
                                       THEN "check" ELSE "done"]
  BY DEF Fetch, FetchFails, Goto
<1>3. task'[id] = IF Fetch(id) /\ baseline[id] = "primed" THEN "check" ELSE "done"
  BY <1>2 DEF IInv, Base, Typed
<1>4. Owned'
  BY <1>1, <1>2 DEF IInv, Owned, Holds, docker
<1>5. Succeeding'
  <2> SUFFICES ASSUME NEW a \in IDs, NEW d \in IDs, listed'[a] # NoName, listed'[d] = NoName,
                      idToName'[d] = idToName'[a], a \notin renamed
               PROVE  /\ \A n \in NodeIDs : ~Holds(n, a)'
                      /\ task'[a] \in {"done", "fetch"}
                      /\ task'[a] = "fetch" => baseline'[a] = "new"
    BY <1>1 DEF Succeeding, docker
  <2>1. /\ \A n \in NodeIDs : ~Holds(n, a)
        /\ task[a] \in {"done", "fetch"}
        /\ task[a] = "fetch" => baseline[a] = "new"
    BY <1>1 DEF IInv, Succeeding
  <2>2. \A n \in NodeIDs : ~Holds(n, a)'
    BY <1>2, <2>1 DEF Holds
  <2> QED BY <1>1, <1>2, <1>3, <2>1, <2>2
<1>6. Overtaken'
  BY <1>1, <1>2, <1>3 DEF IInv, Overtaken, FreshOTLP, HasLatest, GetLatestSample
<1> QED BY <1>1, <1>4, <1>5, <1>6 DEF IInv

LEMMA CheckStep == ASSUME IInv, NEW id \in IDs, Check(id) PROVE IInv'
<1>1. /\ Base' /\ UNCHANGED <<docker, pc, listed, idToName, fresh>>
      /\ \A a \in IDs \ {id} : task'[a] = task[a] /\ baseline'[a] = baseline[a]
  BY GoroutineSteps
<1>2. /\ UNCHANGED <<nodes, baseline, arrived>> /\ task[id] = "check"
      /\ task' = [task EXCEPT ![id] = IF FreshOTLP(listed[id]) THEN "done" ELSE "put"]
  BY DEF Check, Goto
<1>3. task'[id] = IF FreshOTLP(listed[id]) THEN "done" ELSE "put"
  BY <1>2 DEF IInv, Base, Typed
<1>4. Owned'
  BY <1>1, <1>2 DEF IInv, Owned, Holds, docker
<1>5. Succeeding'
  <2> SUFFICES ASSUME NEW a \in IDs, NEW d \in IDs, listed'[a] # NoName, listed'[d] = NoName,
                      idToName'[d] = idToName'[a], a \notin renamed
               PROVE  /\ \A n \in NodeIDs : ~Holds(n, a)'
                      /\ task'[a] \in {"done", "fetch"}
                      /\ task'[a] = "fetch" => baseline'[a] = "new"
    BY <1>1 DEF Succeeding, docker
  <2>1. /\ \A n \in NodeIDs : ~Holds(n, a)
        /\ task[a] \in {"done", "fetch"}
        /\ task[a] = "fetch" => baseline[a] = "new"
    BY <1>1 DEF IInv, Succeeding
  <2>2. a # id /\ \A n \in NodeIDs : ~Holds(n, a)'
    BY <1>2, <2>1 DEF Holds
  <2> QED BY <1>1, <1>2, <2>1, <2>2
<1>6. Overtaken'
  BY <1>1, <1>2, <1>3 DEF IInv, Overtaken, FreshOTLP, HasLatest, GetLatestSample
<1> QED BY <1>1, <1>4, <1>5, <1>6 DEF IInv

\* A sample recorded lies under the name its container is tracked by.
LEMMA PutStep == ASSUME IInv, NEW id \in IDs, PutSample(id) PROVE IInv'
<1>1. /\ Base' /\ UNCHANGED <<docker, pc, listed, idToName, fresh>>
      /\ \A a \in IDs \ {id} : task'[a] = task[a] /\ baseline'[a] = baseline[a]
      /\ listed[id] \in NodeIDs
  BY GoroutineSteps
<1>2. /\ Put(listed[id], id) /\ task[id] = "put" /\ arrived' = arrived \ {id}
      /\ task' = [task EXCEPT ![id] = "done"] /\ baseline' = baseline
  BY DEF PutSample
<1>3. task'[id] = "done" /\ idToName[id] = listed[id] /\ id \in Samples
  BY <1>1, <1>2, NamesApart DEF IInv, Base, Typed, Tracking
<1>4. /\ nodes'[listed[id]] # << >>
      /\ nodes'[listed[id]][Len(nodes'[listed[id]])] = id
      /\ \A m \in NodeIDs : m # listed[id] => nodes'[m] = nodes[m]
      /\ \A m \in NodeIDs, a \in IDs :
           Holds(m, a)' => Holds(m, a) \/ (m = listed[id] /\ a = id)
  BY <1>1, <1>2, <1>3, PutEffect DEF IInv, Base
<1>5. Owned'
  BY <1>1, <1>3, <1>4 DEF IInv, Owned, docker
<1>6. Succeeding'
  <2> SUFFICES ASSUME NEW a \in IDs, NEW d \in IDs, listed'[a] # NoName, listed'[d] = NoName,
                      idToName'[d] = idToName'[a], a \notin renamed
               PROVE  /\ \A n \in NodeIDs : ~Holds(n, a)'
                      /\ task'[a] \in {"done", "fetch"}
                      /\ task'[a] = "fetch" => baseline'[a] = "new"
    BY <1>1 DEF Succeeding, docker
  <2>1. /\ \A n \in NodeIDs : ~Holds(n, a)
        /\ task[a] \in {"done", "fetch"}
        /\ task[a] = "fetch" => baseline[a] = "new"
    BY <1>1 DEF IInv, Succeeding
  <2>2. a # id
    BY <1>2, <2>1
  <2> QED BY <1>1, <1>2, <1>4, <2>1, <2>2
<1>7. ASSUME NEW a \in IDs, task'[a] = "put", FreshOTLP(listed[a])' PROVE a \in arrived'
  <2>1. a # id /\ task[a] = "put" /\ listed'[a] = listed[a]
    BY <1>1, <1>3, <1>7
  <2>2. listed[a] \in NodeIDs /\ listed[a] # listed[id]
    BY <2>1, <1>1, NamesApart DEF IInv, Base, Tracking, Typed, NameOrNone
  <2>3. FreshOTLP(listed[a])
    BY <1>1, <1>4, <1>7, <2>1, <2>2 DEF FreshOTLP, HasLatest, GetLatestSample
  <2> QED BY <1>2, <2>1, <2>3 DEF IInv, Overtaken
<1>8. Overtaken'
  BY <1>7 DEF Overtaken
<1> QED BY <1>1, <1>5, <1>6, <1>8 DEF IInv

\* After an eviction what is tracked is what was listed, so that the names are
\* distinct again.
LEMMA EvictStep == ASSUME IInv, Evict PROVE IInv'
<1> USE DEF IInv, Base
<1>1. /\ pc = "collect" /\ \A id \in IDs : task[id] = "done"
      /\ baseline' = [id \in IDs |-> IF id \in Dead THEN "none" ELSE baseline[id]]
      /\ idToName' = [id \in IDs |-> IF id \in Dead THEN NoName ELSE idToName[id]]
      /\ pc' = "wait" /\ listed' = [id \in IDs |-> NoName]
      /\ UNCHANGED <<docker, task, failures, arrived>>
      /\ nodes' = [n \in NodeIDs |-> IF n \in DeadNames THEN << >> ELSE nodes[n]]
  BY DEF Evict, Collected, Dropped, Nameless
<1>2. \A id \in IDs :
        /\ id \in Dead <=> baseline[id] # "none" /\ listed[id] = NoName
        /\ id \in Dead => idToName[id] \in DeadNames
  BY DEF Dead, DeadNames
<1>3. \A id \in IDs :
        /\ baseline'[id] = IF id \in Dead THEN "none" ELSE baseline[id]
        /\ idToName'[id] = IF id \in Dead THEN NoName ELSE idToName[id]
        /\ listed'[id] = NoName /\ task'[id] = "done"
  BY <1>1
<1>4. \A n \in NodeIDs, id \in IDs : Holds(n, id)' => Holds(n, id) /\ n \notin DeadNames
  BY <1>1 DEF Holds
<1> HIDE DEF Dead, DeadNames
<1>5. Typed'
  BY <1>1 DEF Typed, docker, NameOrNone
<1>6. Docked' /\ NotRenamed'
  BY <1>1, <1>3 DEF Docked, NotRenamed, docker
<1>7. Tracking'
  BY <1>3 DEF Tracking
<1>8. Waiting'
  BY <1>2, <1>3 DEF Waiting, Tracking
<1>9. Owned'
  BY <1>1, <1>2, <1>3, <1>4, NamesApart DEF Owned, docker
<1>10. Succeeding' /\ Overtaken'
  BY <1>3 DEF Succeeding, Overtaken
<1> QED BY <1>5, <1>6, <1>7, <1>8, <1>9, <1>10

LEMMA Inductive == IInv /\ [Next]_vars => IInv'
<1> SUFFICES ASSUME IInv, [Next]_vars PROVE IInv'
  OBVIOUS
<1>1. CASE UNCHANGED vars
  BY <1>1 DEF IInv, Base, Typed, Docked, Tracking, NotRenamed, Waiting, Owned, Succeeding,
              Overtaken, Holds, FreshOTLP, HasLatest, GetLatestSample, vars, docker, loop
<1>2. CASE Poll
  BY <1>2, ListStep, ListFailsStep, EvictStep, FetchStep, CheckStep, PutStep DEF Poll, Collect
<1>3. ASSUME NEW id \in IDs,
             \/ StartOrStop(id) \/ Destroy(id)
             \/ \E n \in Names : Create(id, n) \/ Rename(id, n)
      PROVE  IInv'
  BY <1>3, DockerSteps
<1>4. ASSUME NEW n \in NodeIDs, ReceiveOTLP(n) \/ GrowOld(n) PROVE IInv'
  BY <1>4, OTLPSteps
<1> QED BY <1>1, <1>2, <1>3, <1>4 DEF Next

-----------------------------------------------------------------------------
\* The collector keeps its types; what it tracks it can evict by name, and it
\* collects under the name it listed.
THEOREM TypeCorrect == Spec => []TypeOK
<1>1. IInv => TypeOK
  BY NamesApart DEF IInv, Base, Typed, Docked, Tracking, TypeOK, Tracked, NameOrNone
<1> QED BY <1>1, Initially, Inductive, PTL DEF Spec

\* Docker data in the store belongs to a container tracked under that name, or
\* to one that was renamed.
THEOREM NoOrphans == Spec => []OrphansOnlyAfterRename
<1>1. IInv => OrphansOnlyAfterRename
  <2> SUFFICES ASSUME IInv, NEW n \in NodeIDs, NEW i \in DOMAIN nodes[n], nodes[n][i] # OTLP
               PROVE  nodes[n][i] \in renamed \/ idToName[nodes[n][i]] = n
    BY DEF OrphansOnlyAfterRename
  <2>1. nodes[n][i] \in IDs /\ Holds(n, nodes[n][i])
    BY NamesApart DEF IInv, Base, Typed, Holds
  <2> QED BY <2>1 DEF IInv, Owned
<1> QED BY <1>1, Initially, Inductive, PTL DEF Spec

\* Only an eviction empties a window, and it takes the samples of containers
\* that are gone; a renamed container may lose samples to it, no other.
THEOREM SuccessorsKeepTheirData == Spec => SuccessorKeepsItsData
<1> DEFINE Kept == \A n \in NodeIDs : \A i \in DOMAIN nodes[n] :
                      nodes'[n] = << >> /\ nodes[n][i] # OTLP =>
                          nodes[n][i] \in Dead \union renamed
<1>1. IInv /\ [Next]_vars => [Kept]_vars
  <2> SUFFICES ASSUME IInv, Next, NEW n \in NodeIDs, NEW i \in DOMAIN nodes[n],
                      nodes'[n] = << >>, nodes[n][i] # OTLP
               PROVE  nodes[n][i] \in Dead \union renamed
    OBVIOUS
  <2>1. nodes[n] \in Seq(Samples) /\ nodes[n] # << >>
    BY DEF IInv, Base, Typed
  <2>2. nodes[n][i] \in IDs /\ Holds(n, nodes[n][i])
    BY NamesApart DEF IInv, Base, Typed, Holds
  <2>3. \A m \in NodeIDs, x \in Samples : ~Put(m, x)
    <3> SUFFICES ASSUME NEW m \in NodeIDs, NEW x \in Samples, Put(m, x) PROVE FALSE
      OBVIOUS
    <3>1. nodes'[m] # << >> /\ (m # n => nodes'[n] = nodes[n])
      BY PutEffect DEF IInv, Base
    <3> QED BY <2>1, <3>1
  <2>4. nodes' # nodes
    BY <2>1
  <2>5. \A id \in IDs : ~PutSample(id)
    BY <2>3, GoroutineSteps, NamesApart DEF PutSample
  <2>6. Evict
    BY <2>3, <2>4, <2>5, NamesApart
       DEF Next, Poll, Collect, List, ListFails, Fetch, FetchFails, Check, Goto, StartOrStop,
           Destroy, Create, Rename, ReceiveOTLP, GrowOld
  <2>7. nodes'[n] = IF n \in DeadNames THEN << >> ELSE nodes[n]
    BY <2>6 DEF Evict
  <2>8. PICK d \in Dead : n = idToName[d]
    BY <2>1, <2>7 DEF DeadNames
  <2>9. ASSUME nodes[n][i] \notin renamed PROVE nodes[n][i] \in Dead
    <3> DEFINE a == nodes[n][i]
    <3>1. a \in IDs /\ Holds(n, a) /\ a \notin renamed
      BY <2>2, <2>9
    <3> HIDE DEF a
    <3>2. idToName[a] = n /\ baseline[a] # "none"
      BY <3>1, NamesApart DEF IInv, Base, Owned, Tracking
    <3>3. d \in IDs /\ listed[d] = NoName
      BY <2>8 DEF Dead
    <3>4. listed[a] = NoName
      BY <2>8, <3>1, <3>2, <3>3 DEF IInv, Succeeding
    <3> QED BY <3>1, <3>2, <3>4 DEF Dead, a
  <2> QED BY <2>9
<1> QED BY <1>1, Initially, Inductive, PTL DEF Spec, SuccessorKeepsItsData

\* A Docker sample on top of a fresh OTLP sample is a race lost by one step.
THEOREM OTLPWins == Spec => FreshOTLPWins
<1>1. IInv /\ [Next]_vars =>
        [\A id \in IDs :
           task[id] = "put" /\ task'[id] = "done" /\ FreshOTLP(listed[id]) =>
               id \in arrived]_vars
  BY DEF IInv, Overtaken
<1> QED BY <1>1, Initially, Inductive, PTL DEF Spec, FreshOTLPWins
=============================================================================
