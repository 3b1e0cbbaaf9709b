--------------------------- MODULE MemoryLRU_proofs -------------------------
(***************************************************************************)
(* The LRU cache keeps list and map in step, forgets a key only after Size *)
(* other keys were used, and implements the CacheStore interface, for every *)
(* capacity and every finite set of keys.                                  *)
(***************************************************************************)
EXTENDS MemoryLRU, FiniteSetTheorems, TLAPS

InList(s, k) == \E i \in DOMAIN s : s[i] = k

\* a stands in front of b.
Precedes(s, a, b) == \E i, j \in DOMAIN s : i < j /\ s[i] = a /\ s[j] = b

Distinct(s) == \A i, j \in DOMAIN s : s[i] = s[j] => i = j

Typed ==
    /\ ll \in Seq(Keys) /\ Len(ll) <= Size /\ Distinct(ll)
    /\ DOMAIN cache \subseteq Keys
    /\ \A k \in Keys : k \in DOMAIN cache <=> InList(ll, k)
    /\ \A k \in DOMAIN cache : cache[k] \in Values
    /\ reply \in Values \union {Miss}
    /\ since \in [Keys -> SUBSET Keys]
    /\ DOMAIN set \subseteq Keys

\* What stands in front of a key was used after it ...
Ordered == \A a, b \in Keys : Precedes(ll, a, b) => a \in since[b]

\* ... and so were at least Size keys, for a key that was pushed out.
PushedOut == \A k \in DOMAIN set \ DOMAIN cache : Cardinality(since[k]) >= Size

IInv == Typed /\ Ordered /\ PushedOut /\ NeverStale

-----------------------------------------------------------------------------
LEMMA SizePositive == Size \in Nat \ {0}
  BY CacheAssumption DEF Size

LEMMA Pushing ==
    ASSUME NEW s \in Seq(Keys), NEW k \in Keys, Distinct(s)
    PROVE  /\ PushFront(s, k) \in Seq(Keys) /\ Len(PushFront(s, k)) = Len(s) + 1
           /\ \A x : InList(PushFront(s, k), x) <=> x = k \/ InList(s, x)
           /\ \A a, b : Precedes(PushFront(s, k), a, b) =>
                           \/ a = k /\ InList(s, b)
                           \/ Precedes(s, a, b)
           /\ ~InList(s, k) => Distinct(PushFront(s, k))
<1> DEFINE p == PushFront(s, k)
<1>1. Len(s) \in Nat /\ DOMAIN s = 1..Len(s) /\ \A i \in 1..Len(s) : s[i] \in Keys
  OBVIOUS
<1>2. DOMAIN p = 1..(Len(s) + 1) /\ p[1] = k /\ \A i \in 2..(Len(s) + 1) : p[i] = s[i - 1]
  BY <1>1 DEF PushFront
<1>3. \A i \in 1..(Len(s) + 1) : p[i] \in Keys
  BY <1>1 DEF PushFront
<1>4. p \in Seq(Keys) /\ Len(p) = Len(s) + 1
  BY <1>1, <1>3 DEF PushFront
<1>5. \A x : InList(p, x) <=> x = k \/ InList(s, x)
  <2> TAKE x
  <2>1. ASSUME InList(s, x) PROVE InList(p, x)
    <3>1. PICK i \in 1..Len(s) : s[i] = x
      BY <1>1, <2>1 DEF InList
    <3>2. i + 1 \in 2..(Len(s) + 1) /\ i + 1 \in DOMAIN p /\ (i + 1) - 1 = i
      BY <1>1, <1>2
    <3> QED BY <1>2, <3>1, <3>2 DEF InList
  <2>2. InList(p, k)
    BY <1>1, <1>2 DEF InList
  <2>3. ASSUME InList(p, x), x # k PROVE InList(s, x)
    <3>1. PICK i \in 1..(Len(s) + 1) : p[i] = x
      BY <1>2, <2>3 DEF InList
    <3>2. i \in 2..(Len(s) + 1) /\ i - 1 \in 1..Len(s)
      BY <1>1, <1>2, <2>3, <3>1
    <3> QED BY <1>1, <1>2, <3>1, <3>2 DEF InList
  <2> QED BY <2>1, <2>2, <2>3
<1>6. \A a, b : Precedes(p, a, b) => (a = k /\ InList(s, b)) \/ Precedes(s, a, b)
  <2> SUFFICES ASSUME NEW a, NEW b, Precedes(p, a, b)
               PROVE  (a = k /\ InList(s, b)) \/ Precedes(s, a, b)
    OBVIOUS
  <2>1. PICK i \in 1..(Len(s) + 1), j \in 1..(Len(s) + 1) : i < j /\ p[i] = a /\ p[j] = b
    BY <1>2 DEF Precedes
  <2>2. j \in 2..(Len(s) + 1) /\ j - 1 \in DOMAIN s /\ s[j - 1] = b
    BY <1>1, <1>2, <2>1
  <2>3. CASE i = 1
    BY <1>2, <2>1, <2>2, <2>3 DEF InList
  <2>4. CASE i # 1
    <3>1. i - 1 \in DOMAIN s /\ s[i - 1] = a /\ i - 1 < j - 1
      BY <1>1, <1>2, <2>1, <2>4
    <3> QED BY <2>2, <3>1 DEF Precedes
  <2> QED BY <2>3, <2>4
<1>7. ASSUME ~InList(s, k) PROVE Distinct(p)
  <2> SUFFICES ASSUME NEW i \in 1..(Len(s) + 1), NEW j \in 1..(Len(s) + 1), p[i] = p[j]
               PROVE  i = j
    BY <1>2 DEF Distinct
  <2>1. \A n \in 2..(Len(s) + 1) : p[n] # k /\ n - 1 \in DOMAIN s
    BY <1>1, <1>2, <1>7 DEF InList
  <2>2. CASE i = 1 \/ j = 1
    BY <1>1, <1>2, <2>1, <2>2
  <2>3. CASE i # 1 /\ j # 1
    <3>1. s[i - 1] = s[j - 1] /\ i - 1 \in DOMAIN s /\ j - 1 \in DOMAIN s
      BY <1>1, <1>2, <2>1, <2>3
    <3>2. i - 1 = j - 1
      BY <3>1 DEF Distinct
    <3> QED BY <3>2
  <2> QED BY <2>2, <2>3
<1> QED BY <1>4, <1>5, <1>6, <1>7

LEMMA Removing ==
    ASSUME NEW s \in Seq(Keys), NEW k, Distinct(s)
    PROVE  /\ Without(s, k) \in Seq(Keys) /\ Distinct(Without(s, k))
           /\ Len(Without(s, k)) <= Len(s)
           /\ InList(s, k) => Len(Without(s, k)) = Len(s) - 1
           /\ \A x : InList(Without(s, k), x) <=> x # k /\ InList(s, x)
           /\ \A a, b : Precedes(Without(s, k), a, b) => Precedes(s, a, b) /\ b # k
<1>1. Len(s) \in Nat /\ DOMAIN s = 1..Len(s) /\ \A i \in 1..Len(s) : s[i] \in Keys
  OBVIOUS
<1>2. CASE ~InList(s, k)
  <2>1. Without(s, k) = s
    BY <1>2 DEF Without, InList
  <2>2. \A x : InList(s, x) => x # k
    BY <1>2 DEF InList
  <2>3. \A a, b : Precedes(s, a, b) => b # k
    BY <1>2 DEF InList, Precedes
  <2>4. Len(s) <= Len(s)
    BY <1>1
  <2> QED BY <1>2, <2>1, <2>2, <2>3, <2>4, Zenon
<1>3. CASE InList(s, k)
  <2>1. PICK at \in 1..Len(s) : s[at] = k /\ at = CHOOSE i \in DOMAIN s : s[i] = k
    BY <1>1, <1>3 DEF InList
  <2>0. PICK w : w = Without(s, k)
    OBVIOUS
  \* Where the i-th entry that is left was.
  <2> DEFINE From(i) == IF i < at THEN i ELSE i + 1
  <2>2. w = [i \in 1..(Len(s) - 1) |-> IF i < at THEN s[i] ELSE s[i + 1]]
    BY <1>3, <2>0, <2>1 DEF Without, InList
  <2>3. \A i \in 1..(Len(s) - 1) : From(i) \in 1..Len(s) /\ From(i) # at /\ w[i] = s[From(i)]
    BY <1>1, <2>2
  <2>4. \A i, j \in 1..(Len(s) - 1) : (i < j <=> From(i) < From(j)) /\ (From(i) = From(j) => i = j)
    BY <1>1
  <2>5. \A n \in 1..Len(s) : n # at => \E i \in 1..(Len(s) - 1) : From(i) = n
    <3> SUFFICES ASSUME NEW n \in 1..Len(s), n # at PROVE \E i \in 1..(Len(s) - 1) : From(i) = n
      OBVIOUS
    <3>1. CASE n < at
      <4>1. n \in 1..(Len(s) - 1) /\ From(n) = n
        BY <1>1, <3>1
      <4> QED BY <4>1
    <3>2. CASE n > at
      <4>1. n - 1 \in 1..(Len(s) - 1) /\ From(n - 1) = n
        BY <1>1, <3>2
      <4> QED BY <4>1
    <3> QED BY <1>1, <3>1, <3>2
  <2>6. DOMAIN w = 1..(Len(s) - 1) /\ \A i \in 1..(Len(s) - 1) : w[i] \in Keys
    BY <1>1, <2>2, <2>3
  <2>7. w \in Seq(Keys) /\ Len(w) = Len(s) - 1
    <3>1. Len(s) - 1 \in Nat
      BY <1>1
    <3> QED BY <2>2, <2>6, <3>1
  <2> HIDE DEF From
  <2>8. Distinct(w)
    <3> SUFFICES ASSUME NEW i \in 1..(Len(s) - 1), NEW j \in 1..(Len(s) - 1), w[i] = w[j]
                 PROVE  i = j
      BY <2>6 DEF Distinct
    <3>1. s[From(i)] = s[From(j)] /\ From(i) \in DOMAIN s /\ From(j) \in DOMAIN s
      BY <1>1, <2>3
    <3> QED BY <2>4, <3>1 DEF Distinct
  <2>9. \A x : InList(w, x) <=> x # k /\ InList(s, x)
    <3> TAKE x
    <3>1. ASSUME InList(w, x) PROVE x # k /\ InList(s, x)
      <4>1. PICK i \in 1..(Len(s) - 1) : w[i] = x
        BY <2>6, <3>1 DEF InList
      <4>2. s[From(i)] = x /\ From(i) \in DOMAIN s /\ From(i) # at
        BY <1>1, <2>3, <4>1
      <4> QED BY <1>1, <2>1, <4>2 DEF InList, Distinct
    <3>2. ASSUME x # k, InList(s, x) PROVE InList(w, x)
      <4>1. PICK n \in 1..Len(s) : s[n] = x
        BY <1>1, <3>2 DEF InList
      <4>2. PICK i \in 1..(Len(s) - 1) : From(i) = n
        BY <2>1, <2>5, <3>2, <4>1
      <4> QED BY <2>3, <2>6, <4>1, <4>2 DEF InList
    <3> QED BY <3>1, <3>2
  <2>10. \A a, b : Precedes(w, a, b) => Precedes(s, a, b) /\ b # k
    <3> SUFFICES ASSUME NEW a, NEW b, Precedes(w, a, b) PROVE Precedes(s, a, b) /\ b # k
      OBVIOUS
    <3>1. PICK i \in 1..(Len(s) - 1), j \in 1..(Len(s) - 1) : i < j /\ w[i] = a /\ w[j] = b
      BY <2>6 DEF Precedes
    <3>2. /\ s[From(i)] = a /\ s[From(j)] = b /\ From(i) < From(j)
          /\ From(i) \in DOMAIN s /\ From(j) \in DOMAIN s /\ From(j) # at
      BY <1>1, <2>3, <2>4, <3>1
    <3> QED BY <1>1, <2>1, <3>2 DEF Precedes, Distinct
  <2>11. Len(w) <= Len(s)
    BY <1>1, <2>7
  <2> QED BY <2>0, <2>7, <2>8, <2>9, <2>10, <2>11, Zenon
<1> QED BY <1>2, <1>3
-----------------------------------------------------------------------------
LEMMA Initially == Init => IInv
<1>1. Init => Typed
  BY SizePositive DEF Init, Typed, Empty, InList, Distinct
<1>2. Init => Ordered /\ PushedOut /\ NeverStale
  BY DEF Init, Ordered, Precedes, PushedOut, NeverStale, Empty
<1> QED BY <1>1, <1>2 DEF IInv

\* After a use of k the history is in order again.
LEMMA FrontOrdered ==
    ASSUME IInv, NEW k \in Keys, NEW s \in Seq(Keys), Distinct(s), ~InList(s, k), Used(k),
           \A a, b : Precedes(s, a, b) => Precedes(ll, a, b),
           \A a, b : Precedes(ll', a, b) => Precedes(PushFront(s, k), a, b)
    PROVE  Ordered'
<1> SUFFICES ASSUME NEW a \in Keys, NEW b \in Keys, Precedes(ll', a, b) PROVE a \in since'[b]
  BY DEF Ordered, Precedes
<1>1. (a = k /\ InList(s, b)) \/ Precedes(s, a, b)
  BY Pushing
<1>2. b # k
  BY <1>1 DEF InList, Precedes
<1>3. since'[b] = since[b] \union {k}
  BY <1>2 DEF Used
<1>4. CASE a = k
  BY <1>3, <1>4
<1>5. CASE Precedes(s, a, b)
  BY <1>3, <1>5 DEF IInv, Ordered
<1> QED BY <1>1, <1>4, <1>5

\* A use of k only adds to what was used since the others.
LEMMA SinceGrows ==
    ASSUME IInv, NEW k \in Keys, Used(k), NEW other \in Keys \ {k}
    PROVE  /\ since'[other] \in SUBSET Keys /\ IsFiniteSet(since'[other])
           /\ Cardinality(since[other]) <= Cardinality(since'[other])
           /\ Cardinality(since'[other]) \in Nat /\ Cardinality(since[other]) \in Nat
<1>1. since'[other] = since[other] \union {k} /\ since[other] \in SUBSET Keys
  BY DEF Used, IInv, Typed
<1>2. IsFiniteSet(since'[other]) /\ IsFiniteSet(since[other])
  BY <1>1, CacheAssumption, FS_Subset
<1>3. Cardinality(since[other]) <= Cardinality(since'[other])
  BY <1>1, <1>2, FS_Subset
<1> QED BY <1>1, <1>2, <1>3, FS_CardinalityType

LEMMA Hit ==
    ASSUME IInv, NEW k \in Keys, k \in DOMAIN cache, ll' = PushFront(Without(ll, k), k)
    PROVE  /\ ll' \in Seq(Keys) /\ Len(ll') = Len(ll) /\ Distinct(ll')
           /\ \A x : InList(ll', x) <=> InList(ll, x)
           /\ Used(k) => Ordered'
<1> DEFINE w == Without(ll, k)
<1>1. ll \in Seq(Keys) /\ Distinct(ll) /\ InList(ll, k) /\ Len(ll) \in Nat
  BY DEF IInv, Typed
<1>2. /\ w \in Seq(Keys) /\ Distinct(w) /\ Len(w) = Len(ll) - 1 /\ ~InList(w, k)
      /\ \A x : InList(w, x) <=> x # k /\ InList(ll, x)
      /\ \A a, b : Precedes(w, a, b) => Precedes(ll, a, b)
  BY <1>1, Removing
<1> HIDE DEF w
<1>3. /\ ll' \in Seq(Keys) /\ Len(ll') = Len(w) + 1 /\ Distinct(ll')
      /\ \A x : InList(ll', x) <=> x = k \/ InList(w, x)
  BY <1>2, Pushing DEF w
<1>4. Len(ll') = Len(ll)
  BY <1>1, <1>2, <1>3
<1>5. Used(k) => Ordered'
  <2>1. ll' = PushFront(w, k)
    BY DEF w
  <2> QED BY <1>2, <2>1, FrontOrdered
<1> QED BY <1>1, <1>2, <1>3, <1>4, <1>5

LEMMA Getting == ASSUME IInv, NEW k \in Keys, Get(k) PROVE IInv'
<1>1. CASE k \notin DOMAIN cache
  BY <1>1 DEF Get, IInv, Typed, Ordered, PushedOut, NeverStale, InList, Precedes, Distinct, Size
<1>2. CASE k \in DOMAIN cache
  <2>1. ll' = PushFront(Without(ll, k), k) /\ cache' = cache /\ set' = set /\ Used(k) /\ reply' = cache[k]
    BY <1>2 DEF Get
  <2>2. /\ ll' \in Seq(Keys) /\ Len(ll') = Len(ll) /\ Distinct(ll')
        /\ \A x : InList(ll', x) <=> InList(ll, x)
        /\ Ordered'
    BY <1>2, <2>1, Hit
  <2>3. since' \in [Keys -> SUBSET Keys]
    BY <2>1 DEF Used, IInv, Typed
  <2>4. Typed'
    BY <1>2, <2>1, <2>2, <2>3 DEF IInv, Typed, InList, Distinct, Size
  <2>5. PushedOut'
    <3> SUFFICES ASSUME NEW x \in DOMAIN set \ DOMAIN cache PROVE Cardinality(since'[x]) >= Size
      BY <2>1 DEF PushedOut, Size
    <3>1. x \in Keys \ {k} /\ Cardinality(since[x]) >= Size
      BY <1>2 DEF IInv, Typed, PushedOut
    <3> QED BY <2>1, <3>1, SinceGrows, SizePositive
  <2> QED BY <2>1, <2>2, <2>4, <2>5 DEF IInv, NeverStale
<1> QED BY <1>1, <1>2

LEMMA Deleting == ASSUME IInv, NEW k \in Keys, Delete(k) PROVE IInv'
<1>1. ll \in Seq(Keys) /\ Distinct(ll) /\ Len(ll) \in Nat
  BY DEF IInv, Typed
<1>2. cache' = Drop(cache, k) /\ set' = Drop(set, k) /\ reply' = reply /\ since' = since
  BY DEF Delete
<1>3. /\ ll' \in Seq(Keys) /\ Distinct(ll') /\ Len(ll') <= Len(ll) /\ Len(ll') \in Nat
      /\ \A x : InList(ll', x) <=> x # k /\ InList(ll, x)
      /\ \A a, b : Precedes(ll', a, b) => Precedes(ll, a, b)
  <2>1. CASE k \in DOMAIN cache
    BY <1>1, <2>1, Removing DEF Delete
  <2>2. CASE k \notin DOMAIN cache
    BY <1>1, <2>2 DEF Delete, IInv, Typed
  <2> QED BY <2>1, <2>2
<1>4. Typed'
  <2>1. Len(ll') <= Size
    BY <1>1, <1>3, SizePositive DEF IInv, Typed
  <2> QED BY <1>2, <1>3, <2>1 DEF IInv, Typed, Drop, InList, Distinct, Size
<1>5. Ordered'
  BY <1>2, <1>3 DEF IInv, Ordered, Precedes
<1>6. PushedOut' /\ NeverStale'
  BY <1>2 DEF IInv, PushedOut, NeverStale, Drop, Size
<1> QED BY <1>4, <1>5, <1>6 DEF IInv

LEMMA Clearing == ASSUME IInv, Clear PROVE IInv'
<1>1. Typed'
  BY SizePositive DEF IInv, Typed, Clear, Empty, InList, Distinct, Size
<1>2. Ordered' /\ PushedOut' /\ NeverStale'
  BY DEF Clear, Ordered, Precedes, PushedOut, NeverStale, Empty
<1> QED BY <1>1, <1>2 DEF IInv

\* Setting a key that is there, or one for which there is room.
LEMMA Storing ==
    ASSUME IInv, NEW k \in Keys, NEW v \in Values,
           k \in DOMAIN cache \/ ~Overfull(PushFront(ll, k)),
           ll' = PushFront(Without(ll, k), k), cache' = Put(cache, k, v),
           set' = Put(set, k, v), Used(k), UNCHANGED reply
    PROVE  IInv'
<1>1. /\ ll' \in Seq(Keys) /\ Len(ll') <= Size /\ Distinct(ll') /\ Ordered'
      /\ \A x : InList(ll', x) <=> x = k \/ InList(ll, x)
  <2>1. ll \in Seq(Keys) /\ Distinct(ll) /\ Len(ll) <= Size
    BY DEF IInv, Typed
  <2>2. CASE k \in DOMAIN cache
    <3>1. InList(ll, k)
      BY <2>2 DEF IInv, Typed
    <3> QED BY <2>1, <2>2, <3>1, Hit
  <2>3. CASE k \notin DOMAIN cache
    <3>1. ~InList(ll, k)
      BY <2>3 DEF IInv, Typed
    <3>2. Without(ll, k) = ll
      BY <3>1 DEF Without, InList
    <3>3. Len(PushFront(ll, k)) <= Size
      BY <2>1, <2>3, Pushing, SizePositive DEF Overfull
    <3>4. /\ ll' \in Seq(Keys) /\ Len(ll') <= Size /\ Distinct(ll')
          /\ \A x : InList(ll', x) <=> x = k \/ InList(ll, x)
      BY <2>1, <3>1, <3>2, <3>3, Pushing
    <3>5. Ordered'
      BY <2>1, <3>1, <3>2, FrontOrdered
    <3> QED BY <3>4, <3>5
  <2> QED BY <2>2, <2>3
<1>2. Typed'
  <2>1. since' \in [Keys -> SUBSET Keys]
    BY DEF Used, IInv, Typed
  <2>2. Size' = Size
    BY DEF Size
  <2>3. /\ DOMAIN cache' \subseteq Keys /\ DOMAIN set' \subseteq Keys
        /\ \A x \in DOMAIN cache' : cache'[x] \in Values
        /\ reply' \in Values \union {Miss}
    BY DEF Put, IInv, Typed
  <2>4. \A x \in Keys : x \in DOMAIN cache' <=> InList(ll', x)
    BY <1>1 DEF Put, IInv, Typed
  <2> QED BY <1>1, <2>1, <2>2, <2>3, <2>4 DEF Typed, InList, Distinct
<1>3. PushedOut'
  <2> SUFFICES ASSUME NEW x \in DOMAIN set' \ DOMAIN cache' PROVE Cardinality(since'[x]) >= Size
    BY DEF PushedOut, Size
  <2>1. x \in Keys \ {k} /\ Cardinality(since[x]) >= Size
    BY DEF IInv, Typed, PushedOut, Put
  <2> QED BY <2>1, SinceGrows, SizePositive
<1>4. NeverStale'
  BY DEF IInv, NeverStale, Put
<1> QED BY <1>1, <1>2, <1>3, <1>4 DEF IInv

\* The key pushed out is not the one being set.
LEMMA OldestIsOther ==
    ASSUME IInv, NEW k \in Keys, k \notin DOMAIN cache, Overfull(PushFront(ll, k))
    PROVE  PushFront(ll, k)[Len(PushFront(ll, k))] # k
<1>1. ll \in Seq(Keys) /\ Distinct(ll) /\ ~InList(ll, k) /\ Len(ll) \in Nat
  BY DEF IInv, Typed
<1>2. Len(PushFront(ll, k)) = Len(ll) + 1 /\ Distinct(PushFront(ll, k))
  BY <1>1, Pushing
<1>3. Len(ll) >= 1
  BY <1>1, <1>2, SizePositive DEF Overfull
<1>4. PushFront(ll, k)[Len(ll) + 1] = ll[Len(ll)] /\ Len(ll) \in DOMAIN ll
  BY <1>1, <1>3 DEF PushFront
<1> QED BY <1>1, <1>2, <1>4 DEF InList

\* Setting a new key in a full cache pushes out the last of the list, after
\* which the Size keys in front of it were used.
LEMMA Replacing ==
    ASSUME IInv, NEW k \in Keys, NEW v \in Values,
           k \notin DOMAIN cache, Overfull(PushFront(ll, k)),
           RemoveOldest(PushFront(ll, k), Put(cache, k, v)),
           set' = Put(set, k, v), Used(k), UNCHANGED reply
    PROVE  IInv'
<1>1. ll \in Seq(Keys) /\ Distinct(ll) /\ ~InList(ll, k) /\ Len(ll) \in Nat /\ Len(ll) <= Size
  BY DEF IInv, Typed
<1>2. PICK p : p = PushFront(ll, k)
  OBVIOUS
<1>3. /\ p \in Seq(Keys) /\ Len(p) = Len(ll) + 1 /\ Distinct(p)
      /\ \A x : InList(p, x) <=> x = k \/ InList(ll, x)
      /\ \A a, b : Precedes(p, a, b) => (a = k /\ InList(ll, b)) \/ Precedes(ll, a, b)
  BY <1>1, <1>2, Pushing
<1>4. Len(ll) = Size /\ Len(p) = Size + 1
  BY <1>1, <1>2, <1>3, SizePositive DEF Overfull
<1>5. PICK oldest : oldest = p[Size + 1]
  OBVIOUS
<1>6. /\ DOMAIN p = 1..(Size + 1) /\ \A i \in 1..(Size + 1) : p[i] \in Keys
      /\ Size \in Nat \ {0}
  BY <1>3, <1>4, SizePositive
<1>7. ll' = [i \in 1..Size |-> p[i]] /\ cache' = Drop(Put(cache, k, v), oldest)
  <2>1. SubSeq(p, 1, Size) = [i \in 1..Size |-> p[i]]
    BY <1>3, <1>4, <1>6
  <2> QED BY <1>2, <1>4, <1>5, <1>6, <2>1 DEF RemoveOldest
<1>8. oldest \in Keys /\ oldest # k
  <2>1. p[1] = k
    BY <1>1, <1>2 DEF PushFront
  <2> QED BY <1>3, <1>5, <1>6, <2>1 DEF Distinct
<1>9. /\ ll' \in Seq(Keys) /\ Len(ll') = Size /\ DOMAIN ll' = 1..Size
      /\ \A i \in 1..Size : ll'[i] = p[i]
  BY <1>6, <1>7
<1>10. Distinct(ll')
  BY <1>3, <1>6, <1>9 DEF Distinct
<1>11. \A x : InList(ll', x) <=> x # oldest /\ InList(p, x)
  <2> TAKE x
  <2>1. ASSUME InList(ll', x) PROVE x # oldest /\ InList(p, x)
    BY <1>3, <1>5, <1>6, <1>9, <2>1 DEF InList, Distinct
  <2>2. ASSUME x # oldest, InList(p, x) PROVE InList(ll', x)
    <3>1. PICK i \in 1..(Size + 1) : p[i] = x
      BY <1>6, <2>2 DEF InList
    <3>2. i \in 1..Size
      BY <1>5, <1>6, <2>2, <3>1
    <3> QED BY <1>9, <3>1, <3>2 DEF InList
  <2> QED BY <2>1, <2>2
<1>12. \A a, b : Precedes(ll', a, b) => Precedes(p, a, b)
  BY <1>6, <1>9 DEF Precedes
<1>13. Ordered'
  BY <1>1, <1>2, <1>12, FrontOrdered
<1>14. Typed'
  <2>1. since' \in [Keys -> SUBSET Keys]
    BY DEF Used, IInv, Typed
  <2>2. Size' = Size
    BY DEF Size
  <2>3. /\ DOMAIN cache' \subseteq Keys /\ DOMAIN set' \subseteq Keys
        /\ \A x \in DOMAIN cache' : cache'[x] \in Values
        /\ reply' \in Values \union {Miss}
    BY <1>7 DEF Put, Drop, IInv, Typed
  <2>4. \A x \in Keys : x \in DOMAIN cache' <=> InList(ll', x)
    BY <1>3, <1>7, <1>11 DEF Put, Drop, IInv, Typed
  <2> QED BY <1>6, <1>9, <1>10, <2>1, <2>2, <2>3, <2>4 DEF Typed, InList, Distinct
<1>15. \A i \in 1..Size : p[i] \in since'[oldest]
  <2> TAKE i \in 1..Size
  <2>1. i \in DOMAIN p /\ Size + 1 \in DOMAIN p /\ i < Size + 1
    BY <1>6
  <2>2. Precedes(p, p[i], oldest)
    BY <1>5, <2>1 DEF Precedes
  <2>3. p[i] = k \/ Precedes(ll, p[i], oldest)
    BY <1>3, <2>2
  <2>4. since'[oldest] = since[oldest] \union {k}
    BY <1>8 DEF Used
  <2> QED BY <1>6, <1>8, <2>1, <2>3, <2>4 DEF IInv, Ordered
<1>16. Cardinality(since'[oldest]) >= Size
  <2>1. [i \in 1..Size |-> p[i]] \in Injection(1..Size, since'[oldest])
    BY <1>3, <1>6, <1>15 DEF Injection, IsInjective, Distinct
  <2>2. IsFiniteSet(since'[oldest]) /\ Cardinality(since'[oldest]) \in Nat
    BY <1>8, SinceGrows
  <2>3. Cardinality(1..Size) <= Cardinality(since'[oldest])
    BY <2>1, <2>2, FS_Injection
  <2>4. Cardinality(1..Size) = Size
    BY <1>6, FS_Interval
  <2> QED BY <2>2, <2>3, <2>4
<1>17. PushedOut'
  <2> SUFFICES ASSUME NEW x \in DOMAIN set' \ DOMAIN cache', x # oldest
               PROVE  Cardinality(since'[x]) >= Size
    BY <1>16 DEF PushedOut, Size
  <2>1. x \in Keys \ {k} /\ Cardinality(since[x]) >= Size
    BY <1>7 DEF IInv, Typed, PushedOut, Put, Drop
  <2> QED BY <2>1, SinceGrows, SizePositive
<1>18. NeverStale'
  BY <1>7 DEF IInv, NeverStale, Put, Drop
<1> QED BY <1>13, <1>14, <1>17, <1>18 DEF IInv

LEMMA Setting == ASSUME IInv, NEW k \in Keys, NEW v \in Values, Set(k, v) PROVE IInv'
<1>1. CASE k \notin DOMAIN cache /\ Overfull(PushFront(ll, k))
  BY <1>1, Replacing DEF Set
<1>2. CASE ~(k \notin DOMAIN cache /\ Overfull(PushFront(ll, k)))
  BY <1>2, Storing DEF Set
<1> QED BY <1>1, <1>2

LEMMA Inductive == IInv /\ [Next]_vars => IInv'
<1> SUFFICES ASSUME IInv, [Next]_vars PROVE IInv'
  OBVIOUS
<1>1. CASE UNCHANGED vars
  BY <1>1 DEF vars, IInv, Typed, Ordered, PushedOut, NeverStale, InList, Precedes, Distinct, Size
<1>2. CASE Next
  BY <1>2, Getting, Deleting, Setting, Clearing DEF Next
<1> QED BY <1>1, <1>2
-----------------------------------------------------------------------------
LEMMA TypedImplies == IInv => TypeOK
<1> SUFFICES ASSUME IInv PROVE TypeOK
  OBVIOUS
<1>1. DOMAIN cache = {ll[i] : i \in DOMAIN ll}
  <2>1. \A i \in DOMAIN ll : ll[i] \in Keys /\ InList(ll, ll[i])
    BY DEF IInv, Typed, InList
  <2>2. DOMAIN cache \subseteq Keys /\ \A k \in Keys : k \in DOMAIN cache <=> InList(ll, k)
    BY DEF IInv, Typed
  <2> QED BY <2>1, <2>2, Zenon DEF InList
<1> QED BY <1>1 DEF IInv, Typed, TypeOK, Distinct

\* The list and the map stay in step and within the capacity.
THEOREM TypeCorrect == Spec => []TypeOK
  BY TypedImplies, Initially, Inductive, PTL DEF Spec

\* A key survives until Size other keys have been used after it.
THEOREM RecentlyUsedKept == Spec => []KeepsTheRecentlyUsed
<1>1. IInv => KeepsTheRecentlyUsed
  <2> SUFFICES ASSUME IInv, NEW k \in DOMAIN set, Cardinality(since[k]) < Size
               PROVE  k \in DOMAIN cache /\ cache[k] = set[k]
    BY DEF KeepsTheRecentlyUsed
  <2>1. since[k] \in SUBSET Keys
    BY DEF IInv, Typed
  <2>2. Cardinality(since[k]) \in Nat
    BY <2>1, CacheAssumption, FS_Subset, FS_CardinalityType
  <2>3. k \in DOMAIN cache
    BY <2>2, SizePositive DEF IInv, PushedOut
  <2> QED BY <2>3 DEF IInv, NeverStale
<1> QED BY <1>1, Initially, Inductive, PTL DEF Spec

\* A hit is the value last set, whatever was evicted, deleted or cleared.
THEOREM NoStaleHit == Spec => []NeverStale
<1>1. IInv => NeverStale
  BY DEF IInv
<1> QED BY <1>1, Initially, Inductive, PTL DEF Spec

\* Every method of the cache is the interface's method of that name.
THEOREM Implements == Spec => ImplementsCacheStore
<1>1. Init => Interface!Init
  BY DEF Init, Interface!Init, Interface!Nothing, Empty
<1>2. IInv /\ [Next]_vars => [Interface!Next]_(Interface!vars)
  <2> SUFFICES ASSUME IInv, Next PROVE Interface!Next \/ UNCHANGED Interface!vars
    BY DEF vars, Interface!vars
  <2>1. ASSUME NEW k \in Keys, Get(k) PROVE Interface!Get(k)
    BY <2>1 DEF Get, Interface!Get, IInv, NeverStale
  <2>2. ASSUME NEW k \in Keys, Delete(k) PROVE Interface!Delete(k)
    BY <2>2 DEF Delete, Drop, Interface!Delete
  <2>3. ASSUME NEW k \in Keys, NEW v \in Values, Set(k, v) PROVE Interface!Set(k, v)
    <3>1. \E kept \in SUBSET (DOMAIN cache \ {k}) : DOMAIN cache' = kept \union {k}
      <4>1. CASE k \notin DOMAIN cache /\ Overfull(PushFront(ll, k))
        <5>1. PICK oldest : oldest # k /\ cache' = Drop(Put(cache, k, v), oldest)
          BY <2>3, <4>1, OldestIsOther DEF Set, RemoveOldest
        <5> WITNESS DOMAIN cache \ {k, oldest} \in SUBSET (DOMAIN cache \ {k})
        <5> QED BY <4>1, <5>1 DEF Drop, Put
      <4>2. CASE ~(k \notin DOMAIN cache /\ Overfull(PushFront(ll, k)))
        <5> WITNESS DOMAIN cache \ {k} \in SUBSET (DOMAIN cache \ {k})
        <5> QED BY <2>3, <4>2 DEF Set, Put
      <4> QED BY <4>1, <4>2
    <3> QED BY <2>3, <3>1 DEF Set, Put, Interface!Set
  <2>4. ASSUME Clear PROVE Interface!Clear
    BY <2>4 DEF Clear, Empty, Interface!Clear, Interface!Nothing
  <2> QED BY <2>1, <2>2, <2>3, <2>4 DEF Next, Interface!Next
<1> QED BY <1>1, <1>2, Initially, Inductive, PTL DEF Spec, ImplementsCacheStore, Interface!Spec
=============================================================================
