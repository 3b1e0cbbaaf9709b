------------------------ MODULE CausalPhases_proofs -------------------------
(***************************************************************************)
(* Theorems about CausalPhases: for any finite set of services, any graph   *)
(* the discovery may find and any choice of the calls that follow.         *)
(***************************************************************************)
EXTENDS CausalPhases, SequenceTheorems, FiniteSetTheorems, WellFoundedInduction, TLAPS

(***************************************************************************)
(* Numbers, and functions that are defined step by step.                   *)
(***************************************************************************)

LEMMA LeastOf ==
    ASSUME NEW S \in SUBSET Nat, S # {}
    PROVE  \E x \in S : \A y \in S : x <= y
<1>1. PICK x \in S : \A y \in S : ~ (<<y, x>> \in OpToRel(<, Nat))
  BY NatLessThanWellFounded, WFMin
<1>2. \A y \in S : <<y, x>> \in OpToRel(<, Nat) <=> y < x
  BY DEF OpToRel
<1>3. \A y \in S : ~ (y < x)
  BY <1>1, <1>2, Zenon
<1> QED BY <1>3

LEMMA MinOf ==
    ASSUME NEW S \in SUBSET Nat, S # {}
    PROVE  Min(S) \in S /\ \A x \in S : Min(S) <= x
  BY LeastOf DEF Min

\* Induction, over a set of numbers.
LEMMA Climbing ==
    ASSUME NEW S, 0 \in S, \A n \in Nat : n \in S => n + 1 \in S
    PROVE  Nat \subseteq S
<1> SUFFICES ASSUME Nat \ S # {} PROVE FALSE
  OBVIOUS
<1>1. PICK m \in Nat \ S : \A n \in Nat \ S : m <= n
  BY LeastOf
<1>2. m # 0 /\ m - 1 \in Nat /\ m - 1 \in S
  BY <1>1
<1> QED BY <1>1, <1>2

\* What is defined by its first value and by each value from the one before
\* exists.
Follows(g, U, s, N, F) ==
    g \in [0..N -> U] /\ g[0] = s /\ \A k \in 1..N : g[k] = F[<<k, g[k - 1]>>]

LEMMA Iteration ==
    ASSUME NEW U, NEW s \in U, NEW N \in Nat, NEW F \in [Nat \X U -> U]
    PROVE  \E g : Follows(g, U, s, N, F)
<1> DEFINE Fine(n, g) == g \in [0..n -> U] /\ g[0] = s /\ \A k \in 1..n : g[k] = F[<<k, g[k - 1]>>]
           S == {n \in Nat : \E g : Fine(n, g)}
<1>1. 0 \in S
  <2>1. Fine(0, [k \in 0..0 |-> s])
    OBVIOUS
  <2> QED BY <2>1
<1>2. ASSUME NEW n \in Nat, n \in S PROVE n + 1 \in S
  <2>1. PICK g : Fine(n, g)
    BY <1>2
  <2>2. PICK h : h = [k \in 0..(n + 1) |-> IF k = n + 1 THEN F[<<n + 1, g[n]>>] ELSE g[k]]
    OBVIOUS
  <2>3. g[n] \in U /\ F[<<n + 1, g[n]>>] \in U
    BY <2>1
  <2>4. h \in [0..(n + 1) -> U]
    BY <2>1, <2>2, <2>3
  <2>5. h[0] = s
    BY <2>1, <2>2
  <2>6. ASSUME NEW k \in 1..(n + 1) PROVE h[k] = F[<<k, h[k - 1]>>]
    <3>0. k - 1 \in 0..n /\ k - 1 \in 0..(n + 1) /\ k - 1 # n + 1 /\ k \in 0..(n + 1) /\ (k # n + 1 => k \in 1..n)
      OBVIOUS
    <3>1. h[k - 1] = g[k - 1] /\ h[k] = IF k = n + 1 THEN F[<<n + 1, g[n]>>] ELSE g[k]
      BY <2>2, <3>0
    <3>2. CASE k = n + 1
      BY <2>2, <3>1, <3>2, SMTT(30)
    <3>3. CASE k # n + 1
      BY <2>1, <3>1, <3>3, <3>0
    <3> QED BY <3>2, <3>3
  <2>7. Fine(n + 1, h)
    BY <2>4, <2>5, <2>6
  <2> HIDE DEF Fine
  <2> QED BY <2>7
<1> HIDE DEF S
<1>3. N \in S
  BY <1>1, <1>2, Climbing
<1> QED BY <1>3 DEF S, Follows

(***************************************************************************)
(* Closures.                                                               *)
(***************************************************************************)

Graph(E) == E \subseteq Nodes \X Nodes
Closed(E, T) == \A e \in E : e[1] \in T => e[2] \in T

LEMMA NodesCount == IsFiniteSet(Nodes) /\ Cardinality(Nodes) \in Nat
  BY NodesAssumption, FS_CardinalityType

\* A chain of subsets of U that grows with every link is no longer than U has
\* elements.
LEMMA Settles ==
    ASSUME NEW U, IsFiniteSet(U), NEW N \in Nat, N > Cardinality(U), NEW g \in [0..N -> SUBSET U],
           \A k \in 1..N : g[k - 1] \subseteq g[k]
    PROVE  \E k \in 1..N : g[k] = g[k - 1]
<1> SUFFICES ASSUME \A k \in 1..N : g[k] # g[k - 1] PROVE FALSE
  OBVIOUS
<1> DEFINE S == {k \in Nat : k <= N => Cardinality(g[k]) >= k}
<1>0. ASSUME NEW k \in 0..N
      PROVE  IsFiniteSet(g[k]) /\ Cardinality(g[k]) \in Nat /\ Cardinality(g[k]) <= Cardinality(U)
  <2>1. g[k] \in SUBSET U
    OBVIOUS
  <2>2. IsFiniteSet(g[k]) /\ Cardinality(g[k]) <= Cardinality(U)
    BY <2>1, FS_Subset
  <2> QED BY <2>2, FS_CardinalityType
<1>1. 0 \in S
  BY <1>0
<1>2. ASSUME NEW n \in Nat, n \in S PROVE n + 1 \in S
  <2> SUFFICES ASSUME n + 1 <= N PROVE Cardinality(g[n + 1]) >= n + 1
    OBVIOUS
  <2>1. n \in 0..N /\ n + 1 \in 0..N /\ n + 1 \in 1..N /\ (n + 1) - 1 = n
    OBVIOUS
  <2>2. g[n] \in SUBSET g[n + 1] /\ g[n] # g[n + 1]
    BY <2>1
  <2>3. Cardinality(g[n]) <= Cardinality(g[n + 1]) /\ Cardinality(g[n]) # Cardinality(g[n + 1])
    BY <1>0, <2>1, <2>2, FS_Subset
  <2>4. Cardinality(g[n]) >= n
    BY <1>2, <2>1
  <2> QED BY <1>0, <2>1, <2>3, <2>4
<1> HIDE DEF S
<1>3. N \in S
  BY <1>1, <1>2, Climbing
<1>4. Cardinality(U) \in Nat
  BY FS_CardinalityType
<1> QED BY <1>0, <1>3, <1>4 DEF S

\* And one link shorter when it does not start from nothing.
LEMMA SettlesSooner ==
    ASSUME NEW U, IsFiniteSet(U), NEW N \in Nat, N >= Cardinality(U), NEW g \in [0..N -> SUBSET U],
           g[0] # {}, \A k \in 1..N : g[k - 1] \subseteq g[k]
    PROVE  \E k \in 1..N : g[k] = g[k - 1]
<1>1. PICK h : h = [k \in 0..(N + 1) |-> IF k = 0 THEN {} ELSE g[k - 1]]
  OBVIOUS
<1>2. ASSUME NEW k \in 1..(N + 1) PROVE k - 1 \in 0..N /\ h[k] = g[k - 1] /\ h[k] \in SUBSET U
  <2>1. k \in 0..(N + 1) /\ k # 0 /\ k - 1 \in 0..N
    OBVIOUS
  <2> QED BY <1>1, <2>1
<1>3. h[0] = {}
  BY <1>1
<1>4. h \in [0..(N + 1) -> SUBSET U]
  <2>1. \A k \in 0..(N + 1) : k = 0 \/ k \in 1..(N + 1)
    OBVIOUS
  <2>2. \A k \in 0..(N + 1) : h[k] \in SUBSET U
    BY <1>2, <1>3, <2>1
  <2>3. h = [k \in 0..(N + 1) |-> h[k]]
    BY <1>1
  <2> QED BY <2>2, <2>3
<1>5. ASSUME NEW k \in 1..(N + 1) PROVE h[k - 1] \subseteq h[k]
  <2>1. CASE k = 1
    BY <1>3, <2>1
  <2>2. CASE k # 1
    <3>1. k - 1 \in 1..(N + 1) /\ k - 1 \in 1..N /\ (k - 1) - 1 \in 0..N
      BY <2>2
    <3>2. h[k - 1] = g[(k - 1) - 1] /\ h[k] = g[k - 1]
      BY <1>2, <3>1
    <3> QED BY <3>1, <3>2
  <2> QED BY <2>1, <2>2
<1>6. Cardinality(U) \in Nat /\ N + 1 \in Nat /\ N + 1 > Cardinality(U)
  BY FS_CardinalityType
<1>7. PICK k \in 1..(N + 1) : h[k] = h[k - 1]
  BY <1>4, <1>5, <1>6, Settles
<1>8. k # 1
  <2>1. h[1] = g[0]
    <3>1. 1 \in 1..(N + 1) /\ 1 - 1 = 0
      OBVIOUS
    <3> QED BY <1>2, <3>1
  <2>2. 1 - 1 = 0
    OBVIOUS
  <2> QED BY <1>3, <1>7, <2>1, <2>2
<1>9. PICK c \in 1..N : c = k - 1
  BY <1>8
<1>10. g[c] = g[c - 1]
  <2>1. k - 1 \in 1..(N + 1) /\ (k - 1) - 1 = c - 1
    BY <1>9
  <2>2. h[k - 1] = g[c - 1] /\ h[k] = g[c]
    BY <1>2, <1>9, <2>1
  <2> QED BY <1>7, <2>2
<1> QED BY <1>10

LEMMA OnwardFacts ==
    ASSUME NEW E, Graph(E), NEW A \in SUBSET Nodes
    PROVE  /\ Onward(E, A) \in SUBSET Nodes /\ A \subseteq Onward(E, A)
           /\ \A e \in E : e[1] \in A => e[2] \in Onward(E, A)
           /\ \A T : A \subseteq T /\ Closed(E, T) => Onward(E, A) \subseteq T
  BY DEF Graph, Onward, Closed

\* Closure(E, S) is the least set with S that is closed under the edges.
LEMMA ClosureFacts ==
    ASSUME NEW E, Graph(E), NEW S \in SUBSET Nodes
    PROVE  /\ Closure(E, S) \in SUBSET Nodes
           /\ S \subseteq Closure(E, S)
           /\ Closed(E, Closure(E, S))
           /\ \A T : S \subseteq T /\ Closed(E, T) => Closure(E, S) \subseteq T
<1> DEFINE N == Cardinality(Nodes) + 1
           Body(g) == [k \in 0..N |-> IF k = 0 THEN S ELSE Onward(E, g[k - 1])]
           grown == CHOOSE g : g = Body(g)
<1>0. N \in Nat /\ N > Cardinality(Nodes)
  BY NodesCount
<1>1. Closure(E, S) = grown[N]
  BY DEF Closure
<1>2. \E g : g = Body(g)
  <2>1. PICK F : F = [x \in Nat \X SUBSET Nodes |-> Onward(E, x[2])]
    OBVIOUS
  <2>2. F \in [Nat \X SUBSET Nodes -> SUBSET Nodes]
    <3>1. \A x \in Nat \X SUBSET Nodes : Onward(E, x[2]) \in SUBSET Nodes
      BY OnwardFacts
    <3> QED BY <2>1, <3>1
  <2>5. \E g : Follows(g, SUBSET Nodes, S, N, F)
    BY <1>0, <2>2, Iteration
  <2>3. PICK g \in [0..N -> SUBSET Nodes] : g[0] = S /\ \A k \in 1..N : g[k] = F[<<k, g[k - 1]>>]
    BY <2>5 DEF Follows
  <2>4. ASSUME NEW k \in 0..N PROVE g[k] = Body(g)[k]
    <3>1. CASE k = 0
      BY <2>3, <3>1
    <3>2. CASE k # 0
      <4>1. k \in 1..N /\ k - 1 \in 0..N /\ k \in Nat
        BY <1>0, <3>2
      <4>2. g[k - 1] \in SUBSET Nodes
        BY <2>3, <4>1
      <4>3. F[<<k, g[k - 1]>>] = Onward(E, g[k - 1])
        BY <2>1, <4>1, <4>2
      <4> QED BY <2>3, <3>2, <4>1, <4>3
    <3> QED BY <3>1, <3>2
  <2> QED BY <2>3, <2>4
<1>3. grown = Body(grown)
  BY <1>2
<1>4. PICK g : g = grown
  OBVIOUS
<1> HIDE DEF grown
<1>5. DOMAIN g = 0..N /\ g[0] = S /\ \A k \in 1..N : k - 1 \in 0..N /\ g[k] = Onward(E, g[k - 1])
  <2>1. g = Body(g)
    BY <1>3, <1>4
  <2> HIDE DEF N
  <2>2. \A k \in 1..N : k - 1 \in 0..N /\ k \in 0..N /\ k # 0
    BY <1>0
  <2>3. 0 \in 0..N
    BY <1>0
  <2> QED BY <2>1, <2>2, <2>3
<1> HIDE DEF N, Body
<1>6. \A k \in 0..N : g[k] \in SUBSET Nodes
  <2> DEFINE P == {k \in Nat : k <= N => g[k] \in SUBSET Nodes}
  <2>1. 0 \in P
    BY <1>5
  <2>2. ASSUME NEW n \in Nat, n \in P PROVE n + 1 \in P
    <3> SUFFICES ASSUME n + 1 <= N PROVE g[n + 1] \in SUBSET Nodes
      OBVIOUS
    <3>1. n + 1 \in 1..N /\ (n + 1) - 1 = n /\ n <= N
      BY <1>0
    <3>2. g[n + 1] = Onward(E, g[n]) /\ g[n] \in SUBSET Nodes
      BY <1>5, <2>2, <3>1
    <3> QED BY <3>2, OnwardFacts
  <2> HIDE DEF P
  <2>3. Nat \subseteq P
    BY <2>1, <2>2, Climbing
  <2> QED BY <1>0, <2>3 DEF P
<1>7. g \in [0..N -> SUBSET Nodes]
  <2>1. g = [k \in 0..N |-> g[k]]
    BY <1>3, <1>4 DEF Body
  <2> QED BY <1>6, <2>1
<1>8. \A k \in 1..N : g[k - 1] \subseteq g[k]
  BY <1>5, <1>6, OnwardFacts
<1>9. PICK c \in 1..N : g[c] = g[c - 1]
  BY <1>0, <1>7, <1>8, NodesCount, Settles
<1>10. \A k \in c..N : g[k] = g[c]
  <2> DEFINE P == {j \in Nat : c + j <= N => g[c + j] = g[c]}
  <2>1. 0 \in P
    BY <1>0, <1>9
  <2>2. ASSUME NEW n \in Nat, n \in P PROVE n + 1 \in P
    <3> SUFFICES ASSUME c + (n + 1) <= N PROVE g[c + (n + 1)] = g[c]
      OBVIOUS
    <3>1. c + (n + 1) \in 1..N /\ (c + (n + 1)) - 1 = c + n /\ c + n <= N
      BY <1>0
    <3>2. g[c + (n + 1)] = Onward(E, g[c + n]) /\ g[c + n] = g[c]
      BY <1>5, <2>2, <3>1
    <3>3. g[c] = Onward(E, g[c - 1])
      BY <1>5
    <3> QED BY <1>9, <3>2, <3>3
  <2> HIDE DEF P
  <2>3. Nat \subseteq P
    BY <2>1, <2>2, Climbing
  <2>4. ASSUME NEW k \in c..N PROVE g[k] = g[c]
    <3>1. k - c \in Nat /\ c + (k - c) = k /\ k <= N
      BY <1>0
    <3>2. k - c \in P
      BY <2>3, <3>1
    <3> QED BY <3>1, <3>2 DEF P
  <2> QED BY <2>4
<1>11. Closure(E, S) = g[c] /\ g[c] = Onward(E, g[c]) /\ g[c] \in SUBSET Nodes
  <2>1. N \in c..N /\ c \in 0..N
    BY <1>0
  <2> QED BY <1>1, <1>4, <1>5, <1>6, <1>9, <1>10, <2>1
<1>12. \A T : S \subseteq T /\ Closed(E, T) => g[c] \subseteq T
  <2> SUFFICES ASSUME NEW T, S \subseteq T, Closed(E, T) PROVE g[c] \subseteq T
    OBVIOUS
  <2> DEFINE P == {k \in Nat : k <= N => g[k] \subseteq T}
  <2>1. 0 \in P
    BY <1>5
  <2>2. ASSUME NEW n \in Nat, n \in P PROVE n + 1 \in P
    <3> SUFFICES ASSUME n + 1 <= N PROVE g[n + 1] \subseteq T
      OBVIOUS
    <3>1. n + 1 \in 1..N /\ (n + 1) - 1 = n /\ n \in 0..N
      BY <1>0
    <3>2. g[n + 1] = Onward(E, g[n]) /\ g[n] \subseteq T /\ g[n] \in SUBSET Nodes
      BY <1>5, <1>6, <2>2, <3>1
    <3> QED BY <3>2, OnwardFacts
  <2> HIDE DEF P
  <2>3. c \in P /\ c <= N
    BY <1>0, <2>1, <2>2, Climbing
  <2> QED BY <2>3 DEF P
<1>13. S \subseteq g[c]
  <2> DEFINE P == {k \in Nat : k <= N => S \subseteq g[k]}
  <2>1. 0 \in P
    BY <1>5
  <2>2. ASSUME NEW n \in Nat, n \in P PROVE n + 1 \in P
    <3> SUFFICES ASSUME n + 1 <= N PROVE S \subseteq g[n + 1]
      OBVIOUS
    <3>1. n + 1 \in 1..N /\ (n + 1) - 1 = n /\ n <= N
      BY <1>0
    <3> QED BY <1>8, <2>2, <3>1
  <2> HIDE DEF P
  <2>3. c \in P /\ c <= N
    BY <1>0, <2>1, <2>2, Climbing
  <2> QED BY <2>3 DEF P
<1>14. Closed(E, g[c])
  BY <1>11, OnwardFacts DEF Closed
<1> QED BY <1>11, <1>12, <1>13, <1>14

(***************************************************************************)
(* Ancestors.                                                              *)
(***************************************************************************)

LEMMA TurnedFacts ==
    ASSUME NEW E, Graph(E)
    PROVE  Graph(Turned(E)) /\ \A a, b : <<a, b>> \in Turned(E) <=> <<b, a>> \in E
<1>1. \A e \in E : e[1] \in Nodes /\ e[2] \in Nodes /\ e = <<e[1], e[2]>>
  BY DEF Graph
<1>2. \A a, b : <<a, b>> \in Turned(E) => <<b, a>> \in E
  <2> SUFFICES ASSUME NEW a, NEW b, <<a, b>> \in Turned(E) PROVE <<b, a>> \in E
    OBVIOUS
  <2>1. PICK e \in E : <<a, b>> = <<e[2], e[1]>>
    BY DEF Turned
  <2> QED BY <1>1, <2>1
<1>3. \A a, b : <<b, a>> \in E => <<a, b>> \in Turned(E)
  BY DEF Turned
<1>4. Graph(Turned(E))
  BY <1>1 DEF Turned, Graph
<1> QED BY <1>2, <1>3, <1>4

LEMMA AncestorsOfFacts ==
    ASSUME NEW E, Graph(E), NEW S
    PROVE  /\ AncestorsOf(E, S) \in SUBSET Nodes
           /\ \A e \in E : e[2] \in S \/ e[2] \in AncestorsOf(E, S) => e[1] \in AncestorsOf(E, S)
           /\ \A T : (\A e \in E : e[2] \in S \/ e[2] \in T => e[1] \in T) => AncestorsOf(E, S) \subseteq T
<1>1. PICK P : P = UNION {Parents(E, n) : n \in S}
  OBVIOUS
<1>2. \A e \in E : e[1] \in Nodes /\ e[2] \in Nodes /\ e = <<e[1], e[2]>>
  BY DEF Graph
<1>3. P \in SUBSET Nodes /\ (\A e \in E : e[2] \in S => e[1] \in P)
      /\ \A p \in P : \E e \in E : e[1] = p /\ e[2] \in S
  BY <1>1, <1>2 DEF Parents
<1>4. PICK A : A = Closure(Turned(E), P)
  OBVIOUS
<1>5. A = AncestorsOf(E, S)
  BY <1>1, <1>4 DEF AncestorsOf
<1>6. A \in SUBSET Nodes /\ P \subseteq A /\ Closed(Turned(E), A)
      /\ \A T : P \subseteq T /\ Closed(Turned(E), T) => A \subseteq T
  BY <1>3, <1>4, TurnedFacts, ClosureFacts
<1>7. \A T : Closed(Turned(E), T) <=> \A e \in E : e[2] \in T => e[1] \in T
  <2> SUFFICES ASSUME NEW T PROVE Closed(Turned(E), T) <=> \A e \in E : e[2] \in T => e[1] \in T
    OBVIOUS
  <2>1. ASSUME Closed(Turned(E), T), NEW e \in E, e[2] \in T PROVE e[1] \in T
    <3>1. <<e[2], e[1]>> \in Turned(E)
      BY DEF Turned
    <3>2. PICK d \in Turned(E) : d = <<e[2], e[1]>>
      BY <3>1
    <3> QED BY <2>1, <3>2 DEF Closed
  <2>2. ASSUME \A e \in E : e[2] \in T => e[1] \in T, NEW d \in Turned(E), d[1] \in T PROVE d[2] \in T
    <3>1. PICK e \in E : d = <<e[2], e[1]>>
      BY DEF Turned
    <3> QED BY <2>2, <3>1
  <2> QED BY <2>1, <2>2 DEF Closed
<1>8. \A e \in E : e[2] \in S \/ e[2] \in A => e[1] \in A
  BY <1>3, <1>6, <1>7
<1>9. ASSUME NEW T, \A e \in E : e[2] \in S \/ e[2] \in T => e[1] \in T PROVE A \subseteq T
  <2>1. P \subseteq T
    BY <1>3, <1>9
  <2>2. Closed(Turned(E), T)
    BY <1>7, <1>9
  <2> QED BY <1>6, <2>1, <2>2
<1> QED BY <1>5, <1>6, <1>8, <1>9

LEMMA AncestorsFacts ==
    ASSUME NEW E, Graph(E), NEW n
    PROVE  /\ Ancestors(E, n) \in SUBSET Nodes
           /\ \A e \in E : e[2] = n \/ e[2] \in Ancestors(E, n) => e[1] \in Ancestors(E, n)
           /\ \A T : (\A e \in E : e[2] = n \/ e[2] \in T => e[1] \in T) => Ancestors(E, n) \subseteq T
  BY AncestorsOfFacts DEF Ancestors

\* An ancestor of an ancestor is one.
LEMMA AncestorsTransitive ==
    ASSUME NEW E, Graph(E), NEW c, NEW b \in Ancestors(E, c)
    PROVE  Ancestors(E, b) \subseteq Ancestors(E, c)
  BY AncestorsFacts

\* An ancestor has an edge that leads on.
LEMMA AncestorsLeadOn ==
    ASSUME NEW E, Graph(E), NEW c, NEW a \in Ancestors(E, c)
    PROVE  \E e \in E : e[1] = a /\ (e[2] = c \/ e[2] \in Ancestors(E, c))
<1> DEFINE T == {x \in Ancestors(E, c) : \E e \in E : e[1] = x /\ (e[2] = c \/ e[2] \in Ancestors(E, c))}
<1>1. ASSUME NEW e \in E, e[2] = c \/ e[2] \in T PROVE e[1] \in T
  BY <1>1, AncestorsFacts
<1> HIDE DEF T
<1>2. Ancestors(E, c) \subseteq T
  BY <1>1, AncestorsFacts
<1> QED BY <1>2 DEF T

\* More edges, more ancestors.
LEMMA AncestorsGrow ==
    ASSUME NEW E, Graph(E), NEW D, D \subseteq E, NEW c
    PROVE  Graph(D) /\ Ancestors(D, c) \subseteq Ancestors(E, c)
<1>1. Graph(D)
  BY DEF Graph
<1>2. \A e \in D : e[2] = c \/ e[2] \in Ancestors(E, c) => e[1] \in Ancestors(E, c)
  BY AncestorsFacts
<1> QED BY <1>1, <1>2, AncestorsFacts

\* Without cycles every set of nodes holds one without ancestors in it.
LEMMA TopmostExists ==
    ASSUME NEW E, Graph(E), Acyclic(E), NEW A \in SUBSET Nodes, A # {}
    PROVE  \E n \in A : Ancestors(E, n) \intersect A = {}
<1> DEFINE Count(n) == Cardinality(Ancestors(E, n) \intersect A)
           S == {Count(n) : n \in A}
<1>1. ASSUME NEW n \in A
      PROVE  IsFiniteSet(Ancestors(E, n) \intersect A) /\ Count(n) \in Nat
  <2>1. Ancestors(E, n) \intersect A \in SUBSET Nodes
    OBVIOUS
  <2>2. IsFiniteSet(Ancestors(E, n) \intersect A)
    BY <2>1, NodesCount, FS_Subset
  <2> QED BY <2>2, FS_CardinalityType
<1>2. S \in SUBSET Nat /\ S # {}
  BY <1>1
<1>3. PICK n \in A : \A m \in A : Count(n) <= Count(m)
  <2> HIDE DEF Count
  <2>1. PICK x \in S : \A y \in S : x <= y
    <3> HIDE DEF S
    <3> QED BY <1>2, LeastOf
  <2> QED BY <2>1
<1>4. SUFFICES ASSUME NEW m \in Ancestors(E, n) \intersect A PROVE FALSE
  BY <1>3
<1>5. Ancestors(E, m) \intersect A \in SUBSET (Ancestors(E, n) \intersect A)
  BY <1>4, AncestorsTransitive
<1>6. m \notin Ancestors(E, m)
  BY <1>4 DEF Acyclic
<1>7. Count(m) <= Count(n) /\ (Count(m) = Count(n) => Ancestors(E, m) \intersect A = Ancestors(E, n) \intersect A)
  BY <1>1, <1>5, FS_Subset
<1>8. Count(m) = Count(n)
  <2>1. m \in A
    BY <1>4
  <2>2. Count(m) \in Nat /\ Count(n) \in Nat
    BY <1>1, <2>1
  <2>3. Count(n) <= Count(m) /\ Count(m) <= Count(n)
    BY <1>3, <1>7, <2>1
  <2> HIDE DEF Count
  <2> QED BY <2>2, <2>3
<1> QED BY <1>4, <1>6, <1>7, <1>8

(***************************************************************************)
(* The adjustment sets of an edge.                                         *)
(***************************************************************************)

LEMMA ShrunkFacts ==
    ASSUME NEW E, NEW X, NEW Y, NEW order, Len(order) \in Nat
    PROVE  Shrunk(E, X, Y, order) \subseteq Candidates(E, X, Y)
<1> DEFINE C == Candidates(E, X, Y)
           N == Len(order)
           Left(Z, k) == IF IsDSeparated(E, X, Y, Z \ {order[k]}) THEN Z \ {order[k]} ELSE Z
           Body(g) == [k \in 0..N |-> IF k = 0 THEN C ELSE Left(g[k - 1], k)]
           shrinking == CHOOSE g : g = Body(g)
<1>1. Shrunk(E, X, Y, order) = shrinking[N]
  BY DEF Shrunk
<1> HIDE DEF Left
<1>2. \A Z \in SUBSET C : \A k : Left(Z, k) \in SUBSET C
  BY DEF Left
<1> HIDE DEF C, N
<1>3. N \in Nat /\ C \in SUBSET C
  BY DEF N
<1>4. \E g : g = Body(g)
  <2>1. PICK F : F = [x \in Nat \X SUBSET C |-> Left(x[2], x[1])]
    OBVIOUS
  <2>2. F \in [Nat \X SUBSET C -> SUBSET C]
    BY <1>2, <2>1
  <2>3. \E g : Follows(g, SUBSET C, C, N, F)
    BY <1>3, <2>2, Iteration
  <2>4. PICK g \in [0..N -> SUBSET C] : g[0] = C /\ \A k \in 1..N : g[k] = F[<<k, g[k - 1]>>]
    BY <2>3 DEF Follows
  <2>5. ASSUME NEW k \in 0..N PROVE g[k] = Body(g)[k]
    <3>1. CASE k = 0
      BY <2>4, <3>1
    <3>2. CASE k # 0
      <4>1. k \in 1..N /\ k - 1 \in 0..N /\ k \in Nat
        BY <1>3, <3>2
      <4>2. g[k - 1] \in SUBSET C
        BY <2>4, <4>1
      <4>3. F[<<k, g[k - 1]>>] = Left(g[k - 1], k)
        BY <2>1, <4>1, <4>2
      <4> QED BY <2>4, <3>2, <4>1, <4>3
    <3> QED BY <3>1, <3>2
  <2> QED BY <2>4, <2>5
<1>5. shrinking = Body(shrinking)
  BY <1>4
<1>6. PICK g : g = shrinking
  OBVIOUS
<1> HIDE DEF shrinking
<1>7. g = Body(g)
  BY <1>5, <1>6
<1>8. \A k \in 1..N : k - 1 \in 0..N /\ k \in 0..N /\ k # 0
  BY <1>3
<1>9. g[0] = C /\ \A k \in 1..N : g[k] = Left(g[k - 1], k)
  <2>1. 0 \in 0..N
    BY <1>3
  <2> QED BY <1>7, <1>8, <2>1
<1> HIDE DEF Body
<1> DEFINE P == {k \in Nat : k <= N => g[k] \in SUBSET C}
<1>10. 0 \in P
  BY <1>9
<1>11. ASSUME NEW n \in Nat, n \in P PROVE n + 1 \in P
  <2> SUFFICES ASSUME n + 1 <= N PROVE g[n + 1] \in SUBSET C
    OBVIOUS
  <2>1. n + 1 \in 1..N /\ (n + 1) - 1 = n /\ n <= N
    BY <1>3
  <2>2. g[n + 1] = Left(g[n], n + 1) /\ g[n] \in SUBSET C
    BY <1>9, <1>11, <2>1
  <2> QED BY <1>2, <2>2
<1> HIDE DEF P
<1>12. N \in P
  BY <1>3, <1>10, <1>11, Climbing
<1>13. g[N] \in SUBSET C
  BY <1>3, <1>12 DEF P
<1> QED BY <1>1, <1>6, <1>13 DEF C

\* There is one, and it is finite.
LEMMA AdjustmentFacts ==
    ASSUME NEW E, Graph(E), NEW X, NEW Y
    PROVE  /\ FindMinimalAdjustmentSets(E, X, Y) # {}
           /\ \A Z \in FindMinimalAdjustmentSets(E, X, Y) : Z \in SUBSET Nodes /\ Cardinality(Z) \in Nat
<1>1. PICK C : C = Candidates(E, X, Y)
  OBVIOUS
<1>2. C \in SUBSET Nodes
  BY <1>1 DEF Candidates, Parents, Graph
<1>3. IsFiniteSet(C) /\ Cardinality(C) \in Nat
  BY <1>2, NodesCount, FS_Subset, FS_CardinalityType
<1>4. SetToSeqs(C) # {}
  <2>1. PICK f : f \in Bijection(1..Cardinality(C), C)
    BY <1>3, FS_CardinalityType DEF ExistsBijection
  <2>2. f \in [1..Cardinality(C) -> C] /\ \A a, b \in 1..Cardinality(C) : f[a] = f[b] => a = b
    BY <2>1 DEF Bijection, Injection, IsInjective
  <2>3. f \in SetToSeqs(C)
    BY <2>2 DEF SetToSeqs
  <2> QED BY <2>3
<1>5. ASSUME NEW order \in SetToSeqs(C) PROVE Len(order) \in Nat
  <2>1. order \in [1..Cardinality(C) -> C]
    BY DEF SetToSeqs
  <2>2. order \in Seq(C)
    BY <1>3, <2>1, SeqDef
  <2> QED BY <2>2, LenProperties
<1>6. \A order \in SetToSeqs(C) : Shrunk(E, X, Y, order) \subseteq C
  BY <1>1, <1>5, ShrunkFacts
<1>7. FindMinimalAdjustmentSets(E, X, Y) # {}
      /\ \A Z \in FindMinimalAdjustmentSets(E, X, Y) : Z \subseteq C
  BY <1>1, <1>4, <1>6 DEF FindMinimalAdjustmentSets
<1>8. \A Z \in SUBSET Nodes : Cardinality(Z) \in Nat
  BY NodesCount, FS_Subset, FS_CardinalityType
<1> QED BY <1>2, <1>7, <1>8

(***************************************************************************)
(* The evidence of an edge.                                                *)
(***************************************************************************)

Evidence == [prob : 0..1000, strength : Nat \union {NaN}]

LEMMA TimesKeepsOrder ==
    \A p, a, b \in Nat : a <= b => p * a <= p * b
<1> SUFFICES ASSUME NEW p \in Nat, NEW a \in Nat, NEW b \in Nat, a <= b
             PROVE  p * a <= p * b
  OBVIOUS
<1>1. p * (b - a) >= 0
  <2>1. b - a \in Int /\ b - a >= 0
    OBVIOUS
  <2>2. \A x, y \in Int : x >= 0 /\ y >= 0 => x * y >= 0
    OBVIOUS
  <2> QED BY <2>1, <2>2
<1>2. p * (b - a) = p * b - p * a
  OBVIOUS
<1>3. p * a \in Int /\ p * b \in Int
  OBVIOUS
<1> QED BY <1>1, <1>2, <1>3

AtMost1000(r) == Min({r, 1000})
Capped(x, r) == [x EXCEPT !.prob = AtMost1000(r)]

LEMMA AtMost1000Facts ==
    ASSUME NEW r \in Nat
    PROVE  (AtMost1000(r) = r \/ AtMost1000(r) = 1000) /\ AtMost1000(r) \in 0..1000
<1> DEFINE S == {r, 1000}
<1>1. S \in SUBSET Nat /\ S # {} /\ 1000 \in S
  OBVIOUS
<1> HIDE DEF S
<1>2. Min(S) \in S /\ Min(S) <= 1000
  BY <1>1, MinOf
<1>3. Min(S) \in Nat
  BY <1>1, <1>2, ZenonT(40)
<1>4. Min(S) \in 0..1000
  BY <1>2, <1>3
<1> QED BY <1>2, <1>4 DEF S, AtMost1000

LEMMA CappedFacts ==
    ASSUME NEW x \in Evidence, NEW r \in Nat
    PROVE  /\ Capped(x, r) \in Evidence /\ Capped(x, r).strength = x.strength
           /\ (Capped(x, r).prob = r \/ Capped(x, r).prob = 1000)
  BY AtMost1000Facts DEF Capped, Evidence

Share(p, m) == (p * m) \div 1000

\* Scaling changes the probability alone, to its share or to 1.
LEMMA ScaledKeeps ==
    ASSUME NEW x \in Evidence, NEW m \in Nat
    PROVE  /\ Scaled(x, m) \in Evidence /\ Scaled(x, m).strength = x.strength
           /\ Scaled(x, m).prob = Share(x.prob, m) \/ Scaled(x, m).prob = 1000
<1>1. PICK y \in Nat : y = x.prob
  BY DEF Evidence
<1>2. PICK q \in Nat : q = y * m
  OBVIOUS
<1> DEFINE r == Share(y, m)
<1>3. r \in Nat
  <2>1. q \div 1000 \in Nat
    OBVIOUS
  <2> QED BY <1>2, <2>1 DEF Share
<1>4. Scaled(x, m) = Capped(x, r)
  BY <1>1 DEF Scaled, Capped, AtMost1000, Share
<1> HIDE DEF r
<1>5. /\ Capped(x, r) \in Evidence /\ Capped(x, r).strength = x.strength
      /\ (Capped(x, r).prob = r \/ Capped(x, r).prob = 1000)
  BY <1>3, CappedFacts
<1>6. Share(x.prob, m) = r
  BY <1>1 DEF r
<1> QED BY <1>4, <1>5, <1>6

\* The identification leaves at least 240 of 801.
LEMMA EnrichedKeeps ==
    ASSUME NEW x \in Evidence, 801 <= x.prob, NEW m \in Nat, 300 <= m
    PROVE  /\ Scaled(x, m) \in Evidence /\ Scaled(x, m).strength = x.strength
           /\ Scaled(x, m).prob >= 240
<1>1. PICK y \in Nat : y = x.prob /\ 801 <= y
  BY DEF Evidence
<1>2. 300 \in Nat /\ y * 300 <= y * m
  BY TimesKeepsOrder
<1>3. PICK q \in Nat : q = y * m
  OBVIOUS
<1>4. 240 <= q \div 1000
  BY <1>1, <1>2, <1>3
<1>5. 240 <= Share(x.prob, m)
  BY <1>1, <1>3, <1>4 DEF Share
<1>6. PICK z : z = Scaled(x, m)
  OBVIOUS
<1>7. z \in Evidence /\ z.strength = x.strength /\ (z.prob = Share(x.prob, m) \/ z.prob = 1000)
  BY <1>6, ScaledKeeps
<1>8. PICK u : u = z.prob
  OBVIOUS
<1>9. PICK w : w = Share(x.prob, m)
  OBVIOUS
<1>10. u >= 240
  <2>1. u = w \/ u = 1000
    BY <1>7, <1>8, <1>9
  <2>2. 240 <= w
    BY <1>5, <1>9
  <2> QED BY <2>1, <2>2
<1> QED BY <1>6, <1>7, <1>8, <1>10

\* The intervention leaves at least 192 of those.
LEMMA IntervenedKeeps ==
    ASSUME NEW x \in Evidence, 240 <= x.prob, NEW m \in Nat, 800 <= m
    PROVE  /\ Scaled(x, m) \in Evidence /\ Scaled(x, m).strength = x.strength
           /\ Scaled(x, m).prob >= 192
<1>1. PICK y \in Nat : y = x.prob /\ 240 <= y
  BY DEF Evidence
<1>2. 800 \in Nat /\ y * 800 <= y * m
  BY TimesKeepsOrder
<1>3. PICK q \in Nat : q = y * m
  OBVIOUS
<1>4. 192 <= q \div 1000
  BY <1>1, <1>2, <1>3
<1>5. 192 <= Share(x.prob, m)
  BY <1>1, <1>3, <1>4 DEF Share
<1>6. PICK z : z = Scaled(x, m)
  OBVIOUS
<1>7. z \in Evidence /\ z.strength = x.strength /\ (z.prob = Share(x.prob, m) \/ z.prob = 1000)
  BY <1>6, ScaledKeeps
<1>8. PICK u : u = z.prob
  OBVIOUS
<1>9. PICK w : w = Share(x.prob, m)
  OBVIOUS
<1>10. u >= 192
  <2>1. u = w \/ u = 1000
    BY <1>7, <1>8, <1>9
  <2>2. 192 <= w
    BY <1>5, <1>9
  <2> QED BY <2>1, <2>2
<1> QED BY <1>6, <1>7, <1>8, <1>10

LEMMA PriorFacts ==
    ASSUME NEW age \in Nat
    PROVE  EdgePrior(age) \in 500..950
<1>1. PICK k \in Int : k = 950 - 10 * age
  OBVIOUS
<1>2. k <= 950
  BY <1>1
<1>3. \E x \in {500, k} : \A y \in {500, k} : x >= y
  OBVIOUS
<1>4. Max({500, k}) \in {500, k} /\ \A y \in {500, k} : Max({500, k}) >= y
  BY <1>3 DEF Max
<1> QED BY <1>1, <1>2, <1>4 DEF EdgePrior

(***************************************************************************)
(* The graph from its discovery to the hypotheses.                         *)
(***************************************************************************)

\* A strength is no number or passes the limit.
Passes(x) == x.strength = NaN \/ x.strength >= 50

\* A graph whose edges have a probability of at least p per mille and a strength
\* that passes.
Weighed(g, p) ==
    /\ DOMAIN g \subseteq Pairs
    /\ g \in [DOMAIN g -> Evidence]
    /\ \A e \in DOMAIN g : g[e].prob >= p /\ Passes(g[e])

LEMMA InferredFacts ==
    ASSUME NEW p \in 500..950, NEW corr \in {NaN, 0}
    PROVE  /\ InferredEdge(p, corr) \in Evidence /\ InferredEdge(p, corr).prob = p
           /\ Passes(InferredEdge(p, corr))
<1>1. CASE corr = NaN
  <2>1. InferredEdge(p, corr) = [prob |-> p, strength |-> NaN]
    BY <1>1 DEF InferredEdge, Below
  <2> QED BY <2>1 DEF Evidence, Passes
<1>2. CASE corr # NaN
  <2>1. InferredEdge(p, corr) = [prob |-> p, strength |-> 50]
    BY <1>2 DEF InferredEdge, Below
  <2> QED BY <2>1 DEF Evidence, Passes
<1> QED BY <1>1, <1>2

LEMMA DiscoveredFacts ==
    ASSUME NEW M \in SUBSET Pairs, NEW T \in SUBSET Pairs, NEW age \in Nat, NEW flat
    PROVE  Weighed(Discovered(M, T, age, flat), 801)
<1>1. PICK p \in 500..950 : p = EdgePrior(age)
  BY PriorFacts
<1> DEFINE D == M \union {t \in T : IsInferred(p)}
           corr(e) == IF Undefined(e, flat) THEN NaN ELSE 0
           g == Discovered(M, T, age, flat)
<1>2. g = [e \in D |-> IF e \in M THEN MeasuredEdge ELSE InferredEdge(p, corr(e))]
  BY <1>1 DEF Discovered
<1>3. D \subseteq Pairs /\ DOMAIN g = D
  BY <1>2
<1>4. MeasuredEdge \in Evidence /\ MeasuredEdge.prob >= 801 /\ Passes(MeasuredEdge)
  BY DEF MeasuredEdge, Evidence, Passes
<1>5. IsInferred(p) => p >= 801
  BY DEF IsInferred
<1>6. ASSUME NEW e \in D PROVE g[e] \in Evidence /\ g[e].prob >= 801 /\ Passes(g[e])
  <2>1. CASE e \in M
    <3>1. g[e] = MeasuredEdge
      BY <1>2, <2>1
    <3> QED BY <1>4, <3>1
  <2>2. CASE e \notin M
    <3>1. PICK c \in {NaN, 0} : c = corr(e)
      OBVIOUS
    <3>2. g[e] = InferredEdge(p, c)
      BY <1>2, <2>2, <3>1
    <3>3. IsInferred(p)
      BY <2>2
    <3> HIDE DEF g, D, corr
    <3>4. p >= 801
      BY <1>5, <3>3
    <3>5. InferredEdge(p, c) \in Evidence /\ InferredEdge(p, c).prob = p /\ Passes(InferredEdge(p, c))
      BY <3>1, InferredFacts, ZenonT(60)
    <3> QED BY <3>2, <3>4, <3>5
  <2> QED BY <2>1, <2>2
<1>7. g \in [D -> Evidence]
  <2>1. g = [e \in D |-> g[e]]
    BY <1>2
  <2> HIDE DEF g, D
  <2> QED BY <1>6, <2>1
<1> HIDE DEF g, D
<1>8. Weighed(g, 801)
  BY <1>3, <1>6, <1>7 DEF Weighed
<1> QED BY <1>8 DEF g

LEMMA EnrichedFacts ==
    ASSUME NEW g, Weighed(g, 801), NEW W
    PROVE  DOMAIN Enriched(g, W) = DOMAIN g /\ Weighed(Enriched(g, W), 240)
<1> DEFINE D == DOMAIN g
           h == Enriched(g, W)
           boosts(e) == {1000 + 50 * Cardinality(Z) : Z \in FindMinimalAdjustmentSets(D, e[1], e[2])}
<1>1. Graph(D) /\ D \subseteq Pairs
  BY DEF Weighed, Pairs, Graph
<1>2. h = [e \in D |-> IF IsDSeparated(D, e[1], e[2], {}) \/ e \in W THEN Scaled(g[e], Weakening)
                       ELSE Scaled(g[e], Min(boosts(e)))]
  BY DEF Enriched
<1>3. DOMAIN h = D
  BY <1>2
<1>4. ASSUME NEW e \in D PROVE h[e] \in Evidence /\ h[e].strength = g[e].strength /\ h[e].prob >= 240
  <2>1. g[e] \in Evidence /\ 801 <= g[e].prob
    BY DEF Weighed, Evidence
  <2>3. Min(boosts(e)) \in Nat /\ 300 <= Min(boosts(e))
    <3>1. /\ FindMinimalAdjustmentSets(D, e[1], e[2]) # {}
          /\ \A Z \in FindMinimalAdjustmentSets(D, e[1], e[2]) : Cardinality(Z) \in Nat
      BY <1>1, AdjustmentFacts
    <3>2. \A Z \in FindMinimalAdjustmentSets(D, e[1], e[2]) :
              1000 + 50 * Cardinality(Z) \in Nat /\ 1000 + 50 * Cardinality(Z) >= 300
      BY <3>1
    <3>3. boosts(e) \in SUBSET Nat /\ boosts(e) # {} /\ \A b \in boosts(e) : b >= 300
      BY <3>1, <3>2
    <3> HIDE DEF boosts
    <3> QED BY <3>3, MinOf
  <2>4. \E m \in Nat : 300 <= m /\ h[e] = Scaled(g[e], m)
    <3> HIDE DEF boosts
    <3>1. CASE IsDSeparated(D, e[1], e[2], {}) \/ e \in W
      <4>1. h[e] = Scaled(g[e], 300)
        BY <1>2, <3>1 DEF Weakening
      <4> QED BY <4>1
    <3>2. CASE ~ (IsDSeparated(D, e[1], e[2], {}) \/ e \in W)
      <4>1. PICK m : m = Min(boosts(e))
        OBVIOUS
      <4>2. h[e] = Scaled(g[e], m)
        BY <1>2, <3>2, <4>1
      <4>3. m \in Nat /\ 300 <= m
        BY <2>3, <4>1
      <4> QED BY <4>2, <4>3
    <3> QED BY <3>1, <3>2
  <2> HIDE DEF h
  <2>5. PICK m \in Nat : 300 <= m /\ h[e] = Scaled(g[e], m)
    BY <2>4
  <2> QED BY <2>1, <2>5, EnrichedKeeps
<1>5. h = [e \in D |-> h[e]]
  BY <1>2
<1> HIDE DEF h
<1>6. h \in [D -> Evidence]
  BY <1>4, <1>5
<1>7. \A e \in D : Passes(h[e])
  BY <1>4 DEF Weighed, Passes
<1>8. Weighed(h, 240)
  BY <1>1, <1>3, <1>4, <1>6, <1>7 DEF Weighed
<1> QED BY <1>3, <1>8 DEF h

LEMMA IntervenedFacts ==
    ASSUME NEW g, Weighed(g, 240), NEW V
    PROVE  DOMAIN Intervened(g, V) = DOMAIN g /\ Weighed(Intervened(g, V), 192)
<1> DEFINE D == DOMAIN g
           h == Intervened(g, V)
<1>1. h = [e \in D |-> Scaled(g[e], IF e \in V THEN 1200 ELSE 800)]
  BY DEF Intervened
<1>2. DOMAIN h = D /\ D \subseteq Pairs
  BY <1>1 DEF Weighed
<1>3. ASSUME NEW e \in D PROVE h[e] \in Evidence /\ h[e].strength = g[e].strength /\ h[e].prob >= 192
  <2>1. g[e] \in Evidence /\ 240 <= g[e].prob
    BY DEF Weighed, Evidence
  <2>3. \E m \in Nat : 800 <= m /\ h[e] = Scaled(g[e], m)
    <3>1. h[e] = Scaled(g[e], 1200) \/ h[e] = Scaled(g[e], 800)
      BY <1>1
    <3> HIDE DEF h
    <3> QED BY <3>1
  <2> HIDE DEF h
  <2>4. PICK m \in Nat : 800 <= m /\ h[e] = Scaled(g[e], m)
    BY <2>3
  <2> QED BY <2>1, <2>4, IntervenedKeeps
<1>4. h = [e \in D |-> h[e]]
  BY <1>1
<1> HIDE DEF h
<1>5. h \in [D -> Evidence]
  BY <1>3, <1>4
<1>6. \A e \in D : Passes(h[e])
  BY <1>3 DEF Weighed, Passes
<1>7. Weighed(h, 192)
  BY <1>2, <1>3, <1>5, <1>6 DEF Weighed
<1> QED BY <1>2, <1>7 DEF h

\* The original is heavier than any of its clones, so its own probabilities
\* are copied back.
LEMMA ManagedFacts ==
    ASSUME Weighed(graph, 192), Manage
    PROVE  graph' = graph
<1>1. PICK n \in CloneCounts(graph) :
          \/ OriginalMayWin(n) /\ graph' = CopyBack(graph, graph)
          \/ CloneMayWin(n) /\ \E best \in Clones(graph) : graph' = CopyBack(graph, best)
  BY DEF Manage
<1>2. ~CloneMayWin(n)
  <2>1. n \in {0, 1, 2, 3}
    BY DEF CloneCounts
  <2>2. \A k \in {0, 1, 2, 3} : ~(Weight(500, 1051, k) >= Weight(1000, 951, k))
    <3>1. ~(Weight(500, 1051, 0) >= Weight(1000, 951, 0))
      BY DEF Weight
    <3>2. ~(Weight(500, 1051, 1) >= Weight(1000, 951, 1))
      BY DEF Weight
    <3>3. ~(Weight(500, 1051, 2) >= Weight(1000, 951, 2))
      BY DEF Weight
    <3>4. ~(Weight(500, 1051, 3) >= Weight(1000, 951, 3))
      BY DEF Weight
    <3> QED BY <3>1, <3>2, <3>3, <3>4
  <2> QED BY <2>1, <2>2 DEF CloneMayWin, CloneShare
<1>3. graph' = CopyBack(graph, graph)
  BY <1>1, <1>2
<1>4. ASSUME NEW e \in DOMAIN graph PROVE [graph[e] EXCEPT !.prob = graph[e].prob] = graph[e]
  <2>1. graph[e] \in Evidence
    BY DEF Weighed
  <2> QED BY <2>1 DEF Evidence
<1>5. CopyBack(graph, graph) = [e \in DOMAIN graph |-> graph[e]]
  BY <1>4 DEF CopyBack
<1> QED BY <1>3, <1>5 DEF Weighed

\* Pruning drops nothing, and only what has no number is not strong.
LEMMA StrongFacts ==
    ASSUME NEW g, Weighed(g, 192)
    PROVE  /\ Pruned(g) = g /\ Strong(g) \in SUBSET DOMAIN g
           /\ {e \in DOMAIN g : g[e].strength # NaN} \subseteq Strong(g)
<1>1. ASSUME NEW e \in DOMAIN g
      PROVE  /\ AtLeast(g[e].prob, 100) /\ ~Below(g[e].prob, 100) /\ ~Below(g[e].strength, 50)
             /\ g[e].strength # NaN => AtLeast(g[e].strength, 50)
  <2>1. PICK q \in 0..1000 : q = g[e].prob /\ q >= 192
    BY DEF Weighed, Evidence
  <2>2. PICK r \in Int : r = g[e].strength /\ (r = NaN \/ r >= 50)
    BY DEF Weighed, Evidence, Passes, NaN
  <2>3. AtLeast(q, 100) /\ ~Below(q, 100)
    BY <2>1, SMTT(30) DEF AtLeast, Below, NaN
  <2>4. ~Below(r, 50) /\ (r # NaN => AtLeast(r, 50))
    BY <2>2 DEF AtLeast, Below, NaN
  <2> QED BY <2>1, <2>2, <2>3, <2>4
<1>2. {e \in DOMAIN g : g[e].strength # NaN} \subseteq Strong(g) /\ Weak(g) = {}
  BY <1>1 DEF Strong, Weak, MinProbability, MinStrength
<1>3. Pruned(g) = [e \in DOMAIN g |-> g[e]]
  BY <1>2 DEF Pruned
<1> QED BY <1>2, <1>3 DEF Weighed, Strong

Steps == {"discover", "enrich", "intervene", "manage", "resolve", "hypothesise", "filter",
          "infer", "trace", "explain", "act", "done"}

Floor == IF step = "enrich" THEN 801 ELSE IF step = "intervene" THEN 240 ELSE 192

\* What every edge still has, step by step.
Graphed == step \in Steps /\ Weighed(graph, Floor)

LEMMA GraphedInit == Init => Graphed
<1> SUFFICES ASSUME Init PROVE Graphed
  OBVIOUS
<1>1. graph = <<>> /\ step = "discover"
  BY DEF Init
<1>2. DOMAIN graph = {}
  BY <1>1
<1>3. graph = [e \in {} |-> 0]
  BY <1>1
<1>4. graph \in [DOMAIN graph -> Evidence]
  BY <1>2, <1>3
<1> QED BY <1>1, <1>2, <1>4 DEF Graphed, Weighed, Steps

\* One step of the analysis, as far as the graph is concerned.
LEMMA GraphStep ==
    ASSUME Graphed, [Next]_vars
    PROVE  /\ Graphed'
           /\ step # "discover" => DOMAIN graph' = DOMAIN graph
           /\ step \notin {"discover", "enrich", "intervene"} => graph' = graph
           /\ step # step' \/ UNCHANGED vars
<1>1. CASE Discover
  <2>1. step = "discover" /\ step' = "enrich"
    BY <1>1 DEF Discover
  <2>2. \E k \in 0..MaxEdges : \E found \in kSubset(k, Pairs) :
            \E m \in 0..MaxFlat : \E flat \in kSubset(m, Nodes) :
            \E t \in 0..MaxTraced : \E traced \in kSubset(t, found) :
            \E age \in TraceAges : graph' = Discovered(found \ traced, traced, age, flat)
    BY <1>1 DEF Discover
  <2>3. \E flat : \E M, T \in SUBSET Pairs : \E age \in TraceAges : graph' = Discovered(M, T, age, flat)
    <3>1. PICK found \in SUBSET Pairs :
              \E m \in 0..MaxFlat : \E flat \in kSubset(m, Nodes) :
              \E t \in 0..MaxTraced : \E traced \in kSubset(t, found) :
              \E age \in TraceAges : graph' = Discovered(found \ traced, traced, age, flat)
      BY <2>2 DEF kSubset
    <3>2. PICK flat : \E t \in 0..MaxTraced : \E traced \in kSubset(t, found) :
                          \E age \in TraceAges : graph' = Discovered(found \ traced, traced, age, flat)
      BY <3>1
    <3>3. PICK traced \in SUBSET found :
                   \E age \in TraceAges : graph' = Discovered(found \ traced, traced, age, flat)
      BY <3>2 DEF kSubset
    <3>4. traced \in SUBSET Pairs /\ found \ traced \in SUBSET Pairs
      BY <3>1, <3>3
    <3> QED BY <3>3, <3>4
  <2>4. TraceAges \subseteq Nat
    BY PhasesAssumption
  <2>5. Weighed(graph', 801)
    <3>1. PICK flat : \E M, T \in SUBSET Pairs : \E age \in TraceAges : graph' = Discovered(M, T, age, flat)
      BY <2>3
    <3>2. PICK M \in SUBSET Pairs, T \in SUBSET Pairs, age \in TraceAges : graph' = Discovered(M, T, age, flat)
      BY <3>1
    <3>3. age \in Nat
      BY <2>4
    <3> QED BY <3>2, <3>3, DiscoveredFacts
  <2> QED BY <2>1, <2>5 DEF Graphed, Floor, Steps
<1>2. CASE Enrich
  <2>1. step = "enrich" /\ step' = "intervene"
    BY <1>2 DEF Enrich
  <2>2. PICK weak : graph' = Enriched(graph, weak)
    BY <1>2 DEF Enrich
  <2>3. DOMAIN graph' = DOMAIN graph /\ Weighed(graph', 240)
    BY <2>1, <2>2, EnrichedFacts DEF Graphed, Floor
  <2> QED BY <2>1, <2>3 DEF Graphed, Floor, Steps
<1>3. CASE Intervene
  <2>1. step = "intervene" /\ step' = "manage"
    BY <1>3 DEF Intervene
  <2>2. PICK valid : graph' = Intervened(graph, valid)
    BY <1>3 DEF Intervene
  <2>3. DOMAIN graph' = DOMAIN graph /\ Weighed(graph', 192)
    BY <2>1, <2>2, IntervenedFacts DEF Graphed, Floor
  <2> QED BY <2>1, <2>3 DEF Graphed, Floor, Steps
<1>4. ASSUME step \in Steps \ {"discover", "enrich", "intervene"},
             step' \in Steps \ {"discover", "enrich", "intervene", step}, graph' = graph
      PROVE  /\ Graphed'
             /\ step # "discover" => DOMAIN graph' = DOMAIN graph
             /\ step \notin {"discover", "enrich", "intervene"} => graph' = graph
             /\ step # step' \/ UNCHANGED vars
  BY <1>4 DEF Graphed, Floor
<1>5. CASE Manage
  <2>1. step = "manage" /\ step' = "resolve"
    BY <1>5 DEF Manage
  <2>2. graph' = graph
    BY <1>5, <2>1, ManagedFacts DEF Graphed, Floor
  <2> QED BY <1>4, <2>1, <2>2 DEF Steps
<1>6. CASE Resolve
  BY <1>4, <1>6 DEF Resolve, Steps
<1>7. CASE Hypothesise
  <2>1. step = "hypothesise" /\ step' \in {"filter", "done"}
    BY <1>7 DEF Hypothesise, FinishEarly
  <2>2. graph' = graph
    <3>1. graph' = graph \/ graph' = Pruned(graph)
      BY <1>7 DEF Hypothesise, FinishEarly
    <3>2. Weighed(graph, 192)
      BY <2>1 DEF Graphed, Floor
    <3> QED BY <3>1, <3>2, StrongFacts
  <2> QED BY <1>4, <2>1, <2>2 DEF Steps
<1>8. CASE Filter
  <2>1. step = "filter" /\ step' \in {"infer", "done"} /\ graph' = graph
    BY <1>8 DEF Filter, FinishEarly
  <2> QED BY <1>4, <2>1 DEF Steps
<1>9. CASE Infer
  <2>1. step = "infer" /\ step' \in {"trace", "done"} /\ graph' = graph
    BY <1>9 DEF Infer, FinishEarly
  <2> QED BY <1>4, <2>1 DEF Steps
<1>10. CASE Trace
  BY <1>4, <1>10 DEF Trace, Steps
<1>11. CASE Explain
  <2>1. step = "explain" /\ step' \in {"act", "done"} /\ graph' = graph
    BY <1>11 DEF Explain
  <2> QED BY <1>4, <2>1 DEF Steps
<1>12. CASE Act
  BY <1>4, <1>12 DEF Act, Steps
<1>13. CASE UNCHANGED vars
  BY <1>13 DEF vars, Graphed, Floor
<1> QED
  BY <1>1, <1>2, <1>3, <1>5, <1>6, <1>7, <1>8, <1>9, <1>10, <1>11, <1>12, <1>13 DEF Next

\* No edge with a strength is lost before the hypotheses are built, whatever the
\* graph, and what the graph manager explores and the pruning drops changes
\* nothing (pipeline.go:508, :535).
THEOREM NoEdgeIsLost == Spec => GraphIsKept
<1>1. ASSUME Graphed, [Next]_vars
      PROVE  [/\ step # "discover" => DOMAIN graph' = Edges
              /\ step = "manage" => graph' = graph
              /\ step = "hypothesise" => {e \in Edges : graph[e].strength # NaN} \subseteq Strong(graph)
              /\ \A e \in DOMAIN graph' : graph'[e].prob \in 0..1000]_vars
  <2>1. \A e \in DOMAIN graph' : graph'[e].prob \in 0..1000
    <3>1. graph' \in [DOMAIN graph' -> Evidence]
      BY <1>1, GraphStep DEF Graphed, Weighed
    <3> QED BY <3>1 DEF Evidence
  <2>2. step = "hypothesise" => {e \in Edges : graph[e].strength # NaN} \subseteq Strong(graph)
    BY <1>1, StrongFacts DEF Graphed, Floor, Edges
  <2> QED BY <1>1, <2>1, <2>2, GraphStep DEF Edges
<1>2. Graphed /\ [Next]_vars => Graphed'
  BY GraphStep
<1> QED BY <1>1, <1>2, GraphedInit, PTL DEF Spec, GraphIsKept

(***************************************************************************)
(* The end of an analysis.                                                 *)
(***************************************************************************)

\* A node outside of the graph has neither edges nor a hypothesis.
LEMMA OutsideFacts ==
    ASSUME NEW g, DOMAIN g \subseteq Pairs, NEW S \in SUBSET DOMAIN g, NEW t, t \notin Nodes
    PROVE  Hypotheses(g, S, t) = {{}} /\ Reversed(DOMAIN g, t) = {}
<1> DEFINE E == DOMAIN g
<1>1. Graph(E) /\ \A e \in E : e[1] # t /\ e[2] # t
  BY DEF Pairs, Graph
<1>2. EdgesInto(S, {t}) = {} /\ {e \in E : e[1] = t} = {}
  BY <1>1 DEF EdgesInto
<1>3. Selected(S, t) = {{}}
  <2>1. Cardinality({}) <= MaxCauses
    BY FS_EmptySet, MaxCausesAssumption
  <2> QED BY <1>2, <2>1 DEF Selected
<1>4. AncestorsOf(E, {}) = {}
  <2>1. \A e \in E : e[2] \in {} \/ e[2] \in {} => e[1] \in {}
    OBVIOUS
  <2>2. AncestorsOf(E, {}) \subseteq {}
    BY <1>1, <2>1, AncestorsOfFacts
  <2> QED BY <2>2
<1>5. Expanded(E, {}) = {}
  BY <1>4 DEF Expanded, EdgesInto
<1>6. Resolved(g, {}) = {{}}
  BY DEF Resolved, OneEdgePerSource
<1>7. Hypotheses(g, S, t) = {{}}
  BY <1>3, <1>5, <1>6 DEF Hypotheses
<1> QED BY <1>2, <1>7 DEF Reversed, Turned

\* What holds on the way to the gate.
Awaiting ==
    /\ step # "done" => gate = "none"
    /\ step \in {"discover", "enrich", "intervene", "manage", "resolve", "hypothesise", "filter", "infer"} =>
           first = NoNode
    /\ step = "act" \/ gate = "full" => causes # {}
    /\ step \in {"discover", "enrich", "intervene", "manage", "resolve", "hypothesise"} => hyp = {}
    /\ step \in {"discover", "enrich", "intervene", "manage", "resolve"} => target = NoNode
    /\ target \in Infra =>
           step \notin {"infer", "trace", "explain", "act"} /\ (step = "filter" => hyp = {}) /\ ~GraphIsPublished

LEMMA EarlyFacts ==
    ASSUME Awaiting, step \in {"hypothesise", "filter", "infer"}, FinishEarly
    PROVE  Awaiting' /\ ~GraphIsPublished' /\ step' = "done"
<1>1. step' = "done" /\ target' = target /\ hyp' = hyp /\ first = NoNode
  BY DEF FinishEarly, Awaiting
<1>2. gate' = "local" \/ (gate' = "empty" /\ first' = first)
  BY DEF FinishEarly
<1>3. ~GraphIsPublished'
  BY <1>1, <1>2 DEF GraphIsPublished
<1> QED BY <1>1, <1>2, <1>3 DEF Awaiting

LEMMA AwaitingStep ==
    ASSUME Graphed, Awaiting, [Next]_vars
    PROVE  Awaiting'
<1>1. CASE Discover \/ Enrich \/ Intervene \/ Manage
  <2>1. step \in {"discover", "enrich", "intervene", "manage"}
        /\ step' \in {"enrich", "intervene", "manage", "resolve"}
        /\ UNCHANGED <<target, hyp, first, gate>>
    BY <1>1 DEF Discover, Enrich, Intervene, Manage
  <2> QED BY <2>1, PhasesAssumption DEF Awaiting
<1>2. CASE Resolve
  <2>1. step = "resolve" /\ step' = "hypothesise" /\ UNCHANGED <<hyp, first, gate>>
    BY <1>2 DEF Resolve
  <2> QED BY <2>1 DEF Awaiting, GraphIsPublished
<1>3. CASE Hypothesise /\ step' = "filter"
  <2>1. /\ step = "hypothesise" /\ hyp' \in Hypotheses(graph, Strong(graph), target)
        /\ UNCHANGED <<target, first, gate>>
    BY <1>3 DEF Hypothesise, FinishEarly
  <2>2. target \in Infra => hyp' = {}
    <3>1. Weighed(graph, 192)
      BY <2>1 DEF Graphed, Floor
    <3>2. Strong(graph) \in SUBSET DOMAIN graph /\ DOMAIN graph \subseteq Pairs
      BY <3>1, StrongFacts DEF Weighed
    <3>3. target \in Infra => target \notin Nodes
      BY PhasesAssumption
    <3>4. target \notin Nodes => Hypotheses(graph, Strong(graph), target) = {{}}
      BY <3>2, OutsideFacts
    <3> QED BY <2>1, <3>3, <3>4
  <2> QED BY <1>3, <2>1, <2>2 DEF Awaiting, GraphIsPublished
<1>4. CASE Hypothesise /\ FinishEarly
  BY <1>4, EarlyFacts DEF Hypothesise
<1>5. CASE Filter /\ step' = "infer"
  <2>1. /\ step = "filter" /\ UNCHANGED <<target, first, gate>>
        /\ hyp # {} \/ Reversed(Edges, target) # {}
    BY <1>5 DEF Filter, FinishEarly, Kept
  <2>2. target \notin Infra
    <3>1. DOMAIN graph \subseteq Pairs
      BY DEF Graphed, Weighed
    <3>2. target \in Infra => target \notin Nodes
      BY PhasesAssumption
    <3>3. target \in Infra => hyp = {}
      BY <2>1 DEF Awaiting
    <3>4. target \notin Nodes => Reversed(DOMAIN graph, target) = {}
      BY <3>1, OutsideFacts
    <3> QED BY <2>1, <3>2, <3>3, <3>4 DEF Edges
  <2> QED BY <1>5, <2>1, <2>2 DEF Awaiting, GraphIsPublished
<1>6. CASE Filter /\ FinishEarly
  BY <1>6, EarlyFacts DEF Filter
<1>7. CASE Infer /\ step' = "trace"
  <2>1. step = "infer" /\ UNCHANGED <<target, gate>>
    BY <1>7 DEF Infer, FinishEarly
  <2> QED BY <1>7, <2>1 DEF Awaiting
<1>8. CASE Infer /\ FinishEarly
  BY <1>8, EarlyFacts DEF Infer
<1>9. CASE Trace
  <2>1. step = "trace" /\ step' = "explain" /\ UNCHANGED <<target, gate>>
    BY <1>9 DEF Trace
  <2> QED BY <2>1 DEF Awaiting
<1>10. CASE Explain
  <2>1. step = "explain" /\ UNCHANGED target
        /\ \/ causes' = {} /\ gate' = "empty" /\ step' = "done"
           \/ causes' # {} /\ step' = "act" /\ gate' = gate
    BY <1>10 DEF Explain
  <2> QED BY <2>1 DEF Awaiting
<1>11. CASE Act
  <2>1. step = "act" /\ step' = "done" /\ gate' = "full" /\ UNCHANGED <<target, causes>>
    BY <1>11 DEF Act
  <2> QED BY <2>1 DEF Awaiting
<1>12. CASE UNCHANGED vars
  BY <1>12 DEF vars, results, Awaiting, GraphIsPublished
<1>13. /\ Hypothesise => step' = "filter" \/ FinishEarly
       /\ Filter => step' = "infer" \/ FinishEarly
       /\ Infer => step' = "trace" \/ FinishEarly
  BY DEF Hypothesise, Filter, Infer
<1> QED
  BY <1>1, <1>2, <1>3, <1>4, <1>5, <1>6, <1>7, <1>8, <1>9, <1>10, <1>11, <1>12, <1>13 DEF Next

(***************************************************************************)
(* The depths of an acyclic graph.                                         *)
(***************************************************************************)

LEMMA GreatestAt ==
    ASSUME NEW A, IsFiniteSet(A), A # {}, NEW f, \A a \in A : f[a] \in Nat
    PROVE  \E a \in A : \A b \in A : f[b] <= f[a]
<1> DEFINE Over(a) == {b \in A : f[b] > f[a]}
           S == {Cardinality(Over(a)) : a \in A}
<1>1. ASSUME NEW a \in A PROVE IsFiniteSet(Over(a)) /\ Cardinality(Over(a)) \in Nat
  <2>1. IsFiniteSet(Over(a))
    BY FS_Subset
  <2> QED BY <2>1, FS_CardinalityType
<1>2. S \in SUBSET Nat /\ S # {}
  BY <1>1
<1>3. PICK a \in A : \A b \in A : Cardinality(Over(a)) <= Cardinality(Over(b))
  <2> HIDE DEF Over
  <2>1. PICK x \in S : \A y \in S : x <= y
    <3> HIDE DEF S
    <3> QED BY <1>2, LeastOf
  <2> QED BY <2>1
<1>4. SUFFICES ASSUME NEW b \in A, ~(f[b] <= f[a]) PROVE FALSE
  BY <1>3
<1>5. f[b] > f[a]
  BY <1>4
<1>6. Over(b) \in SUBSET Over(a) /\ b \in Over(a) /\ b \notin Over(b)
  <2>1. \A c \in A : f[c] > f[b] => f[c] > f[a]
    BY <1>5
  <2>2. ~(f[b] > f[b])
    OBVIOUS
  <2> QED BY <1>5, <2>1, <2>2
<1> HIDE DEF Over
<1>7. Cardinality(Over(b)) <= Cardinality(Over(a)) /\ Cardinality(Over(a)) # Cardinality(Over(b))
  BY <1>1, <1>6, FS_Subset
<1>8. Cardinality(Over(a)) <= Cardinality(Over(b))
  BY <1>3
<1> QED BY <1>1, <1>7, <1>8

\* Without cycles every set of nodes holds one that is above none of them.
LEMMA BottommostExists ==
    ASSUME NEW E, Graph(E), Acyclic(E), NEW A \in SUBSET Nodes, A # {}
    PROVE  \E n \in A : \A m \in A : n \notin Ancestors(E, m)
<1>1. IsFiniteSet(A) /\ \A n \in Nodes : IsFiniteSet(Ancestors(E, n)) /\ Cardinality(Ancestors(E, n)) \in Nat
  <2>1. \A n \in Nodes : Ancestors(E, n) \in SUBSET Nodes
    BY AncestorsFacts
  <2> QED BY <2>1, NodesCount, FS_Subset, FS_CardinalityType
<1>2. PICK f : f = [n \in A |-> Cardinality(Ancestors(E, n))]
  OBVIOUS
<1>3. \A n \in A : f[n] = Cardinality(Ancestors(E, n)) /\ f[n] \in Nat
  BY <1>1, <1>2
<1>4. PICK n \in A : \A m \in A : f[m] <= f[n]
  BY <1>1, <1>3, GreatestAt
<1>5. SUFFICES ASSUME NEW m \in A, n \in Ancestors(E, m) PROVE FALSE
  BY <1>4
<1>6. Ancestors(E, n) \in SUBSET Ancestors(E, m)
  BY <1>5, AncestorsTransitive
<1>7. n \notin Ancestors(E, n)
  BY DEF Acyclic
<1>8. Cardinality(Ancestors(E, n)) <= Cardinality(Ancestors(E, m))
      /\ Cardinality(Ancestors(E, n)) # Cardinality(Ancestors(E, m))
  BY <1>1, <1>5, <1>6, <1>7, FS_Subset
<1> QED BY <1>3, <1>4, <1>8

LEMMA SortedFacts ==
    ASSUME NEW E, Graph(E), Acyclic(E)
    PROVE  Sorted(E) = Nodes
<1>1. \A n \in Nodes : Ancestors(E, n) \subseteq Nodes
  BY AncestorsFacts
<1> QED BY <1>1 DEF Sorted, Acyclic

\* The depth of a node from the depths of its parents.
Depth(E, f, n) ==
    LET above == Parents(E, n) \intersect Nodes
    IN  IF above = {} THEN 0 ELSE 1 + Max({f[p] : p \in above})

LEMMA DepthFacts ==
    ASSUME NEW E, Graph(E), NEW f, NEW n, \A p \in Parents(E, n) : f[p] \in Nat
    PROVE  Depth(E, f, n) \in Nat /\ \A p \in Parents(E, n) : f[p] < Depth(E, f, n)
<1>1. PICK above : above = Parents(E, n)
  OBVIOUS
<1>2. above \in SUBSET Nodes
  BY <1>1 DEF Parents, Graph
<1>3. PICK S : S = {f[p] : p \in above}
  OBVIOUS
<1>4. Depth(E, f, n) = IF above = {} THEN 0 ELSE 1 + Max(S)
  <2>1. Parents(E, n) \intersect Nodes = above
    BY <1>1, <1>2
  <2> QED BY <1>3, <2>1 DEF Depth
<1>5. CASE above = {}
  BY <1>1, <1>4, <1>5
<1>6. CASE above # {}
  <2>1. IsFiniteSet(above)
    BY <1>2, NodesCount, FS_Subset
  <2>2. \E p \in above : \A q \in above : f[q] <= f[p]
    BY <1>1, <1>6, <2>1, GreatestAt
  <2>3. \A p \in above : f[p] \in Nat
    BY <1>1
  <2>4. \E x \in S : \A y \in S : x >= y
    BY <1>3, <2>2, <2>3
  <2>5. Max(S) \in S /\ \A y \in S : Max(S) >= y
    BY <2>4 DEF Max
  <2>6. \A p \in above : f[p] <= Max(S)
    BY <1>3, <2>3, <2>5
  <2>7. Max(S) \in Nat
    BY <1>3, <2>3, <2>5
  <2> QED BY <1>1, <1>4, <1>6, <2>3, <2>6, <2>7
<1> QED BY <1>5, <1>6

LEMMA DepthsExist ==
    ASSUME NEW E, Graph(E), Acyclic(E)
    PROVE  \E f \in [Nodes -> Nat] : \A n \in Nodes : f[n] = Depth(E, f, n)
<1> DEFINE Above(A) == \A e \in E : e[2] \in A => e[1] \in A
           Fine(A) == Above(A) /\ \E f \in [Nodes -> Nat] : \A n \in A : f[n] = Depth(E, f, n)
           Good == {A \in SUBSET Nodes : Fine(A)}
           S == {Cardinality(Nodes \ A) : A \in Good}
<1>1. {} \in Good
  <2>1. [n \in Nodes |-> 0] \in [Nodes -> Nat]
    OBVIOUS
  <2> QED BY <2>1
<1>2. \A A \in SUBSET Nodes : IsFiniteSet(Nodes \ A) /\ Cardinality(Nodes \ A) \in Nat
  BY NodesCount, FS_Subset, FS_CardinalityType
<1>3. PICK A \in Good : \A B \in Good : Cardinality(Nodes \ A) <= Cardinality(Nodes \ B)
  <2>1. S \in SUBSET Nat /\ S # {}
    <3> HIDE DEF Fine
    <3> QED BY <1>1, <1>2
  <2>2. PICK x \in S : \A y \in S : x <= y
    <3> HIDE DEF S
    <3> QED BY <2>1, LeastOf
  <2> HIDE DEF Good
  <2> QED BY <2>2
<1>4. CASE Nodes \ A = {}
  <2>1. A = Nodes
    BY <1>4
  <2> QED BY <2>1
<1>5. CASE Nodes \ A # {}
  <2>1. Nodes \ A \in SUBSET Nodes /\ Nodes \ A # {}
    BY <1>5
  <2>2. PICK n \in Nodes \ A : Ancestors(E, n) \intersect (Nodes \ A) = {}
    BY <2>1, TopmostExists
  <2>3. \A p \in Parents(E, n) : p \in Ancestors(E, n) /\ p \in A /\ p # n
    <3>1. \A p \in Parents(E, n) : \E e \in E : e[2] = n /\ e[1] = p
      BY DEF Parents
    <3>2. \A p \in Parents(E, n) : p \in Ancestors(E, n)
      BY <3>1, AncestorsFacts
    <3>3. Ancestors(E, n) \subseteq Nodes
      BY AncestorsFacts
    <3> QED BY <2>2, <3>2, <3>3
  <2>4. PICK f \in [Nodes -> Nat] : \A m \in A : f[m] = Depth(E, f, m)
    BY <1>3
  <2>5. Depth(E, f, n) \in Nat
    <3>1. \A p \in Parents(E, n) : f[p] \in Nat
      BY <2>3, <1>3, <2>4
    <3> QED BY <3>1, DepthFacts
  <2>6. PICK g : g = [f EXCEPT ![n] = Depth(E, f, n)]
    OBVIOUS
  <2>7. g \in [Nodes -> Nat] /\ g[n] = Depth(E, f, n) /\ \A m \in A : g[m] = f[m]
    BY <1>3, <2>4, <2>5, <2>6
  <2>8. ASSUME NEW m, Parents(E, m) \subseteq A PROVE Depth(E, g, m) = Depth(E, f, m)
    <3>1. PICK P : P = Parents(E, m) \intersect Nodes
      OBVIOUS
    <3>2. {g[p] : p \in P} = {f[p] : p \in P}
      BY <2>7, <2>8, <3>1
    <3> QED BY <3>1, <3>2 DEF Depth
  <2>9. ASSUME NEW m \in A PROVE Parents(E, m) \subseteq A
    BY <1>3 DEF Parents
  <2>10. \A m \in A \union {n} : g[m] = Depth(E, g, m)
    BY <2>3, <2>4, <2>7, <2>8, <2>9
  <2>11. Above(A \union {n})
    BY <1>3, <2>3 DEF Parents
  <2>12. A \union {n} \in Good
    BY <1>3, <2>2, <2>7, <2>10, <2>11
  <2> HIDE DEF Good
  <2>13. PICK L : L = Nodes \ (A \union {n})
    OBVIOUS
  <2>14. L \in SUBSET (Nodes \ A) /\ n \notin L /\ n \in Nodes \ A
    BY <2>2, <2>13
  <2>15. Cardinality(Nodes \ A) <= Cardinality(L)
    BY <1>3, <2>12, <2>13
  <2>16. A \in SUBSET Nodes
    BY <1>3 DEF Good
  <2>17. IsFiniteSet(Nodes \ A) /\ Cardinality(Nodes \ A) \in Nat
    BY <1>2, <2>16
  <2>18. Cardinality(L) <= Cardinality(Nodes \ A) /\ Cardinality(L) # Cardinality(Nodes \ A) /\ IsFiniteSet(L)
    BY <2>14, <2>17, FS_Subset
  <2>19. Cardinality(L) \in Nat
    BY <2>18, FS_CardinalityType
  <2> QED BY <2>15, <2>17, <2>18, <2>19
<1> QED BY <1>4, <1>5

\* On an acyclic graph the depths go up along every edge.
LEMMA DepthsClimb ==
    ASSUME NEW E, Graph(E), Acyclic(E)
    PROVE  Depths(E) \in [Nodes -> Nat] /\ \A e \in E : Depths(E)[e[1]] < Depths(E)[e[2]]
<1> DEFINE Body(f) == [n \in Nodes |-> LET above == Parents(E, n) \intersect Sorted(E)
                                       IN  IF above = {} THEN 0 ELSE 1 + Max({f[p] : p \in above})]
           depth == CHOOSE f : f = Body(f)
<1>1. Depths(E) = depth
  BY DEF Depths
<1>2. \A f : Body(f) = [n \in Nodes |-> Depth(E, f, n)]
  BY SortedFacts DEF Depth
<1> HIDE DEF Body
<1>3. PICK f \in [Nodes -> Nat] : \A n \in Nodes : f[n] = Depth(E, f, n)
  BY DepthsExist
<1>4. f = Body(f)
  BY <1>2, <1>3
<1>5. depth = Body(depth)
  BY <1>4
<1>6. PICK g : g = depth
  OBVIOUS
<1> HIDE DEF depth
<1>7. g = [n \in Nodes |-> Depth(E, g, n)]
  BY <1>2, <1>5, <1>6
<1> DEFINE Wrong == {n \in Nodes : g[n] \notin Nat}
<1>8. ASSUME Wrong # {} PROVE FALSE
  <2>1. PICK n \in Wrong : Ancestors(E, n) \intersect Wrong = {}
    <3> Wrong \in SUBSET Nodes
      OBVIOUS
    <3> HIDE DEF Wrong
    <3> QED BY <1>8, TopmostExists
  <2>2. \A p \in Parents(E, n) : g[p] \in Nat
    <3>1. \A p \in Parents(E, n) : \E e \in E : e[2] = n /\ e[1] = p
      BY DEF Parents
    <3>2. \A p \in Parents(E, n) : p \in Ancestors(E, n) /\ p \in Nodes
      BY <3>1, AncestorsFacts
    <3> QED BY <2>1, <3>2
  <2>3. Depth(E, g, n) \in Nat
    BY <2>2, DepthFacts
  <2> QED BY <1>7, <2>1, <2>3
<1>9. \A n \in Nodes : g[n] \in Nat
  BY <1>8
<1>10. g \in [Nodes -> Nat]
  <2>1. g = [n \in Nodes |-> g[n]]
    BY <1>7
  <2> QED BY <1>9, <2>1
<1>11. ASSUME NEW e \in E PROVE g[e[1]] < g[e[2]]
  <2>1. e[1] \in Nodes /\ e[2] \in Nodes /\ e[1] \in Parents(E, e[2])
    BY DEF Graph, Parents
  <2>2. Parents(E, e[2]) \subseteq Nodes
    BY DEF Graph, Parents
  <2>3. g[e[1]] < Depth(E, g, e[2])
    BY <1>9, <2>1, <2>2, DepthFacts
  <2> QED BY <1>7, <2>1, <2>3
<1> QED BY <1>1, <1>6, <1>10, <1>11

\* The nodes without parents that reach t.
Origins(E, t) == {n \in Nodes : Parents(E, n) = {} /\ Reaches(E, n, t)}

\* Queue physics finds them all, and there is one.
LEMMA PhysicsRootsFacts ==
    ASSUME NEW E, Graph(E), Acyclic(E), NEW t \in Nodes
    PROVE  PhysicsRoots(E, t) = Origins(E, t) /\ Origins(E, t) # {}
<1> DEFINE Up == {t} \union Ancestors(E, t)
<1>0. \A e \in E : e[1] \in Nodes /\ e[2] \in Nodes
  BY DEF Graph
<1>1. {e \in E : Depths(E)[e[1]] <= Depths(E)[e[2]]} = E
  <2>1. \A e \in E : Depths(E)[e[1]] \in Nat /\ Depths(E)[e[2]] \in Nat /\ Depths(E)[e[1]] < Depths(E)[e[2]]
    BY <1>0, DepthsClimb
  <2>2. \A e \in E : Depths(E)[e[1]] <= Depths(E)[e[2]]
    BY <2>1
  <2> QED BY <2>2
<1>2. PICK C : C = Closure(Turned(E), {t})
  OBVIOUS
<1>3. Traced(E, t) = C
  BY <1>1, <1>2 DEF Traced
<1>4. C \in SUBSET Nodes /\ t \in C /\ Closed(Turned(E), C)
      /\ \A T : t \in T /\ Closed(Turned(E), T) => C \subseteq T
  <2>1. {t} \in SUBSET Nodes
    OBVIOUS
  <2> QED BY <1>2, <2>1, TurnedFacts, ClosureFacts
<1>5. Up \in SUBSET Nodes
  BY AncestorsFacts
<1>6. C \subseteq Up
  <2>1. Closed(Turned(E), Up)
    <3> SUFFICES ASSUME NEW d \in Turned(E), d[1] \in Up PROVE d[2] \in Up
      BY DEF Closed
    <3>1. PICK e \in E : d = <<e[2], e[1]>>
      BY DEF Turned
    <3> QED BY <3>1, AncestorsFacts
  <2> QED BY <1>4, <2>1
<1>7. Up \subseteq C
  <2>1. ASSUME NEW e \in E, e[2] = t \/ e[2] \in C PROVE e[1] \in C
    <3>1. PICK d \in Turned(E) : d = <<e[2], e[1]>>
      BY DEF Turned
    <3> QED BY <1>4, <2>1, <3>1 DEF Closed
  <2>2. Ancestors(E, t) \subseteq C
    BY <2>1, AncestorsFacts
  <2> QED BY <1>4, <2>2
<1>8. C = Up
  BY <1>6, <1>7
<1>9. PhysicsRoots(E, t) = Origins(E, t)
  BY <1>3, <1>5, <1>8 DEF PhysicsRoots, Origins, Reaches
<1>10. PICK n \in Up : Ancestors(E, n) \intersect Up = {}
  <2>1. Up \in SUBSET Nodes /\ Up # {}
    BY <1>5
  <2> HIDE DEF Up
  <2> QED BY <2>1, TopmostExists
<1>11. Parents(E, n) = {}
  <2> SUFFICES ASSUME NEW p \in Parents(E, n) PROVE FALSE
    OBVIOUS
  <2>1. PICK e \in E : e[1] = p /\ e[2] = n
    BY DEF Parents
  <2>2. p \in Ancestors(E, n) /\ p \in Ancestors(E, t)
    BY <1>10, <2>1, AncestorsFacts
  <2> QED BY <1>10, <2>2
<1>12. n \in Origins(E, t)
  BY <1>5, <1>10, <1>11 DEF Origins, Reaches
<1> QED BY <1>9, <1>12

(***************************************************************************)
(* Walks: what is found in rounds, from what was found so far.             *)
(***************************************************************************)

Spreads(g, U, s, N, onto) ==
    /\ g \in [0..N -> SUBSET U] /\ g[0] = s
    /\ \A k \in 1..N : g[k] = g[k - 1] \union UNION {onto[x] : x \in g[k - 1]}

LEMMA SpreadExists ==
    ASSUME NEW U, NEW s \in SUBSET U, NEW N \in Nat, NEW onto \in [U -> SUBSET U]
    PROVE  \E g : Spreads(g, U, s, N, onto)
<1>1. PICK F : F = [x \in Nat \X SUBSET U |-> x[2] \union UNION {onto[y] : y \in x[2]}]
  OBVIOUS
<1>2. F \in [Nat \X SUBSET U -> SUBSET U]
  BY <1>1
<1>3. \E g : Follows(g, SUBSET U, s, N, F)
  BY <1>2, Iteration
<1>4. PICK g : Follows(g, SUBSET U, s, N, F)
  BY <1>3
<1>5. ASSUME NEW k \in 1..N PROVE g[k] = g[k - 1] \union UNION {onto[x] : x \in g[k - 1]}
  <2>1. k \in Nat /\ k - 1 \in 0..N
    OBVIOUS
  <2>2. g[k - 1] \in SUBSET U /\ g[k] = F[<<k, g[k - 1]>>]
    BY <1>4, <2>1 DEF Follows
  <2> QED BY <1>1, <2>1, <2>2
<1> QED BY <1>4, <1>5 DEF Follows, Spreads

\* Rounds only add.
LEMMA SpreadGrows ==
    ASSUME NEW U, NEW s, NEW N \in Nat, NEW onto, NEW g, Spreads(g, U, s, N, onto),
           NEW k \in 0..N, NEW m \in k..N
    PROVE  g[k] \subseteq g[m]
<1>0. g \in [0..N -> SUBSET U] /\ \A i \in 1..N : g[i] = g[i - 1] \union UNION {onto[x] : x \in g[i - 1]}
  BY DEF Spreads
<1> DEFINE P == {j \in Nat : k + j <= N => g[k] \subseteq g[k + j]}
<1>1. 0 \in P
  OBVIOUS
<1>2. ASSUME NEW n \in Nat, n \in P PROVE n + 1 \in P
  <2> SUFFICES ASSUME k + (n + 1) <= N PROVE g[k] \subseteq g[k + (n + 1)]
    OBVIOUS
  <2>1. k + (n + 1) \in 1..N /\ (k + (n + 1)) - 1 = k + n /\ k + n <= N
    OBVIOUS
  <2>2. g[k + n] \subseteq g[k + (n + 1)]
    BY <1>0, <2>1
  <2> QED BY <1>2, <2>1, <2>2
<1> HIDE DEF P
<1>3. Nat \subseteq P
  BY <1>1, <1>2, Climbing
<1>4. m - k \in Nat /\ k + (m - k) = m /\ m <= N
  OBVIOUS
<1>5. m - k \in P
  BY <1>3, <1>4
<1> QED BY <1>4, <1>5 DEF P

\* And they stay inside every set that they cannot leave.
LEMMA SpreadStays ==
    ASSUME NEW U, NEW s, NEW N \in Nat, NEW onto, NEW g, Spreads(g, U, s, N, onto),
           NEW T, s \subseteq T, \A x \in U \intersect T : onto[x] \subseteq T, NEW k \in 0..N
    PROVE  g[k] \subseteq T
<1>0. /\ g \in [0..N -> SUBSET U] /\ g[0] = s
      /\ \A i \in 1..N : g[i] = g[i - 1] \union UNION {onto[x] : x \in g[i - 1]}
  BY DEF Spreads
<1> DEFINE P == {j \in Nat : j <= N => g[j] \subseteq T}
<1>1. 0 \in P
  BY <1>0
<1>2. ASSUME NEW n \in Nat, n \in P PROVE n + 1 \in P
  <2> SUFFICES ASSUME n + 1 <= N PROVE g[n + 1] \subseteq T
    OBVIOUS
  <2>1. n + 1 \in 1..N /\ (n + 1) - 1 = n /\ n \in 0..N
    OBVIOUS
  <2>2. g[n + 1] = g[n] \union UNION {onto[x] : x \in g[n]} /\ g[n] \in SUBSET U /\ g[n] \subseteq T
    BY <1>0, <1>2, <2>1
  <2> QED BY <2>2
<1> HIDE DEF P
<1>3. k \in P /\ k <= N
  BY <1>1, <1>2, Climbing
<1> QED BY <1>3 DEF P

LEMMA SpreadKnown ==
    ASSUME NEW U, NEW s \in SUBSET U, NEW N \in Nat, NEW onto \in [U -> SUBSET U],
           NEW h, h = [k \in 0..N |-> h[k]], h[0] = s,
           \A k \in 1..N : h[k - 1] \subseteq U => h[k] = h[k - 1] \union UNION {onto[x] : x \in h[k - 1]}
    PROVE  Spreads(h, U, s, N, onto)
<1> DEFINE P == {k \in Nat : k <= N => h[k] \in SUBSET U}
<1>1. 0 \in P
  OBVIOUS
<1>2. ASSUME NEW n \in Nat, n \in P PROVE n + 1 \in P
  <2> SUFFICES ASSUME n + 1 <= N PROVE h[n + 1] \in SUBSET U
    OBVIOUS
  <2>1. n + 1 \in 1..N /\ (n + 1) - 1 = n /\ n <= N
    OBVIOUS
  <2>2. h[n] \in SUBSET U
    BY <1>2, <2>1
  <2>3. h[n + 1] = h[n] \union UNION {onto[x] : x \in h[n]}
    BY <2>1, <2>2
  <2> QED BY <2>2, <2>3
<1> HIDE DEF P
<1>3. Nat \subseteq P
  BY <1>1, <1>2, Climbing
<1>4. \A k \in 0..N : h[k] \in SUBSET U
  BY <1>3 DEF P
<1>5. h \in [0..N -> SUBSET U]
  BY <1>4
<1>6. \A k \in 1..N : h[k - 1] \subseteq U
  BY <1>4
<1> QED BY <1>5, <1>6 DEF Spreads

\* As many rounds as there are things to find find them all.
LEMMA SpreadSettles ==
    ASSUME NEW U, IsFiniteSet(U), NEW s, s # {}, NEW N \in Nat, Cardinality(U) <= N, NEW onto, NEW g,
           Spreads(g, U, s, N, onto), NEW x \in g[N]
    PROVE  onto[x] \subseteq g[N]
<1>1. /\ g \in [0..N -> SUBSET U] /\ g[0] = s
      /\ \A i \in 1..N : g[i] = g[i - 1] \union UNION {onto[y] : y \in g[i - 1]}
  BY DEF Spreads
<1>2. Cardinality(U) \in Nat
  BY FS_CardinalityType
<1>3. \A i \in 1..N : g[i - 1] \subseteq g[i]
  BY <1>1
<1>4. PICK c \in 1..N : g[c] = g[c - 1]
  BY <1>1, <1>2, <1>3, SettlesSooner
<1>5. c \in 0..N /\ N \in c..N /\ N \in 0..N /\ 0 \in 0..N /\ c \in 0..N
  OBVIOUS
<1>6. PICK V : V = g[c]
  OBVIOUS
<1>7. \A y \in V : onto[y] \subseteq V
  <2>1. g[c] = g[c - 1] \union UNION {onto[y] : y \in g[c - 1]}
    BY <1>1
  <2> QED BY <1>4, <1>6, <2>1
<1>8. V \subseteq g[N]
  BY <1>5, <1>6, SpreadGrows
<1>9. s \subseteq V
  BY <1>1, <1>5, <1>6, SpreadGrows
<1>10. \A y \in U \intersect V : onto[y] \subseteq V
  BY <1>7
<1>11. g[N] \subseteq V
  BY <1>5, <1>9, <1>10, SpreadStays
<1> QED BY <1>7, <1>8, <1>11

\* Edges, turned round, are as many.
LEMMA TurnedCount ==
    ASSUME NEW E, Graph(E)
    PROVE  /\ IsFiniteSet(E) /\ IsFiniteSet(Turned(E))
           /\ Cardinality(E) \in Nat /\ Cardinality(Turned(E)) \in Nat
           /\ Cardinality(Turned(E)) <= Cardinality(E)
<1>1. IsFiniteSet(Nodes \X Nodes)
  BY NodesAssumption, FS_Product
<1>2. IsFiniteSet(E)
  BY <1>1, FS_Subset DEF Graph
<1>3. PICK f : f = [e \in E |-> <<e[2], e[1]>>]
  OBVIOUS
<1>4. f \in Surjection(E, Turned(E))
  BY <1>3 DEF Surjection, Turned
<1>5. IsFiniteSet(Turned(E)) /\ Cardinality(Turned(E)) <= Cardinality(E)
  BY <1>2, <1>4, FS_Surjection
<1> QED BY <1>2, <1>5, FS_CardinalityType

\* What the walk from X to Y given Z finds: the least set with its start that
\* it does not lead out of.
Found(R, E, X, Y, Z) ==
    /\ <<X, NoNode>> \in R
    /\ R \subseteq {<<X, NoNode>>} \union E \union Turned(E)
    /\ \A s \in R : Walk(E, Y, Z, s) \subseteq R
    /\ \A T : <<X, NoNode>> \in T /\ (\A s \in R \intersect T : Walk(E, Y, Z, s) \subseteq T) => R \subseteq T

LEMMA WalkFacts ==
    ASSUME NEW E, E \subseteq Pairs, NEW X, NEW Y, NEW Z
    PROVE  \E R : Found(R, E, X, Y, Z) /\ (IsDSeparated(E, X, Y, Z) <=> \A x \in R : x[1] # Y)
<1> DEFINE U == {<<X, NoNode>>} \union E \union Turned(E)
           s == {<<X, NoNode>>}
           N == Cardinality(E) * 2 + 1
           Next1(x) == Walk(E, Y, Z, x)
           Body(g) == [k \in 0..N |-> IF k = 0 THEN s
                          ELSE LET found == g[k - 1] IN found \union UNION {Next1(x) : x \in found}]
           grow == CHOOSE g : g = Body(g)
<1>1. IsDSeparated(E, X, Y, Z) <=> \A x \in grow[N] : x[1] # Y
  BY DEF IsDSeparated
<1>2. Graph(E) /\ \A d \in E : d = <<d[1], d[2]>>
  BY DEF Pairs, Graph
<1>3. IsFiniteSet(U) /\ Cardinality(U) <= N /\ N \in Nat /\ s # {}
  <2>0. PICK T : T = Turned(E)
    OBVIOUS
  <2>1. IsFiniteSet(E) /\ IsFiniteSet(T) /\ Cardinality(E) \in Nat /\ Cardinality(T) \in Nat
        /\ Cardinality(T) <= Cardinality(E)
    BY <1>2, <2>0, TurnedCount
  <2>2. IsFiniteSet(s) /\ Cardinality(s) = 1
    BY FS_Singleton, Zenon
  <2> HIDE DEF s
  <2>3. IsFiniteSet(s \union E) /\ Cardinality(s \union E) \in Nat /\ Cardinality(s \union E) <= 1 + Cardinality(E)
    <3>1. IsFiniteSet(s \union E) /\ Cardinality(s \union E) = Cardinality(s) + Cardinality(E) - Cardinality(s \intersect E)
      BY <2>1, <2>2, FS_Union
    <3>2. IsFiniteSet(s \intersect E)
      BY <2>1, FS_Intersection
    <3>3. Cardinality(s \intersect E) \in Nat
      BY <3>2, FS_CardinalityType
    <3>4. Cardinality(s \union E) \in Nat
      BY <3>1, FS_CardinalityType
    <3> QED BY <2>1, <2>2, <3>1, <3>3, <3>4
  <2>4. PICK V : V = s \union E
    OBVIOUS
  <2>5. IsFiniteSet(V \union T) /\ Cardinality(V \union T) = Cardinality(V) + Cardinality(T) - Cardinality(V \intersect T)
    BY <2>1, <2>3, <2>4, FS_Union
  <2>6. IsFiniteSet(V \intersect T)
    BY <2>1, <2>3, <2>4, FS_Intersection
  <2>7. Cardinality(V \intersect T) \in Nat
    BY <2>6, FS_CardinalityType
  <2>8. U = V \union T
    BY <2>0, <2>4 DEF s
  <2>9. Cardinality(V \union T) <= Cardinality(E) * 2 + 1
    BY <2>1, <2>3, <2>4, <2>5, <2>7
  <2>10. s # {}
    BY DEF s
  <2>11. Cardinality(E) * 2 + 1 \in Nat
    BY <2>1
  <2> QED BY <2>5, <2>8, <2>9, <2>10, <2>11
<1>4. ASSUME NEW x PROVE Next1(x) \in SUBSET U
  <2>1. ASSUME NEW n \in Parents(E, x[1]) \union Children(E, x[1]) PROVE <<n, x[1]>> \in U
    <3>1. CASE n \in Parents(E, x[1])
      BY <1>2, <3>1 DEF Parents
    <3>2. CASE n \in Children(E, x[1])
      BY <1>2, <3>2 DEF Children, Turned
    <3> QED BY <2>1, <3>1, <3>2
  <2> HIDE DEF U
  <2> QED BY <2>1 DEF Walk
<1>5. s \in SUBSET U /\ <<X, NoNode>> \in s /\ <<X, NoNode>> \in U
  OBVIOUS
<1> HIDE DEF N, Next1
<1>6. PICK onto : onto = [x \in U |-> Next1(x)]
  OBVIOUS
<1>7. onto \in [U -> SUBSET U] /\ \A x \in U : onto[x] = Next1(x)
  BY <1>4, <1>6
<1> HIDE DEF U
<1>9. \A V \in SUBSET U : {Next1(x) : x \in V} = {onto[x] : x \in V}
  BY <1>7
<1>10. \A k \in 1..N : k \in 0..N /\ k # 0 /\ k - 1 \in 0..N
  BY <1>3
<1>11. \E g : g = Body(g)
  <2>1. \E g : Spreads(g, U, s, N, onto)
    <3> HIDE DEF s
    <3> QED BY <1>3, <1>5, <1>7, SpreadExists
  <2>2. PICK g : Spreads(g, U, s, N, onto)
    BY <2>1
  <2>3. ASSUME NEW k \in 0..N PROVE g[k] = Body(g)[k]
    <3>1. CASE k = 0
      BY <2>2, <3>1 DEF Spreads
    <3>2. CASE k # 0
      <4>1. k \in 1..N /\ k - 1 \in 0..N
        BY <1>3, <3>2
      <4> QED BY <1>9, <2>2, <3>2, <4>1 DEF Spreads
    <3> QED BY <3>1, <3>2
  <2>4. g = [k \in 0..N |-> g[k]]
    BY <2>2 DEF Spreads
  <2>5. Body(g) = [k \in 0..N |-> Body(g)[k]]
    OBVIOUS
  <2> HIDE DEF Body
  <2> QED BY <2>3, <2>4, <2>5
<1>12. grow = Body(grow)
  BY <1>11
<1>13. PICK h : h = grow
  OBVIOUS
<1> HIDE DEF grow
<1>14. h = Body(h)
  BY <1>12, <1>13
<1>15. Spreads(h, U, s, N, onto)
  <2>1. h = [k \in 0..N |-> h[k]]
    BY <1>14
  <2>2. h[0] = s
    <3>1. 0 \in 0..N
      BY <1>3
    <3> QED BY <1>14, <3>1
  <2>3. ASSUME NEW k \in 1..N, h[k - 1] \subseteq U
        PROVE  h[k] = h[k - 1] \union UNION {onto[x] : x \in h[k - 1]}
    <3>1. h[k] = h[k - 1] \union UNION {Next1(x) : x \in h[k - 1]}
      BY <1>10, <1>14
    <3> QED BY <1>9, <2>3, <3>1
  <2> HIDE DEF Body, s
  <2> QED BY <1>3, <1>5, <1>7, <2>1, <2>2, <2>3, SpreadKnown
<1> HIDE DEF Body, s
<1>16. PICK R : R = h[N]
  OBVIOUS
<1>17. N \in 0..N /\ 0 \in 0..N /\ N \in 0..N
  BY <1>3
<1>18. R \in SUBSET U /\ h[0] = s
  BY <1>15, <1>16, <1>17 DEF Spreads
<1>19. s \subseteq R
  BY <1>3, <1>15, <1>16, <1>17, <1>18, SpreadGrows
<1>20. ASSUME NEW x \in R PROVE Next1(x) \subseteq R
  <2>1. onto[x] \subseteq R
    BY <1>3, <1>15, <1>16, <1>20, SpreadSettles
  <2> QED BY <1>7, <1>18, <2>1
<1>21. ASSUME NEW T, <<X, NoNode>> \in T, \A x \in R \intersect T : Next1(x) \subseteq T PROVE R \subseteq T
  <2>3. PICK V : V = R \intersect T
    OBVIOUS
  <2>1. s \subseteq V
    BY <1>19, <1>21, <2>3 DEF s
  <2>2. \A x \in U \intersect V : onto[x] \subseteq V
    BY <1>7, <1>20, <1>21, <2>3
  <2>4. h[N] \subseteq V
    BY <1>3, <1>15, <1>17, <2>1, <2>2, <2>3, SpreadStays
  <2> QED BY <1>16, <2>3, <2>4
<1>22. Found(R, E, X, Y, Z)
  BY <1>5, <1>18, <1>19, <1>20, <1>21 DEF Found, Next1, U
<1> QED BY <1>1, <1>13, <1>16, <1>22

\* A neighbour is never separated, whatever is conditioned on.
LEMMA NeighboursAreActive ==
    ASSUME NEW E, E \subseteq Pairs, NEW e \in E, NEW Z
    PROVE  ~IsDSeparated(E, e[1], e[2], Z)
<1>1. PICK X, Y : X = e[1] /\ Y = e[2]
  OBVIOUS
<1>2. e = <<X, Y>> /\ X # Y /\ Y \in Nodes /\ Y # NoNode
  BY <1>1, NodesAssumption DEF Pairs
<1>3. PICK R : Found(R, E, X, Y, Z) /\ (IsDSeparated(E, X, Y, Z) <=> \A x \in R : x[1] # Y)
  BY WalkFacts
<1>4. IsActiveTriplet(E, NoNode, X, Y, Z) /\ Y \in Children(E, X)
  BY <1>1, <1>2 DEF IsActiveTriplet, Children
<1>5. <<Y, X>> \in Walk(E, Y, Z, <<X, NoNode>>)
  BY <1>2, <1>4 DEF Walk
<1>6. <<Y, X>> \in R
  BY <1>3, <1>5 DEF Found
<1>7. ~IsDSeparated(E, X, Y, Z)
  BY <1>3, <1>6
<1> QED BY <1>1, <1>7

(***************************************************************************)
(* Hypotheses.                                                             *)
(***************************************************************************)

\* An ancestor of a set has an edge that leads on.
LEMMA AncestorsOfLeadOn ==
    ASSUME NEW E, Graph(E), NEW S, NEW a \in AncestorsOf(E, S)
    PROVE  \E e \in E : e[1] = a /\ e[2] \in S \union AncestorsOf(E, S)
<1> DEFINE T == {x \in AncestorsOf(E, S) : \E e \in E : e[1] = x /\ e[2] \in S \union AncestorsOf(E, S)}
<1>1. ASSUME NEW e \in E, e[2] \in S \/ e[2] \in T PROVE e[1] \in T
  BY <1>1, AncestorsOfFacts
<1> HIDE DEF T
<1>2. AncestorsOf(E, S) \subseteq T
  BY <1>1, AncestorsOfFacts
<1> QED BY <1>2 DEF T

LEMMA NothingAboveNothing ==
    ASSUME NEW E, Graph(E)
    PROVE  AncestorsOf(E, {}) = {}
<1>1. \A e \in E : e[2] \in {} \/ e[2] \in {} => e[1] \in {}
  OBVIOUS
<1>2. AncestorsOf(E, {}) \subseteq {}
  BY <1>1, AncestorsOfFacts
<1> QED BY <1>2

LEMMA SelectedFacts ==
    ASSUME NEW E, E \subseteq Pairs, NEW t, NEW sel \in Selected(E, t)
    PROVE  sel \in SUBSET E /\ (\A e \in sel : e[2] = t) /\ (sel = {} <=> Parents(E, t) = {})
<1>1. PICK into : into = EdgesInto(E, {t})
  OBVIOUS
<1>2. into = {} <=> Parents(E, t) = {}
  BY <1>1 DEF EdgesInto, Parents
<1>3. Selected(E, t) = IF Cardinality(into) <= MaxCauses THEN {into} ELSE kSubset(MaxCauses, into)
  BY <1>1 DEF Selected
<1>4. Cardinality({}) = 0 /\ MaxCauses \in Nat /\ MaxCauses # 0
  BY FS_EmptySet, MaxCausesAssumption
<1>5. into \in SUBSET E /\ \A e \in into : e[2] = t
  BY <1>1 DEF EdgesInto
<1>6. CASE Cardinality(into) <= MaxCauses
  BY <1>2, <1>3, <1>5, <1>6
<1>7. CASE ~(Cardinality(into) <= MaxCauses)
  <2>1. into # {}
    BY <1>4, <1>7
  <2>2. sel \in SUBSET into /\ Cardinality(sel) = MaxCauses
    BY <1>3, <1>7 DEF kSubset
  <2> QED BY <1>2, <1>4, <1>5, <2>1, <2>2
<1> QED BY <1>6, <1>7

\* Every edge leads to t or to the source of another.
LeadsOn(F, t) == \A e \in F : e[2] = t \/ \E d \in F : d[1] = e[2]

\* The chain holds an edge from every node it leads to, except the target.
LEMMA ExpandedFacts ==
    ASSUME NEW E, E \subseteq Pairs, NEW t, NEW sel \in SUBSET E, \A e \in sel : e[2] = t
    PROVE  /\ Expanded(E, sel) \in SUBSET E
           /\ sel = {} <=> Expanded(E, sel) = {}
           /\ LeadsOn(Expanded(E, sel), t)
<1>1. PICK S : S = {e[1] : e \in sel}
  OBVIOUS
<1>2. PICK A : A = AncestorsOf(E, S)
  OBVIOUS
<1>3. PICK F : F = Expanded(E, sel)
  OBVIOUS
<1>4. F = sel \union EdgesInto(E, S \union A)
  BY <1>1, <1>2, <1>3 DEF Expanded
<1>5. Graph(E)
  BY DEF Pairs, Graph
<1>6. sel \subseteq E /\ F \subseteq E /\ \A e \in sel : e[2] = t
  BY <1>4 DEF EdgesInto
<1>7. ASSUME sel = {} PROVE F = {}
  <2>1. S = {}
    BY <1>1, <1>7
  <2>2. A = {}
    BY <1>2, <1>5, <2>1, NothingAboveNothing
  <2> QED BY <1>4, <1>7, <2>1, <2>2 DEF EdgesInto
<1>8. ASSUME NEW x \in S \union A PROVE \E d \in F : d[1] = x
  <2>1. CASE x \in S
    BY <1>1, <1>4, <2>1
  <2>2. CASE x \in A
    <3>1. \E d \in E : d[1] = x /\ d[2] \in S \union A
      BY <1>2, <1>5, <2>2, AncestorsOfLeadOn
    <3> QED BY <1>4, <3>1 DEF EdgesInto
  <2> QED BY <1>8, <2>1, <2>2
<1>9. LeadsOn(F, t)
  <2>1. \A e \in F : e[2] = t \/ e[2] \in S \union A
    BY <1>4, <1>6 DEF EdgesInto
  <2> QED BY <1>8, <2>1 DEF LeadsOn
<1> QED BY <1>3, <1>4, <1>6, <1>7, <1>9

LEMMA ScoreIsANumber ==
    ASSUME NEW x \in Evidence, x.strength # NaN
    PROVE  Score(x) \in Nat
<1>1. \A a, b \in Nat : a * b \in Nat
  OBVIOUS
<1>2. x.prob \in Nat /\ x.strength \in Nat
  BY DEF Evidence
<1>3. PICK a \in Nat, b \in Nat : a = x.prob /\ b = x.strength
  BY <1>2
<1> QED BY <1>1, <1>3 DEF Score

\* Resolving conflicts leaves every source one of its edges: one without a number,
\* or the greatest.
LEMMA ResolvedFacts ==
    ASSUME NEW g, DOMAIN g \subseteq Pairs, g \in [DOMAIN g -> Evidence], NEW F \in SUBSET DOMAIN g,
           NEW H \in Resolved(g, F)
    PROVE  H \in SUBSET F /\ \A e \in F : \E h \in H : h[1] = e[1]
<1>1. PICK G : G = {e \in F : \A d \in F : d[1] = e[1] => ~Beats(g[d], g[e])}
  OBVIOUS
<1>2. H \in SUBSET G /\ \A e \in G : \E h \in H : h[1] = e[1]
  BY <1>1 DEF Resolved, OneEdgePerSource
<1>3. ASSUME NEW e \in F PROVE \E d \in G : d[1] = e[1]
  <2>1. PICK A : A = {d \in F : d[1] = e[1]}
    OBVIOUS
  <2>2. CASE \E d \in A : g[d].strength = NaN
    <3>1. PICK d \in A : g[d].strength = NaN
      BY <2>2
    <3>2. \A c \in F : ~Beats(g[c], g[d])
      BY <3>1 DEF Beats
    <3> QED BY <1>1, <2>1, <3>1, <3>2
  <2>3. CASE \A d \in A : g[d].strength # NaN
    <3>1. PICK f : f = [d \in A |-> Score(g[d])]
      OBVIOUS
    <3>2. \A d \in A : f[d] = Score(g[d]) /\ f[d] \in Nat
      BY <2>1, <2>3, <3>1, ScoreIsANumber
    <3>3. IsFiniteSet(A) /\ A # {}
      <4>1. IsFiniteSet(Nodes \X Nodes)
        BY NodesAssumption, FS_Product
      <4>2. A \in SUBSET (Nodes \X Nodes)
        BY <2>1 DEF Pairs
      <4> QED BY <2>1, <4>1, <4>2, FS_Subset
    <3>4. PICK d \in A : \A c \in A : f[c] <= f[d]
      BY <3>2, <3>3, GreatestAt
    <3>5. \A c \in A : ~Beats(g[c], g[d])
      <4>1. \A c \in A : ~(Score(g[c]) > Score(g[d]))
        BY <3>2, <3>4
      <4> QED BY <4>1 DEF Beats
    <3>6. d \in G
      BY <1>1, <2>1, <3>5
    <3> QED BY <2>1, <3>6
  <2> QED BY <2>2, <2>3
<1> QED BY <1>1, <1>2, <1>3

\* A target has a hypothesis exactly when it has strong edges into it, and every
\* edge of the hypothesis leads to the target or to the source of another.
LEMMA HypothesisFacts ==
    ASSUME NEW g, DOMAIN g \subseteq Pairs, g \in [DOMAIN g -> Evidence], NEW S \in SUBSET DOMAIN g, NEW t,
           NEW H \in Hypotheses(g, S, t)
    PROVE  /\ H \in SUBSET DOMAIN g
           /\ H = {} <=> Parents(S, t) = {}
           /\ LeadsOn(H, t)
<1>1. PICK sel \in Selected(S, t) : H \in Resolved(g, Expanded(DOMAIN g, sel))
  BY DEF Hypotheses
<1>2. PICK F : F = Expanded(DOMAIN g, sel)
  OBVIOUS
<1>3. /\ sel \in SUBSET S /\ (\A e \in sel : e[2] = t)
      /\ sel = {} <=> Parents(S, t) = {}
  <2>1. S \subseteq Pairs
    OBVIOUS
  <2> QED BY <2>1, SelectedFacts
<1>4. F \in SUBSET DOMAIN g /\ (sel = {} <=> F = {}) /\ LeadsOn(F, t)
  <2>1. PICK D : D = DOMAIN g
    OBVIOUS
  <2>2. D \subseteq Pairs /\ sel \in SUBSET D /\ \A e \in sel : e[2] = t
    BY <1>3, <2>1
  <2> QED BY <1>2, <2>1, <2>2, ExpandedFacts
<1>5. H \in SUBSET F /\ \A e \in F : \E h \in H : h[1] = e[1]
  BY <1>1, <1>2, <1>4, ResolvedFacts
<1>6. H = {} <=> F = {}
  BY <1>5
<1>7. LeadsOn(H, t)
  BY <1>4, <1>5 DEF LeadsOn
<1> QED BY <1>3, <1>4, <1>5, <1>6, <1>7

\* So on an acyclic graph every source leads to the target.
LEMMA HypothesisLeads ==
    ASSUME NEW E, Graph(E), Acyclic(E), NEW H \in SUBSET E, NEW t,
           LeadsOn(H, t)
    PROVE  \A e \in H : Reaches(H, e[1], t)
<1> DEFINE Lost == {e[1] : e \in {d \in H : ~Reaches(H, d[1], t)}}
<1>1. SUFFICES ASSUME Lost # {} PROVE FALSE
  OBVIOUS
<1>2. Lost \in SUBSET Nodes
  BY DEF Graph
<1>3. PICK n \in Lost : \A m \in Lost : n \notin Ancestors(E, m)
  <2> HIDE DEF Lost
  <2> QED BY <1>1, <1>2, BottommostExists
<1>4. PICK e \in H : e[1] = n /\ ~Reaches(H, n, t)
  OBVIOUS
<1>5. Graph(H)
  BY DEF Graph
<1>6. n \in Ancestors(E, e[2])
  BY <1>4, AncestorsFacts
<1>7. e[2] \notin Lost
  BY <1>3, <1>6
<1>8. e[2] = t \/ Reaches(H, e[2], t)
  <2>1. e[2] = t \/ \E d \in H : d[1] = e[2]
    BY DEF LeadsOn
  <2> QED BY <1>7, <2>1
<1>9. e[2] = t \/ e[2] \in Ancestors(H, t)
  BY <1>8 DEF Reaches
<1>10. n \in Ancestors(H, t)
  BY <1>4, <1>5, <1>9, AncestorsFacts
<1> QED BY <1>4, <1>10 DEF Reaches

\* And the filter finds an active path in it.
LEMMA HypothesisIsActive ==
    ASSUME NEW E, E \subseteq Pairs, Acyclic(E), NEW H \in SUBSET E, NEW t,
           LeadsOn(H, t)
    PROVE  HasActivePath(H, t)
<1>1. CASE H = {}
  BY <1>1 DEF HasActivePath
<1>2. CASE H # {}
  <2>1. Graph(E) /\ Graph(H) /\ H \subseteq Pairs
    BY DEF Graph, Pairs
  <2>2. PICK d \in H : TRUE
    BY <1>2
  <2>3. \E e \in H : e[2] = t
    <3>1. SUFFICES ASSUME \A e \in H : e[2] # t PROVE FALSE
      OBVIOUS
    <3>2. PICK none : none = {}
      OBVIOUS
    <3>3. Ancestors(H, t) \subseteq none
      <4>1. \A e \in H : e[2] = t \/ e[2] \in none => e[1] \in none
        BY <3>1, <3>2
      <4> QED BY <2>1, <4>1, AncestorsFacts
    <3>4. d[1] = t
      BY <2>1, <2>2, <3>2, <3>3, HypothesisLeads DEF Reaches
    <3>5. PICK c \in H : c[1] = d[2]
      BY <2>2, <3>1 DEF LeadsOn
    <3>6. c[1] = t
      BY <2>1, <3>2, <3>3, <3>5, HypothesisLeads DEF Reaches
    <3> QED BY <2>1, <3>4, <3>5, <3>6 DEF Pairs
  <2> QED BY <2>1, <2>3, NeighboursAreActive DEF HasActivePath
<1> QED BY <1>1, <1>2

(***************************************************************************)
(* Paths.                                                                  *)
(***************************************************************************)

NonEmpty == {p \in Seq(Nodes) : p # <<>>}

LEMMA NonEmptyFacts ==
    ASSUME NEW p \in NonEmpty
    PROVE  /\ p \in Seq(Nodes) /\ Len(p) \in Nat /\ Len(p) >= 1 /\ DOMAIN p = 1..Len(p)
           /\ \A i \in 1..Len(p) : p[i] \in Nodes
           /\ Head(p) = p[1] /\ Head(p) \in Nodes /\ Last(p) \in Nodes
<1>1. p \in Seq(Nodes) /\ p # <<>>
  BY DEF NonEmpty
<1>2. Len(p) \in Nat /\ DOMAIN p = 1..Len(p) /\ p \in [1..Len(p) -> Nodes]
  BY <1>1, LenProperties
<1>3. Len(p) # 0
  BY <1>1, EmptySeq
<1>4. Len(p) >= 1 /\ 1 \in 1..Len(p) /\ Len(p) \in 1..Len(p)
  BY <1>2, <1>3
<1>5. Head(p) = p[1]
  BY <1>1, HeadTailProperties
<1> QED BY <1>1, <1>2, <1>4, <1>5 DEF Last

LEMMA OneNode ==
    ASSUME NEW n \in Nodes
    PROVE  /\ <<n>> \in NonEmpty /\ Len(<<n>>) = 1 /\ Head(<<n>>) = n /\ Last(<<n>>) = n
           /\ <<n>>[1] = n /\ Range(<<n>>) = {n}
  BY DEF NonEmpty, Last, Range

LEMMA AppendFacts ==
    ASSUME NEW p \in NonEmpty, NEW n \in Nodes
    PROVE  /\ Append(p, n) \in NonEmpty /\ Len(Append(p, n)) = Len(p) + 1
           /\ \A i \in 1..Len(p) : Append(p, n)[i] = p[i]
           /\ Append(p, n)[Len(p) + 1] = n /\ Last(Append(p, n)) = n
           /\ Range(Append(p, n)) = Range(p) \union {n}
<1>1. p \in Seq(Nodes) /\ Len(p) \in Nat /\ Len(p) >= 1 /\ DOMAIN p = 1..Len(p)
  BY NonEmptyFacts
<1>2. PICK q : q = Append(p, n)
  OBVIOUS
<1>3. /\ q \in Seq(Nodes) /\ Len(q) = Len(p) + 1 /\ q # <<>>
      /\ \A i \in 1..Len(p) : q[i] = p[i]
      /\ q[Len(p) + 1] = n
  BY <1>1, <1>2, AppendProperties
<1>4. DOMAIN q = 1..(Len(p) + 1)
  BY <1>3, LenProperties
<1>5. 1..(Len(p) + 1) = 1..Len(p) \union {Len(p) + 1}
  BY <1>1
<1>6. Range(q) = Range(p) \union {n}
  BY <1>1, <1>3, <1>4, <1>5 DEF Range
<1> QED BY <1>2, <1>3, <1>6 DEF NonEmpty, Last

LEMMA PrependFacts ==
    ASSUME NEW p \in NonEmpty, NEW n \in Nodes
    PROVE  <<n>> \o p \in NonEmpty /\ Head(<<n>> \o p) = n
<1>1. p \in Seq(Nodes) /\ Len(p) \in Nat /\ Len(p) >= 1
  BY NonEmptyFacts
<1>2. <<n>> \in Seq(Nodes) /\ Len(<<n>>) = 1 /\ <<n>>[1] = n
  OBVIOUS
<1>3. PICK q : q = <<n>> \o p
  OBVIOUS
<1>4. q \in Seq(Nodes) /\ Len(q) = 1 + Len(p) /\ q[1] = n
  BY <1>1, <1>2, <1>3, ConcatProperties
<1>5. q # <<>>
  BY <1>1, <1>4
<1>6. Head(q) = q[1]
  BY <1>4, <1>5, HeadTailProperties
<1> QED BY <1>3, <1>4, <1>5, <1>6 DEF NonEmpty

\* What a path that extractPaths ends at begins with: an ancestor, or a target
\* that has no parents.
LEMMA PathsFacts ==
    ASSUME NEW E, E \subseteq Pairs, NEW t \in Nodes, NEW p \in Paths(E, t)
    PROVE  Head(p) \in Ancestors(E, t) \/ (Head(p) = t /\ Parents(E, t) = {})
<1> DEFINE s == {<<t>>}
           N == Cardinality(Nodes)
           Next1(x) == {<<n>> \o x : n \in Parents(E, Head(x)) \ Range(x)}
           Body(g) == [k \in 0..N |-> IF k = 0 THEN s
                          ELSE LET found == g[k - 1] IN found \union UNION {Next1(x) : x \in found}]
           walk == CHOOSE g : g = Body(g)
<1>1. p \in walk[N] /\ (Parents(E, Head(p)) = {} \/ Parents(E, Head(p)) \intersect Range(p) # {})
  BY DEF Paths
<1>2. Graph(E) /\ \A n : Parents(E, n) \subseteq Nodes
  BY DEF Pairs, Graph, Parents
<1>3. N \in Nat
  BY NodesCount
<1>4. ASSUME NEW x \in NonEmpty PROVE Next1(x) \in SUBSET NonEmpty
  BY <1>2, PrependFacts
<1>5. ASSUME NEW x \in NonEmpty, NEW y \in Next1(x) PROVE Head(y) \in Parents(E, Head(x))
  <2>1. PICK n \in Parents(E, Head(x)) : y = <<n>> \o x
    OBVIOUS
  <2> QED BY <1>2, <2>1, PrependFacts
<1> HIDE DEF N, Next1
<1>6. PICK onto : onto = [x \in NonEmpty |-> Next1(x)]
  OBVIOUS
<1>7. onto \in [NonEmpty -> SUBSET NonEmpty] /\ \A x \in NonEmpty : onto[x] = Next1(x)
  BY <1>4, <1>6
<1>8. s \in SUBSET NonEmpty
  BY OneNode
<1>9. \A Z \in SUBSET NonEmpty : {Next1(x) : x \in Z} = {onto[x] : x \in Z}
  BY <1>7
<1>10. \A k \in 1..N : k \in 0..N /\ k # 0 /\ k - 1 \in 0..N
  BY <1>3
<1>11. \E g : g = Body(g)
  <2>1. \E g : Spreads(g, NonEmpty, s, N, onto)
    <3> HIDE DEF s
    <3> QED BY <1>3, <1>7, <1>8, SpreadExists
  <2>2. PICK g : Spreads(g, NonEmpty, s, N, onto)
    BY <2>1
  <2>3. ASSUME NEW k \in 0..N PROVE g[k] = Body(g)[k]
    <3>1. CASE k = 0
      BY <2>2, <3>1 DEF Spreads
    <3>2. CASE k # 0
      <4>1. k \in 1..N /\ k - 1 \in 0..N
        BY <1>3, <3>2
      <4> QED BY <1>9, <2>2, <3>2, <4>1 DEF Spreads
    <3> QED BY <3>1, <3>2
  <2>4. g = [k \in 0..N |-> g[k]]
    BY <2>2 DEF Spreads
  <2>5. Body(g) = [k \in 0..N |-> Body(g)[k]]
    OBVIOUS
  <2> HIDE DEF Body
  <2> QED BY <2>3, <2>4, <2>5
<1>12. walk = Body(walk)
  BY <1>11
<1>13. PICK h : h = walk
  OBVIOUS
<1> HIDE DEF walk
<1>14. h = Body(h)
  BY <1>12, <1>13
<1>15. Spreads(h, NonEmpty, s, N, onto)
  <2>1. h = [k \in 0..N |-> h[k]]
    BY <1>14
  <2>2. h[0] = s
    <3>1. 0 \in 0..N
      BY <1>3
    <3> QED BY <1>14, <3>1
  <2>3. ASSUME NEW k \in 1..N, h[k - 1] \subseteq NonEmpty
        PROVE  h[k] = h[k - 1] \union UNION {onto[x] : x \in h[k - 1]}
    <3>1. h[k] = h[k - 1] \union UNION {Next1(x) : x \in h[k - 1]}
      BY <1>10, <1>14
    <3> QED BY <1>9, <2>3, <3>1
  <2> HIDE DEF Body, s
  <2> QED BY <1>3, <1>7, <1>8, <2>1, <2>2, <2>3, SpreadKnown
<1> HIDE DEF Body
<1>16. PICK T : T = {x \in NonEmpty : x = <<t>> \/ Head(x) \in Ancestors(E, t)}
  OBVIOUS
<1>17. s \subseteq T
  BY <1>8, <1>16
<1>18. ASSUME NEW x \in NonEmpty \intersect T PROVE onto[x] \subseteq T
  <2> SUFFICES ASSUME NEW y \in onto[x] PROVE y \in T
    OBVIOUS
  <2>1. y \in NonEmpty /\ Head(y) \in Parents(E, Head(x))
    BY <1>4, <1>5, <1>7
  <2>2. Head(x) = t \/ Head(x) \in Ancestors(E, t)
    BY <1>16, <1>18, OneNode
  <2>3. PICK e \in E : e[1] = Head(y) /\ e[2] = Head(x)
    BY <2>1 DEF Parents
  <2>4. Head(y) \in Ancestors(E, t)
    BY <1>2, <2>2, <2>3, AncestorsFacts
  <2> QED BY <1>16, <2>1, <2>4
<1>19. h[N] \subseteq T
  <2>1. N \in 0..N
    BY <1>3
  <2> HIDE DEF s
  <2> QED BY <1>3, <1>15, <1>17, <1>18, <2>1, SpreadStays
<1>20. p \in T
  BY <1>1, <1>13, <1>19
<1>21. CASE p = <<t>>
  <2>1. Head(p) = t /\ Range(p) = {t}
    BY <1>21, OneNode
  <2>2. t \notin Parents(E, t)
    BY DEF Pairs, Parents
  <2> QED BY <1>1, <2>1, <2>2
<1>22. CASE Head(p) \in Ancestors(E, t)
  BY <1>22
<1> QED BY <1>16, <1>20, <1>21, <1>22

\* Every cause is an ancestor of the target, or the target when it has none.
LEMMA CauseFacts ==
    ASSUME NEW E, E \subseteq Pairs, NEW t \in Nodes, NEW c \in CauseSet(E, t)
    PROVE  c \in Ancestors(E, t) \/ (c = t /\ Parents(E, t) = {})
<1>1. Parents(E, t) \subseteq Ancestors(E, t)
  <2>1. Graph(E)
    BY DEF Pairs, Graph
  <2> QED BY <2>1, AncestorsFacts DEF Parents
<1>2. c \in Parents(E, t) \/ c \in Ancestors(E, t) \/ \E p \in Paths(E, t) : c = Head(p)
  BY DEF CauseSet
<1> QED BY <1>1, <1>2, PathsFacts

\* What is closed under the edges and holds an ancestor holds the node.
LEMMA ClosedHolds ==
    ASSUME NEW E, Graph(E), NEW t, NEW a \in Ancestors(E, t), NEW T, Closed(E, T), a \in T
    PROVE  t \in T
<1>1. SUFFICES ASSUME t \notin T PROVE FALSE
  OBVIOUS
<1>2. PICK U : U = Nodes \ T
  OBVIOUS
<1>3. ASSUME NEW e \in E, e[2] = t \/ e[2] \in U PROVE e[1] \in U
  <2>1. e[2] \notin T /\ e[1] \in Nodes
    BY <1>1, <1>2, <1>3 DEF Graph
  <2> QED BY <1>2, <2>1 DEF Closed
<1>4. Ancestors(E, t) \subseteq U
  BY <1>3, AncestorsFacts
<1> QED BY <1>2, <1>4

Chained(E, a, p) == p \in NonEmpty /\ p[1] = a /\ \A i \in 1..Len(p) - 1 : <<p[i], p[i + 1]>> \in E

LEMMA ChainedFacts ==
    ASSUME NEW E, Graph(E), NEW a, NEW p, Chained(E, a, p), NEW n \in Children(E, Last(p))
    PROVE  Chained(E, a, Append(p, n))
<1>1. p \in NonEmpty /\ p[1] = a /\ \A i \in 1..Len(p) - 1 : <<p[i], p[i + 1]>> \in E
  BY DEF Chained
<1>2. n \in Nodes /\ <<Last(p), n>> \in E
  BY DEF Graph, Children
<1>3. PICK q : q = Append(p, n)
  OBVIOUS
<1>4. /\ q \in NonEmpty /\ Len(q) = Len(p) + 1 /\ (\A i \in 1..Len(p) : q[i] = p[i]) /\ q[Len(p) + 1] = n
  BY <1>1, <1>2, <1>3, AppendFacts
<1>5. Len(p) \in Nat /\ Len(p) >= 1 /\ Last(p) = p[Len(p)]
  BY <1>1, NonEmptyFacts DEF Last
<1>6. q[1] = a
  BY <1>1, <1>4, <1>5
<1>7. ASSUME NEW i \in 1..Len(q) - 1 PROVE <<q[i], q[i + 1]>> \in E
  <2>1. CASE i = Len(p)
    BY <1>2, <1>4, <1>5, <2>1
  <2>2. CASE i # Len(p)
    <3>1. i \in 1..Len(p) - 1 /\ i \in 1..Len(p) /\ i + 1 \in 1..Len(p)
      BY <1>4, <1>5, <2>2
    <3> QED BY <1>1, <1>4, <3>1
  <2> QED BY <2>1, <2>2
<1> QED BY <1>3, <1>4, <1>6, <1>7 DEF Chained

\* The search finds paths of the graph, and one whenever there is one.
LEMMA PathsFromFacts ==
    ASSUME NEW E, E \subseteq Pairs, NEW a \in Nodes, NEW t \in Nodes
    PROVE  /\ \A p \in PathsFrom(E, a, t) : Chained(E, a, p) /\ Last(p) = t
           /\ a \in Ancestors(E, t) => PathsFrom(E, a, t) # {}
<1> DEFINE s == {<<a>>}
           N == Cardinality(Nodes)
           Next1(x) == {Append(x, n) : n \in Children(E, Last(x)) \ Range(x)}
           Body(g) == [k \in 0..N |-> IF k = 0 THEN s
                          ELSE LET found == g[k - 1] IN found \union UNION {Next1(x) : x \in found}]
           walk == CHOOSE g : g = Body(g)
<1>1. PathsFrom(E, a, t) = {p \in walk[N] : Last(p) = t}
  BY DEF PathsFrom
<1>2. Graph(E) /\ \A n : Children(E, n) \subseteq Nodes
  BY DEF Pairs, Graph, Children
<1>3. N \in Nat
  BY NodesCount
<1>4. ASSUME NEW x \in NonEmpty PROVE Next1(x) \in SUBSET NonEmpty
  <2>1. ASSUME NEW n \in Children(E, Last(x)) PROVE Append(x, n) \in NonEmpty
    BY <1>2, AppendFacts
  <2> QED BY <2>1
<1>5. ASSUME NEW x, Chained(E, a, x), NEW y \in Next1(x) PROVE Chained(E, a, y)
  BY <1>2, <1>5, ChainedFacts
<1>6. ASSUME NEW x \in NonEmpty, NEW y \in Next1(x)
      PROVE  Range(y) = Range(x) \union {Last(y)}
  <2>1. PICK n \in Children(E, Last(x)) : y = Append(x, n)
    OBVIOUS
  <2> QED BY <1>2, <2>1, AppendFacts
<1>7. ASSUME NEW x \in NonEmpty, NEW n \in Children(E, Last(x)) \ Range(x)
      PROVE  \E y \in Next1(x) : Last(y) = n
  <2>1. Append(x, n) \in Next1(x)
    BY <1>7
  <2>2. Last(Append(x, n)) = n
    BY <1>2, AppendFacts
  <2> QED BY <2>1, <2>2
<1> HIDE DEF N, Next1
<1>8. PICK onto : onto = [x \in NonEmpty |-> Next1(x)]
  OBVIOUS
<1>9. onto \in [NonEmpty -> SUBSET NonEmpty] /\ \A x \in NonEmpty : onto[x] = Next1(x)
  BY <1>4, <1>8
<1>10. s \in SUBSET NonEmpty
  BY OneNode
<1>11. \A Z \in SUBSET NonEmpty : {Next1(x) : x \in Z} = {onto[x] : x \in Z}
  BY <1>9
<1>12. \A k \in 1..N : k \in 0..N /\ k # 0 /\ k - 1 \in 0..N
  BY <1>3
<1>13. \E g : g = Body(g)
  <2>1. \E g : Spreads(g, NonEmpty, s, N, onto)
    <3> HIDE DEF s
    <3> QED BY <1>3, <1>9, <1>10, SpreadExists
  <2>2. PICK g : Spreads(g, NonEmpty, s, N, onto)
    BY <2>1
  <2>3. ASSUME NEW k \in 0..N PROVE g[k] = Body(g)[k]
    <3>1. CASE k = 0
      BY <2>2, <3>1 DEF Spreads
    <3>2. CASE k # 0
      <4>1. k \in 1..N /\ k - 1 \in 0..N
        BY <1>3, <3>2
      <4> QED BY <1>11, <2>2, <3>2, <4>1 DEF Spreads
    <3> QED BY <3>1, <3>2
  <2>4. g = [k \in 0..N |-> g[k]]
    BY <2>2 DEF Spreads
  <2>5. Body(g) = [k \in 0..N |-> Body(g)[k]]
    OBVIOUS
  <2> HIDE DEF Body
  <2> QED BY <2>3, <2>4, <2>5
<1>14. walk = Body(walk)
  BY <1>13
<1>15. PICK h : h = walk
  OBVIOUS
<1> HIDE DEF walk
<1>16. h = Body(h)
  BY <1>14, <1>15
<1>17. Spreads(h, NonEmpty, s, N, onto)
  <2>1. h = [k \in 0..N |-> h[k]]
    BY <1>16
  <2>2. h[0] = s
    <3>1. 0 \in 0..N
      BY <1>3
    <3> QED BY <1>16, <3>1
  <2>3. ASSUME NEW k \in 1..N, h[k - 1] \subseteq NonEmpty
        PROVE  h[k] = h[k - 1] \union UNION {onto[x] : x \in h[k - 1]}
    <3>1. h[k] = h[k - 1] \union UNION {Next1(x) : x \in h[k - 1]}
      BY <1>12, <1>16
    <3> QED BY <1>11, <2>3, <3>1
  <2> HIDE DEF Body, s
  <2> QED BY <1>3, <1>9, <1>10, <2>1, <2>2, <2>3, SpreadKnown
<1> HIDE DEF Body
<1>18. /\ h \in [0..N -> SUBSET NonEmpty] /\ h[0] = s
       /\ \A k \in 1..N : h[k] = h[k - 1] \union UNION {onto[x] : x \in h[k - 1]}
  BY <1>17 DEF Spreads
<1>19. \A p \in h[N] : Chained(E, a, p)
  <2>1. PICK T : T = {x \in NonEmpty : Chained(E, a, x)}
    OBVIOUS
  <2>2. s \subseteq T
    <3>1. 1..(1 - 1) = {}
      OBVIOUS
    <3>2. <<a>> \in NonEmpty /\ <<a>>[1] = a /\ Len(<<a>>) = 1
      BY OneNode
    <3>3. Chained(E, a, <<a>>)
      BY <3>1, <3>2 DEF Chained
    <3> QED BY <1>10, <2>1, <3>3
  <2>3. ASSUME NEW x \in NonEmpty \intersect T PROVE onto[x] \subseteq T
    BY <1>4, <1>5, <1>9, <2>1
  <2>4. N \in 0..N
    BY <1>3
  <2>5. h[N] \subseteq T
    <3> HIDE DEF s
    <3> QED BY <1>3, <1>17, <2>2, <2>3, <2>4, SpreadStays
  <2> QED BY <2>1, <2>5
<1> DEFINE Ends(k) == {Last(p) : p \in h[k]}
<1>20. \A k \in 0..N : \A p \in h[k] : Range(p) \subseteq Ends(k)
  <2> DEFINE P == {k \in Nat : k <= N => \A p \in h[k] : Range(p) \subseteq Ends(k)}
  <2>1. 0 \in P
    <3>1. Range(<<a>>) = {a} /\ Last(<<a>>) = a
      BY OneNode
    <3> QED BY <1>18, <3>1
  <2>2. ASSUME NEW n \in Nat, n \in P PROVE n + 1 \in P
    <3> SUFFICES ASSUME n + 1 <= N, NEW p \in h[n + 1] PROVE Range(p) \subseteq Ends(n + 1)
      OBVIOUS
    <3>1. n + 1 \in 1..N /\ (n + 1) - 1 = n /\ n \in 0..N
      BY <1>3
    <3>2. h[n + 1] = h[n] \union UNION {onto[x] : x \in h[n]} /\ h[n] \in SUBSET NonEmpty
      BY <1>18, <3>1
    <3>3. \A q \in h[n] : Range(q) \subseteq Ends(n)
      BY <2>2, <3>1
    <3>4. Ends(n) \subseteq Ends(n + 1) /\ Last(p) \in Ends(n + 1)
      BY <3>2
    <3>5. CASE p \in h[n]
      BY <3>3, <3>4, <3>5
    <3>6. CASE \E x \in h[n] : p \in onto[x]
      <4>1. PICK x \in h[n] : p \in onto[x]
        BY <3>6
      <4>2. Range(p) = Range(x) \union {Last(p)}
        BY <1>6, <1>9, <3>2, <4>1
      <4> QED BY <3>3, <3>4, <4>1, <4>2
    <3> QED BY <3>2, <3>5, <3>6
  <2> HIDE DEF P
  <2>3. Nat \subseteq P
    BY <2>1, <2>2, Climbing
  <2> QED BY <1>3, <2>3 DEF P
<1>21. \A k \in 0..N : Ends(k) \in SUBSET Nodes
  BY <1>18, NonEmptyFacts
<1>22. \A k \in 1..N : Ends(k - 1) \subseteq Ends(k)
  BY <1>18
<1>23. a \in Ends(0)
  BY <1>18, OneNode
<1> HIDE DEF s
<1>24. \E j \in 1..N : Ends(j) = Ends(j - 1)
  <2> HIDE DEF Ends
  <2>1. PICK q : q = [k \in 0..N |-> Ends(k)]
    OBVIOUS
  <2>2. q \in [0..N -> SUBSET Nodes]
    BY <1>21, <2>1
  <2>3. \A k \in 1..N : k \in 0..N /\ k - 1 \in 0..N
    BY <1>3
  <2>4. \A k \in 1..N : q[k - 1] \subseteq q[k]
    BY <1>22, <2>1, <2>3
  <2>5. q[0] # {}
    <3>1. 0 \in 0..N
      BY <1>3
    <3> QED BY <1>23, <2>1, <3>1
  <2>6. PICK k \in 1..N : q[k] = q[k - 1]
    BY <1>3, <2>2, <2>4, <2>5, NodesCount, SettlesSooner DEF N
  <2> QED BY <2>1, <2>3, <2>6
<1>25. PICK j \in 1..N : Ends(j) = Ends(j - 1)
  BY <1>24
<1>26. j - 1 \in 0..N /\ j \in 0..N
  BY <1>3
<1>27. Closed(E, Ends(j - 1))
  <2> SUFFICES ASSUME NEW e \in E, e[1] \in Ends(j - 1) PROVE e[2] \in Ends(j - 1)
    BY DEF Closed
  <2>1. PICK p \in h[j - 1] : Last(p) = e[1]
    OBVIOUS
  <2>2. p \in NonEmpty /\ e[2] \in Children(E, Last(p))
    BY <1>18, <1>26, <2>1 DEF Children
  <2>3. CASE e[2] \in Range(p)
    BY <1>20, <1>26, <2>1, <2>3
  <2>4. CASE e[2] \notin Range(p)
    <3>1. PICK y \in onto[p] : Last(y) = e[2]
      BY <1>7, <1>9, <2>2, <2>4
    <3>2. y \in h[j]
      BY <1>18, <2>1, <3>1
    <3>3. e[2] \in Ends(j)
      BY <3>1, <3>2
    <3> QED BY <1>25, <3>3
  <2> QED BY <2>3, <2>4
<1>28. a \in Ends(j - 1) /\ Ends(j - 1) \subseteq Ends(N)
  <2>0. N \in (j - 1)..N /\ j - 1 \in 0..(j - 1) /\ 0 \in 0..N /\ j - 1 \in 0..N
    BY <1>3
  <2>1. h[j - 1] \subseteq h[N]
    BY <1>3, <1>17, <2>0, SpreadGrows
  <2>2. h[0] \subseteq h[j - 1]
    <3>1. PICK i \in 0..N : i = j - 1
      BY <2>0
    <3>2. 0 \in 0..N /\ i \in 0..N /\ N \in Nat
      BY <1>3
    <3>3. h[0] \subseteq h[i]
      BY <1>17, <3>2, SpreadGrows
    <3> QED BY <3>1, <3>3
  <2>3. <<a>> \in h[0]
    BY <1>18 DEF s
  <2> QED BY <2>1, <2>2, <2>3, OneNode
<1>29. ASSUME a \in Ancestors(E, t) PROVE PathsFrom(E, a, t) # {}
  <2>1. t \in Ends(j - 1)
    <3> HIDE DEF Ends
    <3> QED BY <1>2, <1>27, <1>28, <1>29, ClosedHolds
  <2>2. PICK p \in h[N] : Last(p) = t
    BY <1>28, <2>1
  <2> QED BY <1>1, <1>15, <2>2
<1> QED BY <1>1, <1>15, <1>19, <1>29

\* The published chain, when there is a path.
LEMMA ChainFacts ==
    ASSUME NEW E, E \subseteq Pairs, NEW a \in Nodes, NEW t \in Nodes, Reaches(E, a, t),
           NEW c \in FindPathBFS(E, a, t)
    PROVE  Chained(E, a, c) /\ Last(c) = t
<1>1. CASE a = t
  <2>1. c = <<a>>
    BY <1>1 DEF FindPathBFS
  <2>2. <<a>> \in NonEmpty /\ <<a>>[1] = a /\ Len(<<a>>) = 1 /\ Last(<<a>>) = a
    BY OneNode
  <2>3. 1..(1 - 1) = {}
    OBVIOUS
  <2> QED BY <1>1, <2>1, <2>2, <2>3 DEF Chained
<1>2. CASE a # t
  <2>1. PathsFrom(E, a, t) # {}
    BY <1>2, PathsFromFacts DEF Reaches
  <2>2. c \in PathsFrom(E, a, t)
    BY <1>2, <2>1 DEF FindPathBFS
  <2> QED BY <2>2, PathsFromFacts
<1> QED BY <1>1, <1>2

\* On a path every node reaches those that follow.
LEMMA ChainedReaches ==
    ASSUME NEW E, Graph(E), NEW a, NEW p, Chained(E, a, p), NEW i \in 1..Len(p), NEW k \in 1..Len(p), i <= k
    PROVE  Reaches(E, p[i], p[k])
<1>1. p \in NonEmpty /\ Len(p) \in Nat /\ \A j \in 1..Len(p) - 1 : <<p[j], p[j + 1]>> \in E
  BY NonEmptyFacts DEF Chained
<1> DEFINE Lost == {j \in i..Len(p) : ~Reaches(E, p[i], p[j])}
<1>2. SUFFICES ASSUME Lost # {} PROVE FALSE
  BY <1>1
<1>3. Lost \in SUBSET Nat
  BY <1>1
<1>4. PICK j \in Lost : \A l \in Lost : j <= l
  <2> HIDE DEF Lost
  <2> QED BY <1>2, <1>3, LeastOf
<1>5. j # i
  BY <1>4 DEF Reaches
<1>6. j - 1 \in i..Len(p) /\ j - 1 \in 1..Len(p) - 1 /\ (j - 1) + 1 = j /\ ~(j <= j - 1)
  BY <1>1, <1>4, <1>5
<1>7. Reaches(E, p[i], p[j - 1])
  BY <1>4, <1>6
<1>8. PICK e \in E : e = <<p[j - 1], p[j]>>
  BY <1>1, <1>6
<1>9. p[j - 1] \in Ancestors(E, p[j])
  BY <1>8, AncestorsFacts
<1>10. p[i] \in Ancestors(E, p[j])
  BY <1>7, <1>9, AncestorsTransitive DEF Reaches
<1> QED BY <1>4, <1>10 DEF Reaches

\* What is left of a chain when links are skipped.
LEMMA LinksFacts ==
    ASSUME NEW E, Graph(E), NEW a, NEW p, Chained(E, a, p), NEW skipped, NEW c, c = BuildCausalChain(p, skipped)
    PROVE  /\ c.root = a
           /\ \A i \in DOMAIN c.links :
                 /\ i \in 1..Len(p) - 1 /\ c.links[i] \in E
                 /\ Reaches(E, a, c.links[i][1]) /\ Reaches(E, c.links[i][2], Last(p))
                 /\ \A j \in DOMAIN c.links : i < j =>
                       /\ Reaches(E, c.links[i][2], c.links[j][1])
                       /\ j = i + 1 => c.links[i][2] = c.links[j][1]
<1>1. p \in NonEmpty /\ p[1] = a /\ \A j \in 1..Len(p) - 1 : <<p[j], p[j + 1]>> \in E
  BY DEF Chained
<1>2. Len(p) \in Nat /\ Len(p) >= 1 /\ Last(p) = p[Len(p)]
  BY <1>1, NonEmptyFacts DEF Last
<1>3. PICK D : D = (1..Len(p) - 1) \ skipped
  OBVIOUS
<1>4. PICK l : l = [i \in D |-> <<p[i], p[i + 1]>>]
  OBVIOUS
<1>5. c.root = a /\ c.links = l
  BY <1>1, <1>3, <1>4 DEF BuildCausalChain
<1>6. DOMAIN l = D
  BY <1>4
<1>7. ASSUME NEW i \in D
      PROVE  /\ i \in 1..Len(p) - 1 /\ i \in 1..Len(p) /\ i + 1 \in 1..Len(p)
             /\ l[i] = <<p[i], p[i + 1]>>
  BY <1>2, <1>3, <1>4
<1>8. ASSUME NEW i \in D
      PROVE  l[i] \in E /\ Reaches(E, a, l[i][1]) /\ Reaches(E, l[i][2], Last(p))
  <2>1. i \in 1..Len(p) - 1 /\ i \in 1..Len(p) /\ i + 1 \in 1..Len(p) /\ l[i][1] = p[i] /\ l[i][2] = p[i + 1]
        /\ l[i] = <<p[i], p[i + 1]>>
    BY <1>7
  <2>2. 1 \in 1..Len(p) /\ 1 <= i /\ Len(p) \in 1..Len(p) /\ i + 1 <= Len(p)
    BY <1>2, <2>1
  <2>3. Reaches(E, p[1], p[i]) /\ Reaches(E, p[i + 1], p[Len(p)])
    BY <2>1, <2>2, ChainedReaches
  <2> QED BY <1>1, <1>2, <2>1, <2>3
<1>9. ASSUME NEW i \in D, NEW j \in D, i < j
      PROVE  Reaches(E, l[i][2], l[j][1]) /\ (j = i + 1 => l[i][2] = l[j][1])
  <2>1. /\ i + 1 \in 1..Len(p) /\ l[i][2] = p[i + 1]
        /\ j \in 1..Len(p) /\ l[j][1] = p[j]
    BY <1>7
  <2>2. i + 1 <= j
    BY <1>3, <1>9
  <2>3. Reaches(E, p[i + 1], p[j])
    BY <2>1, <2>2, ChainedReaches
  <2> QED BY <2>1, <2>3
<1> QED BY <1>5, <1>6, <1>7, <1>8, <1>9

(***************************************************************************)
(* Fusion.                                                                 *)
(***************************************************************************)

Fused(E, t, C, r, f) ==
    /\ C \union ({r} \ {NoNode}) = f.roots \union f.mediators \union f.rejected
    /\ f.roots \intersect f.mediators = {}
    /\ f.rejected \intersect (f.roots \union f.mediators) = {}
    /\ f.roots \union f.mediators \subseteq C
    /\ Acyclic(E) /\ C = Ancestors(E, t) /\ C # {} /\ f.rejected = {} => f.roots = Origins(E, t)

LEMMA FusionFacts ==
    ASSUME NEW E, E \subseteq Pairs, NEW t \in Nodes, NEW C \in SUBSET CauseSet(E, t), NEW r,
           NEW f, f = FuseCausalResults(E, r, C, t)
    PROVE  Fused(E, t, C, r, f)
<1>1. PICK R : R = {n \in C : IsConfounder(E, n, t, C)}
  OBVIOUS
<1>2. PICK M : M = {n \in C \ R : IsMediator(E, n, t, C, R)}
  OBVIOUS
<1>3. f.roots = C \ (R \union M) /\ f.mediators = M /\ f.rejected = R \union ({r} \ (C \union {NoNode}))
  BY <1>1, <1>2 DEF FuseCausalResults
<1>4. R \subseteq C /\ M \subseteq C \ R
  BY <1>1, <1>2
<1>5. Graph(E) /\ Ancestors(E, t) \in SUBSET Nodes
  <2>1. Graph(E)
    BY DEF Pairs, Graph
  <2> QED BY <2>1, AncestorsFacts
<1>6. NoNode \notin C
  <2>1. C \subseteq Nodes
    BY <1>5, CauseFacts
  <2> QED BY <2>1, NodesAssumption
<1>7. C \union ({r} \ {NoNode}) = f.roots \union f.mediators \union f.rejected
  BY <1>3, <1>4, <1>6
<1>8. /\ f.roots \intersect f.mediators = {}
      /\ f.rejected \intersect (f.roots \union f.mediators) = {}
      /\ f.roots \union f.mediators \subseteq C
  BY <1>3, <1>4
<1>9. ASSUME Acyclic(E), C = Ancestors(E, t), C # {}, f.rejected = {} PROVE f.roots = Origins(E, t)
  <2>1. R = {} /\ f.roots = C \ M
    BY <1>3, <1>9
  <2>2. ASSUME NEW n \in C PROVE n \in M <=> Parents(E, n) # {}
    <3>1. PICK e \in E : e[1] = n /\ (e[2] = t \/ e[2] \in C)
      BY <1>5, <1>9, AncestorsLeadOn
    <3>2. e[2] \in Children(E, n) /\ e[2] # n
      BY <3>1 DEF Children, Pairs
    <3>3. Children(E, n) \intersect ({t} \union (C \ (R \union {n}))) # {}
      BY <2>1, <3>1, <3>2
    <3>4. IsMediator(E, n, t, C, R) <=> Parents(E, n) # {}
      BY <2>1, <3>3 DEF IsMediator
    <3> QED BY <1>2, <2>1, <3>4
  <2>3. Parents(E, t) # {}
    <3>1. SUFFICES ASSUME Parents(E, t) = {} PROVE FALSE
      OBVIOUS
    <3>2. PICK none : none = {}
      OBVIOUS
    <3>3. \A e \in E : e[2] = t \/ e[2] \in none => e[1] \in none
      BY <3>1, <3>2 DEF Parents
    <3>4. Ancestors(E, t) \subseteq none
      BY <1>5, <3>3, AncestorsFacts
    <3> QED BY <1>9, <3>2, <3>4
  <2>4. C \in SUBSET Nodes
    BY <1>5, <1>9
  <2>5. Origins(E, t) = {n \in C : Parents(E, n) = {}}
    BY <1>9, <2>3, <2>4 DEF Origins, Reaches
  <2> QED BY <2>1, <2>2, <2>5
<1> QED BY <1>7, <1>8, <1>9 DEF Fused

(***************************************************************************)
(* The whole analysis.                                                     *)
(***************************************************************************)

Before == {"discover", "enrich", "intervene", "manage", "resolve"}

\* What every call leaves for the ones that follow.
Analysed ==
    /\ step \in Before \union {"hypothesise"} => reverse = FALSE
    /\ step \notin Before => target \in Nodes \union Infra
    /\ step \in {"infer", "trace", "explain", "act"} \/ GraphIsPublished => target \in Nodes
    /\ step = "filter" => reverse = FALSE /\ hyp \in Hypotheses(graph, Strong(graph), target)
    /\ (step \in {"explain", "act"} \/ GraphIsPublished) /\ Acyclic(DOMAIN graph) =>
           physics = Origins(DOMAIN graph, target) /\ lead \in physics
    /\ step = "act" \/ gate = "full" => causes \in SUBSET CauseSet(DOMAIN graph, target)
    /\ gate = "full" =>
           /\ fusion = FuseCausalResults(DOMAIN graph, first, causes, target)
           /\ advised \in PrimaryRootCauses /\ simulated = Evaluated(DOMAIN graph, advised)
           /\ \E path \in FindPathBFS(DOMAIN graph, advised, target) :
                  \E skipped : chain = BuildCausalChain(path, skipped)

\* A hypothesis that passed the filter leads to its target.
LEMMA FilterFacts ==
    ASSUME Graphed, Analysed, Filter, step' = "infer"
    PROVE  HypothesisLeadsToTarget'
<1>1. step = "filter" /\ graph' = graph /\ target' = target
  BY DEF Filter, FinishEarly
<1>2. SUFFICES ASSUME Acyclic(DOMAIN graph)
               PROVE  /\ reverse' = (Parents(Strong(graph), target) = {})
                      /\ \A n \in SubgraphNodes(hyp', target) : Reaches(hyp', n, target)
                      /\ \A e \in hyp' : e[2] \in SubgraphNodes(hyp', target)
  BY <1>1 DEF HypothesisLeadsToTarget, Edges
<1>3. PICK E : E = DOMAIN graph
  OBVIOUS
<1>4. E \subseteq Pairs /\ Graph(E) /\ Acyclic(E) /\ DOMAIN graph \subseteq Pairs /\ graph \in [DOMAIN graph -> Evidence]
  BY <1>2, <1>3 DEF Graphed, Weighed, Pairs, Graph
<1>0. PICK S : S = Strong(graph)
  OBVIOUS
<1>5. reverse = FALSE /\ hyp \in SUBSET E /\ (hyp = {} <=> Parents(S, target) = {}) /\ LeadsOn(hyp, target)
  <2>1. reverse = FALSE /\ hyp \in Hypotheses(graph, S, target)
    BY <1>0, <1>1 DEF Analysed
  <2>2. S \in SUBSET DOMAIN graph
    BY <1>0 DEF Strong
  <2> QED BY <1>3, <1>4, <2>1, <2>2, HypothesisFacts
<1>6. HasActivePath(hyp, target)
  BY <1>4, <1>5, HypothesisIsActive
<1>7. CASE hyp # {}
  <2>1. hyp' = hyp /\ reverse' = FALSE
    BY <1>1, <1>5, <1>6, <1>7 DEF Filter, FinishEarly, Dropped
  <2>2. Parents(S, target) # {}
    BY <1>5, <1>7
  <2>3. \A e \in hyp : Reaches(hyp, e[1], target)
    BY <1>4, <1>5, HypothesisLeads
  <2>4. \A n \in SubgraphNodes(hyp, target) : Reaches(hyp, n, target)
    BY <2>3 DEF SubgraphNodes, Reaches
  <2>5. \A e \in hyp : e[2] \in SubgraphNodes(hyp, target)
    BY <1>5 DEF SubgraphNodes, LeadsOn
  <2>6. reverse' = (Parents(S, target) = {})
    BY <2>1, <2>2, Zenon
  <2> QED BY <1>0, <2>1, <2>4, <2>5, <2>6
<1>8. CASE hyp = {}
  <2>1. hyp' = Reversed(E, target) /\ reverse' = TRUE
    BY <1>1, <1>3, <1>8 DEF Filter, FinishEarly, Kept, Edges
  <2>2. Parents(S, target) = {}
    BY <1>5, <1>8
  <2>3. PICK H : H = Reversed(E, target)
    OBVIOUS
  <2>4. ASSUME NEW d \in H PROVE d[1] \in Nodes /\ d[2] = target /\ d[2] \in Nodes /\ d = <<d[1], d[2]>>
    <3>1. PICK e \in E : e[1] = target /\ d = <<e[2], e[1]>>
      BY <2>3 DEF Reversed, Turned
    <3> QED BY <1>4, <3>1 DEF Graph
  <2>5. Graph(H)
    BY <2>4 DEF Graph
  <2>6. ASSUME NEW d \in H PROVE Reaches(H, d[1], target)
    BY <2>4, <2>5, AncestorsFacts DEF Reaches
  <2>7. \A n \in SubgraphNodes(H, target) : Reaches(H, n, target)
    BY <2>6 DEF SubgraphNodes, Reaches
  <2>8. \A e \in H : e[2] \in SubgraphNodes(H, target)
    BY <2>4 DEF SubgraphNodes
  <2>9. reverse' = (Parents(S, target) = {})
    BY <2>1, <2>2, Zenon
  <2> QED BY <1>0, <2>1, <2>3, <2>7, <2>8, <2>9
<1> QED BY <1>7, <1>8

LEMMA AnalysedInit == Init => Analysed
  BY DEF Init, Analysed, Before, GraphIsPublished

LEMMA TraceStep ==
    ASSUME Graphed, Awaiting, Analysed, Trace
    PROVE  Analysed'
<1>1. /\ step = "trace" /\ step' = "explain" /\ gate' = "none" /\ graph' = graph /\ target' = target
      /\ target \in Nodes
  BY DEF Trace, Awaiting, Analysed
<1>2. PICK hot \in SUBSET Nodes :
          /\ physics' \in IF PhysicsRoots(Edges, target) # {} THEN {PhysicsRoots(Edges, target)}
                          ELSE {{r} : r \in LocalRoots(hot, target)} \union {r \in {{}} : LocalRoots(hot, target) = {}}
          /\ lead' \in IF physics' = {} THEN {NoNode} ELSE physics'
  BY DEF Trace
<1>3. ASSUME Acyclic(DOMAIN graph) PROVE physics' = Origins(DOMAIN graph, target) /\ lead' \in physics'
  <2>1. Graph(DOMAIN graph)
    BY DEF Graphed, Weighed, Pairs, Graph
  <2>2. PhysicsRoots(DOMAIN graph, target) = Origins(DOMAIN graph, target) /\ Origins(DOMAIN graph, target) # {}
    BY <1>1, <1>3, <2>1, PhysicsRootsFacts
  <2>3. physics' = Origins(DOMAIN graph, target)
    BY <1>2, <2>2 DEF Edges
  <2> QED BY <1>2, <2>2, <2>3
<1>4. ~GraphIsPublished'
  BY <1>1 DEF GraphIsPublished
<1> QED BY <1>1, <1>3, <1>4 DEF Analysed, Before

LEMMA ActStep ==
    ASSUME Awaiting, Analysed, Act
    PROVE  Analysed'
<1>1. /\ step = "act" /\ step' = "done" /\ gate' = "full" /\ graph' = graph /\ target' = target /\ target \in Nodes
      /\ UNCHANGED <<first, causes, physics, lead>>
      /\ fusion' = FuseCausalResults(DOMAIN graph, first, causes, target)
  BY DEF Act, Analysed, Edges
<1>2. causes \in SUBSET CauseSet(DOMAIN graph, target)
      /\ (Acyclic(DOMAIN graph) => physics = Origins(DOMAIN graph, target) /\ lead \in physics)
  BY <1>1 DEF Analysed
<1>3. /\ advised' \in PrimaryRootCauses /\ simulated' = Evaluated(DOMAIN graph, advised')
      /\ \E path \in FindPathBFS(DOMAIN graph, advised', target) :
             \E skipped : chain' = BuildCausalChain(path, skipped)
  BY DEF Act, Edges
<1>4. PrimaryRootCauses' = PrimaryRootCauses
  BY <1>1 DEF PrimaryRootCauses
<1> QED BY <1>1, <1>2, <1>3, <1>4 DEF Analysed, Before

LEMMA AnalysedStep ==
    ASSUME Graphed, Awaiting, Analysed, [Next]_vars
    PROVE  Analysed'
<1>1. CASE Discover \/ Enrich \/ Intervene \/ Manage
  <2>1. step \in Before \ {"resolve"} /\ step' \in Before /\ gate' = "none" /\ reverse' = reverse
    BY <1>1 DEF Discover, Enrich, Intervene, Manage, Before, Awaiting
  <2> QED BY <2>1 DEF Analysed, Before, GraphIsPublished
<1>2. CASE Resolve
  <2>1. step = "resolve" /\ step' = "hypothesise" /\ gate' = "none" /\ reverse' = reverse
    BY <1>2 DEF Resolve, Awaiting
  <2>2. target' \in Nodes \union Infra
    BY <1>2 DEF Resolve, MostDownstream
  <2> QED BY <2>1, <2>2 DEF Analysed, Before, GraphIsPublished
<1>3. CASE Hypothesise /\ step' = "filter"
  <2>1. /\ step = "hypothesise" /\ gate' = "none" /\ target' = target /\ reverse' = reverse
        /\ hyp' \in Hypotheses(graph, Strong(graph), target)
    BY <1>3 DEF Hypothesise, FinishEarly, Awaiting
  <2>2. graph' = graph
    BY <2>1, GraphStep
  <2> QED BY <1>3, <2>1, <2>2 DEF Analysed, Before, GraphIsPublished
<1>4. ASSUME FinishEarly, step \in {"hypothesise", "filter", "infer"} PROVE Analysed'
  <2>1. step' = "done" /\ target' = target /\ gate' \in {"local", "empty"}
    BY <1>4 DEF FinishEarly
  <2>2. ~GraphIsPublished'
    BY <1>4, EarlyFacts
  <2> QED BY <1>4, <2>1, <2>2 DEF Analysed, Before
<1>5. CASE Filter /\ step' = "infer"
  <2>1. step = "filter" /\ gate' = "none" /\ target' = target
    BY <1>5 DEF Filter, FinishEarly, Awaiting
  <2>2. target \in Nodes \union Infra
    BY <2>1 DEF Analysed, Before
  <2>3. target \notin Infra
    <3>1. Awaiting'
      BY AwaitingStep
    <3> QED BY <1>5, <2>1, <3>1 DEF Awaiting
  <2> QED BY <1>5, <2>1, <2>2, <2>3 DEF Analysed, Before, GraphIsPublished
<1>6. CASE Infer /\ step' = "trace"
  <2>1. step = "infer" /\ gate' = "none" /\ target' = target
    BY <1>6 DEF Infer, FinishEarly, Awaiting
  <2> QED BY <1>6, <2>1 DEF Analysed, Before, GraphIsPublished
<1>7. CASE Trace
  BY <1>7, TraceStep
<1>8. CASE Explain
  <2>1. /\ step = "explain" /\ UNCHANGED <<graph, target, physics, lead>>
        /\ causes' \in SUBSET CauseSet(DOMAIN graph, target)
        /\ \/ step' = "done" /\ gate' = "empty"
           \/ step' = "act" /\ gate' = "none"
    BY <1>8 DEF Explain, Awaiting, Edges
  <2>2. target \in Nodes /\ (Acyclic(DOMAIN graph) => physics = Origins(DOMAIN graph, target) /\ lead \in physics)
    BY <2>1 DEF Analysed
  <2> QED BY <2>1, <2>2 DEF Analysed, Before
<1>9. CASE Act
  BY <1>9, ActStep
<1>10. CASE UNCHANGED vars
  BY <1>10 DEF vars, results, Analysed, PrimaryRootCauses, GraphIsPublished
<1>11. /\ Hypothesise => step \in {"hypothesise", "filter", "infer"} /\ (step' = "filter" \/ FinishEarly)
       /\ Filter => step \in {"hypothesise", "filter", "infer"} /\ (step' = "infer" \/ FinishEarly)
       /\ Infer => step \in {"hypothesise", "filter", "infer"} /\ (step' = "trace" \/ FinishEarly)
  BY DEF Hypothesise, Filter, Infer
<1> QED
  BY <1>1, <1>2, <1>3, <1>4, <1>5, <1>6, <1>7, <1>8, <1>9, <1>10, <1>11 DEF Next

\* What the analysis is after every call.
Sound == Graphed /\ Awaiting /\ Analysed

LEMMA Soundness == Spec => []Sound
<1>1. Init => Sound
  BY GraphedInit, AnalysedInit, PhasesAssumption DEF Init, Sound, Awaiting
<1>2. Sound /\ [Next]_vars => Sound'
  BY GraphStep, AwaitingStep, AnalysedStep DEF Sound
<1> QED BY <1>1, <1>2, PTL DEF Spec

\* On an acyclic graph a target with strong edges into it is explained forwards, and every
\* source of its hypothesis leads to it: resolving the conflicts cuts none off,
\* and the filter drops none (causal_builder.go:205, pipeline.go:585).
THEOREM HypothesesLead == Spec => []HypothesisLeadsToTarget
<1>1. Init => HypothesisLeadsToTarget
  BY DEF Init, HypothesisLeadsToTarget
<1>2. ASSUME Sound, HypothesisLeadsToTarget, [Next]_vars PROVE HypothesisLeadsToTarget'
  <2>1. SUFFICES ASSUME step' = "infer" PROVE HypothesisLeadsToTarget'
    BY DEF HypothesisLeadsToTarget
  <2>2. Filter \/ UNCHANGED vars
    BY <1>2, <2>1 DEF Next, Discover, Enrich, Intervene, Manage, Resolve, Hypothesise, FinishEarly, Infer, Trace,
                      Explain, Act
  <2>3. CASE Filter
    BY <1>2, <2>1, <2>3, FilterFacts DEF Sound
  <2>4. CASE UNCHANGED vars
    BY <1>2, <2>4 DEF vars, HypothesisLeadsToTarget, Edges
  <2> QED BY <2>2, <2>3, <2>4
<1> QED BY <1>1, <1>2, Soundness, PTL DEF Spec

\* The timestamps made up from topological depths never hide a root of an
\* acyclic graph: queue physics finds every parentless node above the target,
\* and at least one (causal_enricher.go:116, queue_propagator.go:280).
THEOREM PhysicsFindsOrigins == Spec => []PhysicsRootsAreOrigins
<1>1. ASSUME Sound PROVE PhysicsRootsAreOrigins
  <2>1. SUFFICES ASSUME step \in {"explain", "act"}, Acyclic(Edges)
                 PROVE  /\ physics = {n \in Nodes : Parents(Edges, n) = {} /\ Reaches(Edges, n, target)}
                        /\ physics # {}
                        /\ \A n \in physics : IsPhysicallyValid(Edges, n, target)
    BY DEF PhysicsRootsAreOrigins
  <2>2. physics = Origins(Edges, target) /\ lead \in physics
    BY <1>1, <2>1 DEF Sound, Analysed, Edges
  <2> QED BY <2>2 DEF Origins, IsPhysicallyValid
<1> QED BY <1>1, Soundness, PTL

\* Fusion gives each cause one role, and what the gate takes for granted of them
\* holds; where it has nothing to reject it finds the roots of queue physics,
\* which it never looks at (causal_fusion.go).
THEOREM FusionIsPhysics == Spec => []FusionAgreesWithPhysics
<1>1. ASSUME Sound PROVE FusionAgreesWithPhysics
  <2> SUFFICES ASSUME gate = "full" PROVE FusionAgreesWithPhysics
    BY DEF FusionAgreesWithPhysics
  <2>1. PICK E : E = Edges
    OBVIOUS
  <2>2. E \subseteq Pairs /\ target \in Nodes /\ causes \in SUBSET CauseSet(E, target)
        /\ fusion = FuseCausalResults(E, first, causes, target)
        /\ (Acyclic(E) => physics = Origins(E, target))
    BY <1>1, <2>1 DEF Sound, Graphed, Weighed, Analysed, Edges, GraphIsPublished
  <2>3. Fused(E, target, causes, first, fusion)
    BY <2>2, FusionFacts
  <2>4. \A c \in causes : Reaches(E, c, target)
    BY <2>2, CauseFacts DEF Reaches
  <2>5. target \in causes => Parents(E, target) = {} \/ target \in Ancestors(E, target)
    BY <2>2, CauseFacts
  <2> QED BY <2>1, <2>2, <2>3, <2>4, <2>5 DEF FusionAgreesWithPhysics, Fused
<1> QED BY <1>1, Soundness, PTL

\* Every answer with a published graph names a root; on an acyclic graph that is
\* an origin above the target, and the advice is about it and its simulation
\* evaluates the target, whatever is under pressure (pipeline.go:107, :618, :754).
THEOREM NamedRootsLead == Spec => []RootLeadsToTarget
<1>1. ASSUME Sound PROVE RootLeadsToTarget
  <2> SUFFICES ASSUME GraphIsPublished PROVE RootLeadsToTarget
    BY DEF RootLeadsToTarget
  <2>1. PICK E : E = Edges
    OBVIOUS
  <2>2. target \notin Infra
    BY <1>1 DEF Sound, Awaiting
  <2>3. PrimaryRootCauses # {}
    <3>1. causes # {} \/ first # NoNode
      BY <1>1 DEF Sound, Awaiting, GraphIsPublished
    <3> QED BY <3>1 DEF PrimaryRootCauses
  <2>4. ASSUME Acyclic(E), NEW root \in PrimaryRootCauses
        PROVE  /\ Parents(E, root) = {} /\ Reaches(E, root, target)
               /\ gate = "full" => advised = root /\ target \in simulated
    <3>1. E \subseteq Pairs /\ Graph(E) /\ target \in Nodes /\ lead \in Origins(E, target)
      BY <1>1, <2>1, <2>4 DEF Sound, Graphed, Weighed, Analysed, Edges, Graph, Pairs
    <3>2. lead \in Nodes /\ lead # NoNode /\ Parents(E, lead) = {} /\ Reaches(E, lead, target)
      BY <3>1, NodesAssumption DEF Origins
    <3>3. PrimaryRootCauses = {lead}
      BY <3>2 DEF PrimaryRootCauses
    <3>4. gate = "full" => advised = lead /\ simulated = Evaluated(E, lead)
      BY <1>1, <2>1, <3>3 DEF Sound, Analysed, Edges
    <3>5. target \in Evaluated(E, lead)
      <4>1. PICK D : D = Mutilated(E, lead)
        OBVIOUS
      <4>2. D \subseteq E
        BY <4>1 DEF Mutilated
      <4>3. Graph(D) /\ \A n \in Nodes : n \notin Ancestors(D, n)
        BY <2>4, <3>1, <4>2, AncestorsGrow DEF Acyclic
      <4>4. Sorted(D) = Nodes
        BY <4>3, SortedFacts DEF Acyclic
      <4> QED BY <3>1, <4>1, <4>4 DEF Evaluated
    <3> QED BY <3>2, <3>3, <3>4, <3>5
  <2> QED BY <2>1, <2>2, <2>3, <2>4 DEF RootLeadsToTarget
<1> QED BY <1>1, Soundness, PTL

\* The links of the published chain lie in order on one path of an acyclic graph
\* from the primary root cause to the target, whichever were skipped, so the
\* fallback for a missing path is never shown (evidence/chain.go:53, :140).
THEOREM ChainsAreReal == Spec => []ChainIsReal
<1>1. ASSUME Sound PROVE ChainIsReal
  <2> SUFFICES ASSUME gate = "full", Acyclic(Edges) PROVE ChainIsReal
    BY DEF ChainIsReal
  <2>1. PICK E : E = Edges
    OBVIOUS
  <2>2. E \subseteq Pairs /\ Graph(E) /\ target \in Nodes /\ lead \in Origins(E, target)
    BY <1>1, <2>1 DEF Sound, Graphed, Weighed, Analysed, Edges, Graph, Pairs, GraphIsPublished
  <2>3. lead \in Nodes /\ lead # NoNode /\ Reaches(E, lead, target)
    BY <2>2, NodesAssumption DEF Origins
  <2>4. advised = lead
    BY <1>1, <2>3 DEF Sound, Analysed, PrimaryRootCauses
  <2>5. PICK path \in FindPathBFS(E, lead, target) : \E skipped : chain = BuildCausalChain(path, skipped)
    BY <1>1, <2>1, <2>4 DEF Sound, Analysed, Edges
  <2>6. PICK skipped : chain = BuildCausalChain(path, skipped)
    BY <2>5
  <2>7. Chained(E, lead, path) /\ Last(path) = target
    BY <2>2, <2>3, ChainFacts
  <2>8. /\ chain.root = lead
        /\ \A i \in DOMAIN chain.links :
              /\ i \in 1..Len(path) - 1 /\ chain.links[i] \in E
              /\ Reaches(E, lead, chain.links[i][1]) /\ Reaches(E, chain.links[i][2], target)
              /\ \A j \in DOMAIN chain.links : i < j =>
                    /\ Reaches(E, chain.links[i][2], chain.links[j][1])
                    /\ j = i + 1 => chain.links[i][2] = chain.links[j][1]
    BY <2>2, <2>6, <2>7, LinksFacts
  <2> QED BY <2>1, <2>8 DEF ChainIsReal
<1> QED BY <1>1, Soundness, PTL

(***************************************************************************)
(* What effects are adjusted for.                                          *)
(***************************************************************************)

\* Who is below a node has it above.
LEMMA DescendantsFacts ==
    ASSUME NEW E, Graph(E), NEW X, NEW d \in Descendants(E, X)
    PROVE  X \in Ancestors(E, d)
<1>1. PICK C : C = Children(E, X)
  OBVIOUS
<1>2. C \in SUBSET Nodes /\ \A c \in C : \E e \in E : e[1] = X /\ e[2] = c
  BY <1>1 DEF Children, Graph
<1>3. PICK T : T = {n \in Nodes : X \in Ancestors(E, n)}
  OBVIOUS
<1>4. C \subseteq T
  BY <1>2, <1>3, AncestorsFacts
<1>5. ASSUME NEW e \in E, e[1] \in T PROVE e[2] \in T
  <2>1. e[2] \in Nodes /\ e[1] \in Ancestors(E, e[2])
    BY AncestorsFacts DEF Graph
  <2> QED BY <1>3, <1>5, <2>1, AncestorsTransitive
<1>6. Closure(E, C) \subseteq T
  BY <1>2, <1>4, <1>5, ClosureFacts DEF Closed
<1> QED BY <1>1, <1>3, <1>6 DEF Descendants

LEMMA NoWayBack ==
    ASSUME NEW E, Graph(E), Acyclic(E), NEW a, NEW b, <<a, b>> \in E
    PROVE  <<b, a>> \notin E /\ a # b
<1>1. a \in Nodes /\ b \in Nodes
  BY DEF Graph
<1>2. PICK e \in E : e = <<a, b>>
  OBVIOUS
<1>3. a \in Ancestors(E, b)
  BY <1>2, AncestorsFacts
<1>4. ASSUME <<b, a>> \in E PROVE FALSE
  <2>1. PICK d \in E : d = <<b, a>>
    BY <1>4
  <2>2. b \in Ancestors(E, b)
    BY <1>3, <2>1, AncestorsFacts
  <2> QED BY <1>1, <2>2 DEF Acyclic
<1>5. a # b
  BY <1>1, <1>3 DEF Acyclic
<1> QED BY <1>4, <1>5

\* The moral graph of Separated, in parts: whose ancestors are kept, who are
\* married, and the edges that avoid Z.
Relevant(D, X, Y, Z) == {X, Y} \union Z \union AncestorsOf(D, {X, Y} \union Z)
Married(D, K) == {e \in K \X K : Children(D, e[1]) \intersect Children(D, e[2]) \intersect K # {}}
Avoiding(D, K, Z) == {e \in D \union Turned(D) \union Married(D, K) : e[1] \in K \ Z /\ e[2] \in K \ Z}

LEMMA SeparatedParts ==
    ASSUME NEW D, NEW X, NEW Y, NEW Z
    PROVE  Separated(D, X, Y, Z) <=> Y \notin Closure(Avoiding(D, Relevant(D, X, Y, Z), Z), {X})
  BY DEF Separated, Relevant, Married, Avoiding

LEMMA RelevantFacts ==
    ASSUME NEW D, Graph(D), NEW X \in Nodes, NEW Y \in Nodes, NEW Z \in SUBSET Nodes
    PROVE  /\ Relevant(D, X, Y, Z) \in SUBSET Nodes
           /\ {X, Y} \union Z \subseteq Relevant(D, X, Y, Z)
           /\ \A a, b : <<a, b>> \in D /\ b \in Relevant(D, X, Y, Z) => a \in Relevant(D, X, Y, Z)
<1>1. PICK S : S = {X, Y} \union Z
  OBVIOUS
<1>2. PICK A : A = AncestorsOf(D, S)
  OBVIOUS
<1>3. A \in SUBSET Nodes /\ \A e \in D : e[2] \in S \/ e[2] \in A => e[1] \in A
  BY <1>2, AncestorsOfFacts
<1>4. Relevant(D, X, Y, Z) = S \union A
  BY <1>1, <1>2 DEF Relevant
<1>5. ASSUME NEW a, NEW b, <<a, b>> \in D, b \in S \union A PROVE a \in S \union A
  <2>1. PICK e \in D : e = <<a, b>>
    BY <1>5
  <2> QED BY <1>3, <1>5, <2>1
<1> QED BY <1>1, <1>3, <1>4, <1>5

\* F holds the moral edges of D between nodes of K outside Z.
Moral(F, D, K, Z) ==
    /\ Graph(F) /\ \A f \in F : f = <<f[1], f[2]>>
    /\ \A a, b : <<a, b>> \in F <=>
          /\ a \in K \ Z /\ b \in K \ Z
          /\ \/ <<a, b>> \in D
             \/ <<b, a>> \in D
             \/ \E c \in K : <<a, c>> \in D /\ <<b, c>> \in D

LEMMA AvoidingFacts ==
    ASSUME NEW D, Graph(D), NEW K \in SUBSET Nodes, NEW Z
    PROVE  Moral(Avoiding(D, K, Z), D, K, Z)
<1>1. PICK T : T = Turned(D)
  OBVIOUS
<1>2. Graph(T) /\ \A a, b : <<a, b>> \in T <=> <<b, a>> \in D
  BY <1>1, TurnedFacts
<1>3. PICK W : W = Married(D, K)
  OBVIOUS
<1>4. \A a, c : c \in Children(D, a) <=> <<a, c>> \in D
  <2>1. \A e \in D : e = <<e[1], e[2]>>
    BY DEF Graph
  <2> QED BY <2>1 DEF Children
<1>5. W \subseteq K \X K
  BY <1>3 DEF Married
<1>6. ASSUME NEW a \in K, NEW b \in K
      PROVE  <<a, b>> \in W <=> \E c \in K : <<a, c>> \in D /\ <<b, c>> \in D
  <2>1. <<a, b>> \in W <=> Children(D, a) \intersect Children(D, b) \intersect K # {}
    BY <1>3 DEF Married
  <2> QED BY <1>4, <2>1
<1>7. PICK F : F = Avoiding(D, K, Z)
  OBVIOUS
<1>8. F = {e \in D \union T \union W : e[1] \in K \ Z /\ e[2] \in K \ Z}
  BY <1>1, <1>3, <1>7 DEF Avoiding
<1>9. Graph(F) /\ \A f \in F : f = <<f[1], f[2]>>
  BY <1>2, <1>5, <1>8 DEF Graph
<1>10. \A a, b : <<a, b>> \in F <=>
          <<a, b>> \in D \union T \union W /\ a \in K \ Z /\ b \in K \ Z
  BY <1>8
<1>11. \A a, b : <<a, b>> \in F <=>
          /\ a \in K \ Z /\ b \in K \ Z
          /\ \/ <<a, b>> \in D \/ <<b, a>> \in D \/ \E c \in K : <<a, c>> \in D /\ <<b, c>> \in D
  BY <1>2, <1>6, <1>10
<1> QED BY <1>7, <1>9, <1>11 DEF Moral

\* The adjustment sets of an edge.
LEMMA BackdoorFacts ==
    ASSUME NEW E, E \subseteq Pairs, Acyclic(E), NEW e \in E,
           NEW Z \in FindMinimalAdjustmentSets(E, e[1], e[2]) \union {FindBackdoorSet(E, e[1], e[2])}
    PROVE  MeetsBackdoor(E, e[1], e[2], Z)
<1>1. PICK X, Y : X = e[1] /\ Y = e[2]
  OBVIOUS
<1>2. <<X, Y>> \in E /\ X # Y /\ X \in Nodes /\ Y \in Nodes
  BY <1>1 DEF Pairs
<1>3. Graph(E) /\ \A d \in E : d = <<d[1], d[2]>>
  BY DEF Pairs, Graph
<1>4. Z = Candidates(E, X, Y) \/ Z = FindBackdoorSet(E, X, Y)
  <2>1. ~IsDSeparated(E, X, Y, Candidates(E, X, Y))
    BY <1>1, NeighboursAreActive
  <2> QED BY <1>1, <2>1 DEF FindMinimalAdjustmentSets
<1>5. PICK P : P = Parents(E, X)
  OBVIOUS
<1>6. P \in SUBSET Nodes /\ \A p : p \in P <=> <<p, X>> \in E
  BY <1>3, <1>5 DEF Parents, Graph
<1>7. ASSUME NEW p \in P, p \in Descendants(E, X) PROVE FALSE
  <2>1. X \in Ancestors(E, p)
    BY <1>3, <1>7, DescendantsFacts
  <2>2. PICK d \in E : d = <<p, X>>
    BY <1>6
  <2>3. p \in Ancestors(E, X)
    BY <1>3, <2>2, AncestorsFacts
  <2>4. X \in Ancestors(E, X)
    BY <1>3, <2>1, <2>3, AncestorsTransitive
  <2> QED BY <1>2, <2>4 DEF Acyclic
<1>8. Z = P \ {Y}
  BY <1>4, <1>5, <1>7 DEF Candidates, FindBackdoorSet
<1>10. Z \intersect Descendants(E, X) = {}
  BY <1>7, <1>8
<1>11. PICK D : D = Cut(E, X)
  OBVIOUS
<1>12. Graph(D) /\ D \subseteq E /\ \A b : <<X, b>> \notin D
  BY <1>3, <1>11 DEF Graph, Cut
<1>13. PICK K : K = Relevant(D, X, Y, Z)
  OBVIOUS
<1>14. K \in SUBSET Nodes /\ X \in K /\ Y \in K
  BY <1>2, <1>6, <1>8, <1>12, <1>13, RelevantFacts
<1>15. PICK F : F = Avoiding(D, K, Z)
  OBVIOUS
<1>16. Moral(F, D, K, Z) /\ Graph(F)
  <2>1. Moral(F, D, K, Z)
    BY <1>12, <1>14, <1>15, AvoidingFacts
  <2> QED BY <2>1 DEF Moral
<1>17. \A b : <<X, b>> \notin F
  <2> SUFFICES ASSUME NEW b, <<X, b>> \in F PROVE FALSE
    OBVIOUS
  <2>1. <<b, X>> \in D /\ b \notin Z
    BY <1>12, <1>16 DEF Moral
  <2>2. <<b, X>> \in E /\ b \in P
    BY <1>6, <1>12, <2>1
  <2>3. b = Y
    BY <1>8, <2>1, <2>2
  <2> QED BY <1>2, <1>3, <2>2, <2>3, NoWayBack
<1>18. PICK start : start = {X}
  OBVIOUS
<1>19. Closed(F, start)
  <2>1. ASSUME NEW f \in F, f[1] \in start PROVE FALSE
    BY <1>16, <1>17, <1>18, <2>1 DEF Moral
  <2> QED BY <2>1 DEF Closed
<1>20. start \in SUBSET Nodes /\ start \subseteq start
  BY <1>2, <1>18
<1>21. Closure(F, start) \subseteq start
  BY <1>16, <1>19, <1>20, ClosureFacts
<1>22. Separated(D, X, Y, Z)
  BY <1>2, <1>13, <1>15, <1>18, <1>21, SeparatedParts
<1> QED BY <1>1, <1>10, <1>11, <1>22 DEF MeetsBackdoor

\* What an effect is adjusted for meets the backdoor criterion on every acyclic
\* graph, in both implementations (d_separation.go:46, backdoor_engine.go:76).
THEOREM AdjustmentsAreValid == Spec => []AdjustmentIsValid
<1>1. ASSUME Sound PROVE AdjustmentIsValid
  <2>1. Edges \subseteq Pairs
    BY <1>1 DEF Sound, Graphed, Weighed, Edges
  <2> QED BY <2>1, BackdoorFacts DEF AdjustmentIsValid
<1> QED BY <1>1, Soundness, PTL

(***************************************************************************)
(* d-separation.                                                           *)
(***************************************************************************)

\* A walk goes on to every neighbour but the one it came from, if the triplet
\* is active, and only there.
LEMMA WalkOn ==
    ASSUME NEW E, Graph(E), NEW Y, NEW Z, NEW at, NEW prev, NEW next
    PROVE  <<next, at>> \in Walk(E, Y, Z, <<at, prev>>) <=>
             /\ at # Y /\ next # prev
             /\ <<at, next>> \in E \/ <<next, at>> \in E
             /\ IsActiveTriplet(E, prev, at, next, Z)
<1>1. \A e \in E : e = <<e[1], e[2]>>
  BY DEF Graph
<1>2. next \in Parents(E, at) \union Children(E, at) <=> <<at, next>> \in E \/ <<next, at>> \in E
  BY <1>1 DEF Parents, Children
<1>3. PICK s : s = <<at, prev>>
  OBVIOUS
<1>4. s[1] = at /\ s[2] = prev
  BY <1>3
<1>5. PICK V : V = {n \in Parents(E, at) \union Children(E, at) : n # prev /\ IsActiveTriplet(E, prev, at, n, Z)}
  OBVIOUS
<1>6. Walk(E, Y, Z, s) = IF at = Y THEN {} ELSE {<<n, at>> : n \in V}
  BY <1>4, <1>5 DEF Walk
<1>7. <<next, at>> \in Walk(E, Y, Z, s) <=> at # Y /\ next \in V
  BY <1>6
<1> QED BY <1>2, <1>3, <1>5, <1>7

\* Every state but the first was walked to from another one.
LEMMA FoundFrom ==
    ASSUME NEW E, Graph(E), NEW X, NEW Y, NEW Z, NEW R, Found(R, E, X, Y, Z), NEW at, NEW prev, <<at, prev>> \in R
    PROVE  \/ at = X /\ prev = NoNode
           \/ \E q : <<prev, q>> \in R /\ <<at, prev>> \in Walk(E, Y, Z, <<prev, q>>)
<1>0. <<X, NoNode>> \in R /\ R \subseteq {<<X, NoNode>>} \union E \union Turned(E)
  BY DEF Found
<1>1. PICK T : T = {s \in R : s = <<X, NoNode>> \/ \E r \in R : s \in Walk(E, Y, Z, r)}
  OBVIOUS
<1>2. ASSUME NEW s \in R \intersect T PROVE Walk(E, Y, Z, s) \subseteq T
  <2>1. Walk(E, Y, Z, s) \subseteq R
    BY DEF Found
  <2> QED BY <1>1, <1>2, <2>1
<1>3. <<X, NoNode>> \in T
  BY <1>0, <1>1
<1>4. R \subseteq T
  BY <1>2, <1>3 DEF Found
<1>5. CASE <<at, prev>> = <<X, NoNode>>
  BY <1>5
<1>6. ASSUME NEW r \in R, <<at, prev>> \in Walk(E, Y, Z, r)
      PROVE  \E q : <<prev, q>> \in R /\ <<at, prev>> \in Walk(E, Y, Z, <<prev, q>>)
  <2>1. \A e \in E : e = <<e[1], e[2]>>
    BY DEF Graph
  <2>2. \A e \in Turned(E) : e = <<e[1], e[2]>>
    BY DEF Turned
  <2>3. r = <<r[1], r[2]>>
    BY <1>0, <2>1, <2>2
  <2>4. prev = r[1]
    BY <1>6 DEF Walk
  <2> QED BY <1>6, <2>3, <2>4
<1> QED BY <1>1, <1>4, <1>5, <1>6

\* On an acyclic graph a triplet is a collider only if both ends lead to it.
LEMMA OpenWithout ==
    ASSUME NEW E, Graph(E), Acyclic(E), NEW Z, NEW at, at \notin Z, NEW prev, NEW next,
           <<at, prev>> \in E \/ <<at, next>> \in E \/ prev = NoNode
    PROVE  IsActiveTriplet(E, prev, at, next, Z)
<1>1. <<at, prev>> \in E => <<prev, at>> \notin E
  BY NoWayBack
<1>2. <<at, next>> \in E => <<next, at>> \notin E
  BY NoWayBack
<1> QED BY <1>1, <1>2 DEF IsActiveTriplet

\* The state of a walk that is on its way along an edge, or against one.
Down(E, at, prev) == <<prev, at>> \in E
Up(E, at, prev) == <<at, prev>> \in E

\* What a walk keeps to: within the kept nodes it is connected to its start,
\* by M, without passing Z.
Keeps(E, X, Z, K, M, at, prev) ==
    \/ at = X /\ prev = NoNode
    \/ Down(E, at, prev) /\ (at \in K => prev \in M)
    \/ Up(E, at, prev) /\ at \in K /\ at \in M \union Z

\* M is what is connected to X among the kept nodes K.
Connected(E, X, Z, K, M) ==
    /\ K \in SUBSET Nodes /\ X \in K /\ Z \subseteq K /\ AncestorsOf(E, Z) \subseteq K
    /\ \A a, b : <<a, b>> \in E /\ b \in K => a \in K
    /\ X \in M /\ M \subseteq K \ Z
    /\ \A a, b : a \in M /\ b \in K \ Z /\ (<<a, b>> \in E \/ <<b, a>> \in E) => b \in M
    /\ \A a, b, c : a \in M /\ b \in K \ Z /\ c \in K /\ <<a, c>> \in E /\ <<b, c>> \in E => b \in M

LEMMA KeepsOn ==
    ASSUME NEW E, Graph(E), Acyclic(E), NEW X \in Nodes, NEW Y, NEW Z, NEW K, NEW M, Connected(E, X, Z, K, M),
           NEW at, NEW prev, Keeps(E, X, Z, K, M, at, prev),
           NEW next, <<next, at>> \in Walk(E, Y, Z, <<at, prev>>)
    PROVE  Keeps(E, X, Z, K, M, next, at)
<1>1. /\ next # prev
      /\ <<at, next>> \in E \/ <<next, at>> \in E
      /\ IsActiveTriplet(E, prev, at, next, Z)
  BY WalkOn
<1>2. /\ X \in K /\ Z \subseteq K /\ AncestorsOf(E, Z) \subseteq K
      /\ \A a, b : <<a, b>> \in E /\ b \in K => a \in K
      /\ X \in M /\ M \subseteq K \ Z
      /\ \A a, b : a \in M /\ b \in K \ Z /\ (<<a, b>> \in E \/ <<b, a>> \in E) => b \in M
      /\ \A a, b, c : a \in M /\ b \in K \ Z /\ c \in K /\ <<a, c>> \in E /\ <<b, c>> \in E => b \in M
  BY DEF Connected
<1>3. \A a, b : <<a, b>> \in E => <<b, a>> \notin E
  BY NoWayBack
<1>4. \A b : <<NoNode, b>> \notin E
  BY NodesAssumption DEF Graph
<1>5. prev # NoNode => IF <<prev, at>> \in E /\ <<next, at>> \in E
                       THEN at \in Z \union AncestorsOf(E, Z) ELSE at \notin Z
  BY <1>1 DEF IsActiveTriplet
\* From a node that is connected every walk keeps on.
<1>6. ASSUME at \in M PROVE Keeps(E, X, Z, K, M, next, at)
  <2>1. CASE <<at, next>> \in E
    BY <1>6, <2>1 DEF Keeps, Down
  <2>2. CASE <<next, at>> \in E
    <3>1. next \in K /\ next \in M \union Z
      BY <1>2, <1>6, <2>2
    <3> QED BY <2>2, <3>1 DEF Keeps, Up
  <2> QED BY <1>1, <2>1, <2>2
<1>7. CASE at = X /\ prev = NoNode
  BY <1>2, <1>6, <1>7
<1>8. CASE Down(E, at, prev) /\ (at \in K => prev \in M)
  <2>0. <<prev, at>> \in E /\ prev # NoNode
    BY <1>4, <1>8 DEF Down
  <2>1. CASE <<at, next>> \in E
    <3>1. at \notin Z
      BY <1>3, <1>5, <2>0, <2>1
    <3>2. next \in K => at \in M
      BY <1>2, <1>8, <2>0, <2>1, <3>1
    <3> QED BY <2>1, <3>2 DEF Keeps, Down
  <2>2. CASE <<next, at>> \in E
    <3>1. at \in K /\ prev \in M
      BY <1>2, <1>5, <1>8, <2>0, <2>2
    <3>2. next \in K /\ next \in M \union Z
      BY <1>2, <2>0, <2>2, <3>1
    <3> QED BY <2>2, <3>2 DEF Keeps, Up
  <2> QED BY <1>1, <2>1, <2>2
<1>9. CASE Up(E, at, prev) /\ at \in K /\ at \in M \union Z
  <2>0. <<at, prev>> \in E /\ <<prev, at>> \notin E /\ prev # NoNode
    <3>1. prev \in Nodes
      BY <1>9 DEF Up, Graph
    <3> QED BY <1>3, <1>9, <3>1, NodesAssumption DEF Up
  <2>1. at \in M
    BY <1>5, <1>9, <2>0
  <2> QED BY <1>6, <2>1
<1> QED BY <1>7, <1>8, <1>9 DEF Keeps

\* What is separated in the moral graph is not reached.
LEMMA SeparatedIsUnreached ==
    ASSUME NEW E, Graph(E), Acyclic(E), NEW X \in Nodes, NEW Y, NEW Z, NEW K, NEW M, Connected(E, X, Z, K, M),
           Y \in K \ Z, Y # X, Y \notin M, NEW R, Found(R, E, X, Y, Z), NEW x \in R
    PROVE  x[1] # Y
<1>1. PICK T : T = {s \in R : Keeps(E, X, Z, K, M, s[1], s[2])}
  OBVIOUS
<1>2. \A s \in R : s = <<s[1], s[2]>>
  <2>1. \A e \in E : e = <<e[1], e[2]>>
    BY DEF Graph
  <2>2. \A e \in Turned(E) : e = <<e[1], e[2]>>
    BY DEF Turned
  <2> QED BY <2>1, <2>2 DEF Found
<1>3. <<X, NoNode>> \in T
  BY <1>1 DEF Found, Keeps
<1>4. ASSUME NEW s \in R \intersect T PROVE Walk(E, Y, Z, s) \subseteq T
  <2> SUFFICES ASSUME NEW r \in Walk(E, Y, Z, s) PROVE r \in T
    OBVIOUS
  <2>1. PICK at, prev : s = <<at, prev>>
    BY <1>2
  <2>2. PICK next : r = <<next, at>>
    BY <2>1 DEF Walk
  <2>3. Keeps(E, X, Z, K, M, at, prev)
    BY <1>1, <2>1
  <2>4. <<next, at>> \in Walk(E, Y, Z, <<at, prev>>)
    BY <2>1, <2>2
  <2>5. Keeps(E, X, Z, K, M, next, at)
    BY <2>3, <2>4, KeepsOn
  <2>6. r \in R
    BY DEF Found
  <2> QED BY <1>1, <2>2, <2>5, <2>6
<1>5. R \subseteq T
  BY <1>3, <1>4 DEF Found
<1>6. PICK prev : x = <<x[1], prev>> /\ Keeps(E, X, Z, K, M, x[1], prev)
  BY <1>1, <1>2, <1>5
<1>7. ASSUME x[1] = Y PROVE FALSE
  <2>1. Down(E, Y, prev) => prev \in M
    BY <1>3, <1>6, <1>7, NoWayBack DEF Keeps, Up, Down
  <2>2. Down(E, Y, prev) => Y \in M
    BY <2>1 DEF Down, Connected
  <2>3. Up(E, Y, prev) /\ ~Down(E, Y, prev) => Y \in M
    BY <1>6, <1>7 DEF Keeps
  <2> QED BY <1>6, <1>7, <2>2, <2>3 DEF Keeps
<1> QED BY <1>7

\* Nodes the walk visits.
Visited(R, v) == \E p : <<v, p>> \in R

\* From a node outside Z the walk goes to every child.
LEMMA VisitsChildren ==
    ASSUME NEW E, Graph(E), Acyclic(E), NEW X, NEW Y, NEW Z, NEW R, Found(R, E, X, Y, Z), ~Visited(R, Y),
           NEW v, v \notin Z, Visited(R, v), NEW w, <<v, w>> \in E
    PROVE  Visited(R, w)
<1>1. PICK p : <<v, p>> \in R
  BY DEF Visited
<1>2. PICK s \in R : s = <<v, p>>
  BY <1>1
<1>3. v # Y
  BY DEF Visited
<1>4. CASE w = p
  <2>1. w # NoNode
    BY NodesAssumption DEF Graph
  <2> QED BY <1>1, <1>4, <2>1, FoundFrom DEF Visited
<1>5. CASE w # p
  <2>1. IsActiveTriplet(E, p, v, w, Z)
    BY OpenWithout
  <2>2. <<w, v>> \in Walk(E, Y, Z, <<v, p>>)
    BY <1>3, <1>5, <2>1, WalkOn
  <2>3. <<w, v>> \in R
    BY <1>1, <2>2 DEF Found
  <2> QED BY <2>3 DEF Visited
<1> QED BY <1>4, <1>5

\* Up from a node that was entered from below, or first, to every parent.
LEMMA VisitsParents ==
    ASSUME NEW E, Graph(E), Acyclic(E), NEW X, NEW Y, NEW Z, NEW R, Found(R, E, X, Y, Z), ~Visited(R, Y),
           NEW v, v \notin Z, NEW p, <<v, p>> \in R, <<v, p>> \in E \/ p = NoNode, NEW w, <<w, v>> \in E
    PROVE  <<w, v>> \in R
<1>1. v # Y
  BY DEF Visited
<1>2. w # p
  BY NoWayBack, NodesAssumption DEF Graph
<1>3. IsActiveTriplet(E, p, v, w, Z)
  BY OpenWithout
<1>4. <<w, v>> \in Walk(E, Y, Z, <<v, p>>)
  BY <1>1, <1>2, <1>3, WalkOn
<1> QED BY <1>4 DEF Found

\* What is above X, and not above Z, is visited on the way up.
LEMMA VisitsAbove ==
    ASSUME NEW E, Graph(E), Acyclic(E), NEW X, NEW Y, NEW Z, X \notin Z, NEW R, Found(R, E, X, Y, Z),
           ~Visited(R, Y), NEW v \in Ancestors(E, X), v \notin Z \union AncestorsOf(E, Z)
    PROVE  \E p : <<v, p>> \in R /\ <<v, p>> \in E
<1>1. PICK B : B = Z \union AncestorsOf(E, Z)
  OBVIOUS
<1>2. \A e \in E : e[2] \in B => e[1] \in B
  BY <1>1, AncestorsOfFacts
<1>3. PICK T : T = {n \in Nodes : n \in B \/ \E p : <<n, p>> \in R /\ <<n, p>> \in E}
  OBVIOUS
<1>4. ASSUME NEW e \in E, e[2] = X \/ e[2] \in T PROVE e[1] \in T
  <2>1. PICK w, u : e = <<w, u>> /\ w = e[1] /\ u = e[2] /\ w \in Nodes
    BY DEF Graph
  <2>2. CASE u = X
    <3>1. <<X, NoNode>> \in R
      BY DEF Found
    <3>2. <<w, X>> \in R
      BY <2>1, <2>2, <3>1, VisitsParents
    <3> QED BY <1>3, <2>1, <2>2, <3>2
  <2>3. CASE u \in B
    BY <1>2, <1>3, <2>1, <2>3
  <2>4. CASE u \notin B /\ u \in T
    <3>1. PICK p : <<u, p>> \in R /\ <<u, p>> \in E
      BY <1>3, <2>4
    <3>2. u \notin Z
      BY <1>1, <2>4
    <3>3. <<w, u>> \in R
      BY <2>1, <3>1, <3>2, VisitsParents
    <3> QED BY <1>3, <2>1, <3>3
  <2> QED BY <1>4, <2>1, <2>2, <2>3, <2>4
<1>5. Ancestors(E, X) \subseteq T
  BY <1>4, AncestorsFacts
<1> QED BY <1>1, <1>3, <1>5

\* What is above Y, and not above Z, is not visited unless Y is.
LEMMA AvoidsAbove ==
    ASSUME NEW E, Graph(E), Acyclic(E), NEW X, NEW Y, NEW Z, NEW R, Found(R, E, X, Y, Z),
           ~Visited(R, Y), NEW v \in Ancestors(E, Y), v \notin Z \union AncestorsOf(E, Z)
    PROVE  ~Visited(R, v)
<1>1. PICK B : B = Z \union AncestorsOf(E, Z)
  OBVIOUS
<1>2. \A e \in E : e[2] \in B => e[1] \in B
  BY <1>1, AncestorsOfFacts
<1>3. PICK T : T = {n \in Nodes : n \in B \/ ~Visited(R, n)}
  OBVIOUS
<1>4. ASSUME NEW e \in E, e[2] = Y \/ e[2] \in T PROVE e[1] \in T
  <2>1. PICK w, u : e = <<w, u>> /\ w = e[1] /\ u = e[2] /\ w \in Nodes
    BY DEF Graph
  <2>2. CASE u \in B
    BY <1>2, <1>3, <2>1, <2>2
  <2>3. CASE ~Visited(R, u)
    <3>1. w \in B \/ ~Visited(R, w)
      BY <1>1, <2>1, <2>3, VisitsChildren
    <3> QED BY <1>3, <2>1, <3>1
  <2> QED BY <1>3, <1>4, <2>1, <2>2, <2>3
<1>5. Ancestors(E, Y) \subseteq T
  BY <1>4, AncestorsFacts
<1> QED BY <1>1, <1>3, <1>5

\* Who is above one of several nodes is above X, above Y or above Z.
LEMMA AboveOneOf ==
    ASSUME NEW E, Graph(E), NEW X, NEW Y, NEW Z, NEW v \in Relevant(E, X, Y, Z)
    PROVE  v \in {X, Y} \union Z \union AncestorsOf(E, Z) \union Ancestors(E, X) \union Ancestors(E, Y)
<1>1. PICK S : S = {X, Y} \union Z
  OBVIOUS
<1>2. PICK A : A = AncestorsOf(E, S)
  OBVIOUS
<1>3. PICK T : T = AncestorsOf(E, Z) \union Ancestors(E, X) \union Ancestors(E, Y)
  OBVIOUS
<1>4. PICK AZ, AX, AY : AZ = AncestorsOf(E, Z) /\ AX = Ancestors(E, X) /\ AY = Ancestors(E, Y)
  OBVIOUS
<1>5. \A e \in E : e[2] \in Z \/ e[2] \in AZ => e[1] \in AZ
  BY <1>4, AncestorsOfFacts
<1>6. \A e \in E : e[2] = X \/ e[2] \in AX => e[1] \in AX
  BY <1>4, AncestorsFacts
<1>7. \A e \in E : e[2] = Y \/ e[2] \in AY => e[1] \in AY
  BY <1>4, AncestorsFacts
<1>8. \A e \in E : e[2] \in S \/ e[2] \in T => e[1] \in T
  BY <1>1, <1>3, <1>4, <1>5, <1>6, <1>7
<1>9. A \subseteq T
  BY <1>2, <1>8, AncestorsOfFacts
<1>10. v \in S \union A
  BY <1>1, <1>2 DEF Relevant
<1> QED BY <1>1, <1>3, <1>9, <1>10

\* From a kept node outside Z the walk also reaches every parent.
LEMMA VisitsKeptParents ==
    ASSUME NEW E, Graph(E), Acyclic(E), NEW X, NEW Y, NEW Z, X \notin Z, NEW R, Found(R, E, X, Y, Z),
           ~Visited(R, Y), NEW v \in Relevant(E, X, Y, Z), v \notin Z, Visited(R, v), NEW w, <<w, v>> \in E
    PROVE  Visited(R, w)
<1>1. PICK p : <<v, p>> \in R
  BY DEF Visited
<1>2. v # Y
  BY DEF Visited
<1>3. CASE w = p
  <2>1. w # NoNode
    BY NodesAssumption DEF Graph
  <2> QED BY <1>1, <1>3, <2>1, FoundFrom DEF Visited
<1>4. CASE w # p /\ v \in AncestorsOf(E, Z)
  <2>1. IsActiveTriplet(E, p, v, w, Z)
    BY <1>4 DEF IsActiveTriplet
  <2>2. <<w, v>> \in Walk(E, Y, Z, <<v, p>>)
    BY <1>2, <1>4, <2>1, WalkOn
  <2>3. <<w, v>> \in R
    BY <1>1, <2>2 DEF Found
  <2> QED BY <2>3 DEF Visited
<1>5. CASE v \notin AncestorsOf(E, Z)
  <2>1. v \notin Ancestors(E, Y)
    BY <1>5, AvoidsAbove
  <2>2. v = X \/ v \in Ancestors(E, X)
    BY <1>2, <1>5, <2>1, AboveOneOf
  <2>3. PICK q : <<v, q>> \in R /\ (<<v, q>> \in E \/ q = NoNode)
    <3>1. CASE v = X
      BY <3>1 DEF Found
    <3>2. CASE v \in Ancestors(E, X)
      BY <1>5, <3>2, VisitsAbove
    <3> QED BY <2>2, <3>1, <3>2
  <2>4. <<w, v>> \in R
    BY <2>3, VisitsParents
  <2> QED BY <2>4 DEF Visited
<1> QED BY <1>3, <1>4, <1>5

\* And whoever shares a kept child with it.
LEMMA VisitsMarried ==
    ASSUME NEW E, Graph(E), Acyclic(E), NEW X, NEW Y, NEW Z, X \notin Z, NEW R, Found(R, E, X, Y, Z),
           ~Visited(R, Y), NEW v \in Relevant(E, X, Y, Z), v \notin Z, Visited(R, v),
           NEW c \in Relevant(E, X, Y, Z), <<v, c>> \in E, NEW w, <<w, c>> \in E
    PROVE  Visited(R, w)
<1>1. Visited(R, c)
  BY VisitsChildren
<1>2. CASE c \notin Z
  BY <1>1, <1>2, VisitsKeptParents
<1>3. CASE w = v
  BY <1>3
<1>4. CASE c \in Z /\ w # v
  <2>1. PICK p : <<v, p>> \in R
    BY DEF Visited
  <2>2. v # Y /\ c # Y /\ c # X /\ c # NoNode
    BY <1>1, <1>4, NodesAssumption DEF Visited, Graph
  <2>3. CASE p # c
    <3>1. IsActiveTriplet(E, p, v, c, Z)
      BY OpenWithout
    <3>2. <<c, v>> \in Walk(E, Y, Z, <<v, p>>)
      BY <2>2, <2>3, <3>1, WalkOn
    <3>3. <<c, v>> \in R
      BY <2>1, <3>2 DEF Found
    <3>4. IsActiveTriplet(E, v, c, w, Z)
      BY <1>4 DEF IsActiveTriplet
    <3>5. <<w, c>> \in Walk(E, Y, Z, <<c, v>>)
      BY <1>4, <2>2, <3>4, WalkOn
    <3>6. <<w, c>> \in R
      BY <3>3, <3>5 DEF Found
    <3> QED BY <3>6 DEF Visited
  <2>4. CASE p = c
    <3>1. PICK q : <<c, q>> \in R /\ <<v, c>> \in Walk(E, Y, Z, <<c, q>>)
      BY <2>1, <2>2, <2>4, FoundFrom
    <3>2. IsActiveTriplet(E, q, c, v, Z)
      BY <3>1, WalkOn
    <3>3. Visited(R, q) /\ q # NoNode
      <4>0. <<c, q>> \in R /\ ~ (c = X /\ q = NoNode)
        BY <2>2, <3>1
      <4>3. \E r : <<q, r>> \in R /\ <<c, q>> \in Walk(E, Y, Z, <<q, r>>)
        BY <4>0, FoundFrom, Zenon
      <4>1. PICK r : <<q, r>> \in R /\ <<c, q>> \in Walk(E, Y, Z, <<q, r>>)
        BY <4>3
      <4>2. <<q, c>> \in E \/ <<c, q>> \in E
        BY <4>1, WalkOn
      <4> QED BY <4>1, <4>2, NodesAssumption DEF Visited, Graph
    <3>4. <<q, c>> \in E
      BY <1>4, <3>2, <3>3 DEF IsActiveTriplet
    <3>5. CASE w = q
      BY <3>3, <3>5
    <3>6. CASE w # q
      <4>1. IsActiveTriplet(E, q, c, w, Z)
        BY <1>4, <3>4 DEF IsActiveTriplet
      <4>2. <<w, c>> \in Walk(E, Y, Z, <<c, q>>)
        BY <2>2, <3>6, <4>1, WalkOn
      <4>3. <<w, c>> \in R
        BY <3>1, <4>2 DEF Found
      <4> QED BY <4>3 DEF Visited
    <3> QED BY <3>5, <3>6
  <2> QED BY <2>3, <2>4
<1> QED BY <1>2, <1>3, <1>4

\* What the walk does not reach is separated in the moral graph.
LEMMA UnreachedIsSeparated ==
    ASSUME NEW E, Graph(E), Acyclic(E), NEW X \in Nodes, NEW Y \in Nodes, NEW Z \in SUBSET Nodes, X \notin Z,
           NEW R, Found(R, E, X, Y, Z), ~Visited(R, Y)
    PROVE  Separated(E, X, Y, Z)
<1>1. PICK K : K = Relevant(E, X, Y, Z)
  OBVIOUS
<1>2. K \in SUBSET Nodes /\ X \in K
  BY <1>1, RelevantFacts
<1>3. PICK F : F = Avoiding(E, K, Z)
  OBVIOUS
<1>4. Moral(F, E, K, Z) /\ Graph(F)
  <2>1. Moral(F, E, K, Z)
    BY <1>2, <1>3, AvoidingFacts
  <2> QED BY <2>1 DEF Moral
<1>5. PICK V : V = {v \in K \ Z : Visited(R, v)}
  OBVIOUS
<1>6. ASSUME NEW f \in F, f[1] \in V PROVE f[2] \in V
  <2>1. PICK v, w : f = <<v, w>> /\ v = f[1] /\ w = f[2]
    BY <1>4 DEF Moral
  <2>2. v \in K /\ v \notin Z /\ w \in K \ Z /\ Visited(R, v)
    BY <1>4, <1>5, <1>6, <2>1 DEF Moral
  <2>3. <<v, w>> \in E \/ <<w, v>> \in E \/ \E c \in K : <<v, c>> \in E /\ <<w, c>> \in E
    BY <1>4, <2>1 DEF Moral
  <2>4. CASE <<v, w>> \in E
    <3>1. Visited(R, w)
      BY <2>2, <2>4, VisitsChildren
    <3> QED BY <1>5, <2>1, <2>2, <3>1
  <2>5. CASE <<w, v>> \in E
    <3>1. Visited(R, w)
      BY <1>1, <2>2, <2>5, VisitsKeptParents
    <3> QED BY <1>5, <2>1, <2>2, <3>1
  <2>6. CASE \E c \in K : <<v, c>> \in E /\ <<w, c>> \in E
    <3>1. PICK c \in K : <<v, c>> \in E /\ <<w, c>> \in E
      BY <2>6
    <3>2. Visited(R, w)
      BY <1>1, <2>2, <3>1, VisitsMarried
    <3> QED BY <1>5, <2>1, <2>2, <3>2
  <2> QED BY <2>3, <2>4, <2>5, <2>6
<1>7. PICK origin : origin = {X}
  OBVIOUS
<1>8. Visited(R, X)
  BY DEF Found, Visited
<1>9. origin \subseteq V /\ origin \in SUBSET Nodes
  BY <1>2, <1>5, <1>7, <1>8
<1>10. Closure(F, origin) \subseteq V
  BY <1>4, <1>6, <1>9, ClosureFacts DEF Closed
<1> QED BY <1>1, <1>3, <1>5, <1>7, <1>10, SeparatedParts

\* The walk separates exactly what the moral graph separates.
LEMMA SeparationFacts ==
    ASSUME NEW E, E \subseteq Pairs, Acyclic(E), NEW X \in Nodes, NEW Y \in Nodes, X # Y,
           NEW Z \in SUBSET (Nodes \ {X, Y})
    PROVE  IsDSeparated(E, X, Y, Z) <=> Separated(E, X, Y, Z)
<1>1. Graph(E) /\ Z \in SUBSET Nodes /\ X \notin Z /\ Y \notin Z
  BY DEF Pairs, Graph
<1>2. PICK R : Found(R, E, X, Y, Z) /\ (IsDSeparated(E, X, Y, Z) <=> \A x \in R : x[1] # Y)
  BY WalkFacts
<1>3. PICK K : K = Relevant(E, X, Y, Z)
  OBVIOUS
<1>4. PICK F : F = Avoiding(E, K, Z)
  OBVIOUS
<1>5. PICK origin : origin = {X}
  OBVIOUS
<1>6. PICK M : M = Closure(F, origin)
  OBVIOUS
<1>7. Separated(E, X, Y, Z) <=> Y \notin M
  BY <1>3, <1>4, <1>5, <1>6, SeparatedParts
<1>8. /\ K \in SUBSET Nodes /\ X \in K /\ Y \in K /\ Z \subseteq K
      /\ \A a, b : <<a, b>> \in E /\ b \in K => a \in K
  BY <1>1, <1>3, RelevantFacts
<1>9. Moral(F, E, K, Z)
  BY <1>1, <1>4, <1>8, AvoidingFacts
<1>10. M \in SUBSET Nodes /\ X \in M /\ \A f \in F : f[1] \in M => f[2] \in M
  <2>1. Graph(F) /\ origin \in SUBSET Nodes
    BY <1>5, <1>9 DEF Moral
  <2> QED BY <1>5, <1>6, <2>1, ClosureFacts DEF Closed
<1>11. M \subseteq K \ Z
  <2>1. PICK V : V = K \ Z
    OBVIOUS
  <2>2. origin \subseteq V /\ origin \in SUBSET Nodes /\ Graph(F)
    BY <1>1, <1>5, <1>8, <1>9, <2>1 DEF Moral
  <2>3. ASSUME NEW f \in F PROVE f[2] \in V
    <3>1. PICK a, b : a = f[1] /\ b = f[2]
      OBVIOUS
    <3>2. <<a, b>> \in F
      BY <1>9, <3>1 DEF Moral
    <3>3. b \in K \ Z
      BY <1>9, <3>2 DEF Moral
    <3> QED BY <2>1, <3>1, <3>3
  <2>4. Closure(F, origin) \subseteq V
    BY <2>2, <2>3, ClosureFacts DEF Closed
  <2> QED BY <1>6, <2>1, <2>4
<1>12. \A a, b : <<a, b>> \in F /\ a \in M => b \in M
  <2> SUFFICES ASSUME NEW a, NEW b, <<a, b>> \in F, a \in M PROVE b \in M
    OBVIOUS
  <2>1. PICK f \in F : f = <<a, b>>
    OBVIOUS
  <2> QED BY <1>10, <2>1
<1>13. AncestorsOf(E, Z) \subseteq K
  <2>1. PICK A : A = AncestorsOf(E, Z)
    OBVIOUS
  <2>2. \A e \in E : e[2] \in Z \/ e[2] \in K => e[1] \in K
    <3>1. \A e \in E : e = <<e[1], e[2]>>
      BY DEF Pairs
    <3> QED BY <1>8, <3>1
  <2> QED BY <1>1, <2>2, AncestorsOfFacts
<1>14. Connected(E, X, Z, K, M)
  <2>1. \A a, b : a \in M /\ b \in K \ Z /\ (<<a, b>> \in E \/ <<b, a>> \in E) => b \in M
    BY <1>9, <1>11, <1>12 DEF Moral
  <2>2. \A a, b, c : a \in M /\ b \in K \ Z /\ c \in K /\ <<a, c>> \in E /\ <<b, c>> \in E => b \in M
    BY <1>9, <1>11, <1>12 DEF Moral
  <2> QED BY <1>8, <1>10, <1>11, <1>13, <2>1, <2>2 DEF Connected
<1>15. Y \notin M => IsDSeparated(E, X, Y, Z)
  BY <1>1, <1>2, <1>8, <1>14, SeparatedIsUnreached
<1>16. IsDSeparated(E, X, Y, Z) => Separated(E, X, Y, Z)
  <2> SUFFICES ASSUME \A x \in R : x[1] # Y PROVE Separated(E, X, Y, Z)
    BY <1>2
  <2>1. ~Visited(R, Y)
    <3>1. ASSUME NEW p, <<Y, p>> \in R PROVE FALSE
      <4>1. PICK x \in R : x = <<Y, p>>
        BY <3>1
      <4> QED BY <4>1
    <3> QED BY <3>1 DEF Visited
  <2> QED BY <1>1, <1>2, <2>1, UnreachedIsSeparated
<1> QED BY <1>7, <1>15, <1>16

\* The d-separation of the walks is that of the textbook, on every acyclic graph:
\* X and Y are separated by Z exactly when Z cuts them apart in the moral graph
\* of their ancestors and those of Z (d_separation.go:25).
THEOREM SeparationIsTextbook == Spec => []DSepIsTextbook
<1>1. ASSUME Sound PROVE DSepIsTextbook
  <2>1. Edges \subseteq Pairs
    BY <1>1 DEF Sound, Graphed, Weighed, Edges
  <2> QED BY <2>1, SeparationFacts DEF DSepIsTextbook
<1> QED BY <1>1, Soundness, PTL

=============================================================================
