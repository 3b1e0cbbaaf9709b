-------------------------- MODULE ApiState_proofs ---------------------------
(***************************************************************************)
(* Theorems about the state that the handlers of pkg/api keep from one     *)
(* request to the next: the token buckets (RateLimiter), for every cost,   *)
(* burst and idle time that satisfies LimiterAssumption, and the           *)
(* calibration store (CalibrationStore), for any number of reports and     *)
(* feedbacks in flight, any predictions and any number of training steps.  *)
(***************************************************************************)
EXTENDS RateLimiter, CalibrationStore, FiniteSetTheorems, WellFoundedInduction, TLAPS

-----------------------------------------------------------------------------
(***************************************************************************)
(* The bucket is an exact limiter.  The inductive invariant ties the level *)
(* of a bucket to the history: no stretch of grants that ends now has used *)
(* more than the bound leaves, and unless the bucket is full some stretch  *)
(* has used exactly that.                                                  *)
(***************************************************************************)

\* The types, without the bound on the clock.
Typed ==
    /\ now \in Nat
    /\ DOMAIN rlBuckets \subseteq IPs
    /\ \A ip \in DOMAIN rlBuckets :
         /\ rlBuckets[ip] \in [tokens : Int, lastSeen : Int]
         /\ rlBuckets[ip].tokens \in 0..Capacity
         /\ rlBuckets[ip].lastSeen \in 0..now
    /\ granted \in [IPs -> Seq(Nat)]
    /\ \A ip \in IPs : \A i \in DOMAIN granted[ip] : granted[ip][i] <= now

\* What the grants of ip from the i-th on leave of the bound.
Left(ip, i) ==
    Capacity + (now - granted[ip][i]) - Span(i, Len(granted[ip])) * Cost

\* The level is exactly the tightest of these, or the capacity.
Exact ==
    \A ip \in IPs :
        /\ \A i \in DOMAIN granted[ip] : Level(ip) <= Left(ip, i)
        /\ Level(ip) = Capacity \/ \E i \in DOMAIN granted[ip] : Level(ip) = Left(ip, i)

IInv == now <= MaxTime /\ Typed /\ Exact /\ WindowBound

-----------------------------------------------------------------------------
(***************************************************************************)
(* The arithmetic the steps need.                                          *)
(***************************************************************************)
LEMMA CapacityNat == Capacity \in Nat /\ Cost \in Nat /\ Cost <= Capacity /\ Capacity <= Idle + 1
<1>1. CASE Burst < 1
  BY <1>1, LimiterAssumption DEF Capacity
<1>2. CASE Burst >= 1
  <2>1. Burst * Cost >= Cost /\ Burst * Cost \in Nat
    BY <1>2, LimiterAssumption
  <2> QED BY <1>2, <2>1, LimiterAssumption DEF Capacity
<1> QED BY <1>1, <1>2, LimiterAssumption

\* One more grant costs one more token.
LEMMA OneMore ==
    ASSUME NEW i \in Nat, NEW j \in Nat
    PROVE  Span(i, j + 1) * Cost = Span(i, j) * Cost + Cost
  BY LimiterAssumption, Z3 DEF Span

\* A stretch of one grant.
LEMMA JustOne == ASSUME NEW j \in Nat PROVE Span(j, j) * Cost = Cost
  BY LimiterAssumption DEF Span

LEMMA SpanInt == ASSUME NEW i \in Nat, NEW j \in Nat PROVE Span(i, j) * Cost \in Int
  BY LimiterAssumption DEF Span

LEMMA LevelRange == ASSUME Typed, NEW ip \in IPs PROVE Level(ip) \in 0..Capacity
  BY CapacityNat DEF Typed, Level, Refilled

-----------------------------------------------------------------------------
LEMMA Initially == LimiterInit => IInv
  BY LimiterAssumption, CapacityNat DEF LimiterInit, IInv, Typed, Exact, WindowBound, Level

LEMMA Ticking == IInv /\ Tick => IInv'
<1> SUFFICES ASSUME IInv, Tick PROVE IInv'
  OBVIOUS
<1> USE DEF Tick
<1>1. Typed'
  BY LimiterAssumption DEF IInv, Typed, Capacity
<1>2. Exact'
  <2> SUFFICES ASSUME NEW ip \in IPs
               PROVE /\ \A i \in DOMAIN granted[ip] : Level(ip)' <= Left(ip, i)'
                     /\ \/ Level(ip)' = Capacity
                        \/ \E i \in DOMAIN granted[ip] : Level(ip)' = Left(ip, i)'
    BY DEF Exact, Capacity
  <2>1. Level(ip) \in Nat /\ Level(ip) <= Capacity
    BY LevelRange, CapacityNat DEF IInv
  <2>2. Level(ip)' = IF Level(ip) + 1 > Capacity THEN Capacity ELSE Level(ip) + 1
    BY CapacityNat DEF IInv, Typed, Level, Refilled, Capacity
  <2>3. \A i \in DOMAIN granted[ip] : Left(ip, i) \in Int /\ Left(ip, i)' = Left(ip, i) + 1
    <3> TAKE i \in DOMAIN granted[ip]
    <3>1. i \in Nat /\ Len(granted[ip]) \in Nat /\ granted[ip][i] \in Nat /\ now \in Nat
      BY DEF IInv, Typed
    <3>2. Span(i, Len(granted[ip])) * Cost \in Int
      BY <3>1, SpanInt
    <3>3. Capacity \in Nat /\ Capacity' = Capacity
      BY CapacityNat DEF Capacity
    <3>4. now' = now + 1 /\ granted' = granted
      OBVIOUS
    <3>5. Left(ip, i)' = Capacity + (now' - granted[ip][i]) - Span(i, Len(granted[ip])) * Cost
      BY <3>3, <3>4 DEF Left, Span
    <3>6. ASSUME NEW s \in Int, NEW g \in Nat
          PROVE  /\ Capacity + (now - g) - s \in Int
                 /\ Capacity + ((now + 1) - g) - s = (Capacity + (now - g) - s) + 1
      BY <3>1, <3>3
    <3>7. /\ Left(ip, i) \in Int
          /\ Capacity + ((now + 1) - granted[ip][i]) - Span(i, Len(granted[ip])) * Cost
                = Left(ip, i) + 1
      BY <3>1, <3>2, <3>6, Zenon DEF Left
    <3> QED BY <3>4, <3>5, <3>7
  <2> QED BY <2>1, <2>2, <2>3, CapacityNat DEF IInv, Exact
<1>3. WindowBound'
  BY DEF IInv, WindowBound, Capacity, Span
<1> QED BY <1>1, <1>2, <1>3, LimiterAssumption DEF IInv, Typed

\* What letting ip through, refusing it or evicting its bucket does to Exact
\* for an address whose grants and level stay as they are.
LEMMA Untouched ==
    ASSUME IInv, NEW ip \in IPs, now' = now, granted'[ip] = granted[ip], Level(ip)' = Level(ip)
    PROVE  /\ \A i \in DOMAIN granted'[ip] : Level(ip)' <= Left(ip, i)'
           /\ \/ Level(ip)' = Capacity
              \/ \E i \in DOMAIN granted'[ip] : Level(ip)' = Left(ip, i)'
<1>1. Capacity' = Capacity
  BY DEF Capacity
<1>2. \A i \in DOMAIN granted[ip] : Left(ip, i)' = Left(ip, i)
  BY <1>1 DEF Left, Span
<1> QED BY <1>2 DEF IInv, Exact

LEMMA Refusing == ASSUME IInv, NEW ip \in IPs, Refuse(ip) PROVE IInv'
<1> USE DEF Refuse, SetBucket
<1>1. Level(ip) \in 0..Capacity
  BY LevelRange DEF IInv
<1>2. Typed'
  BY <1>1, CapacityNat DEF IInv, Typed, Capacity
<1>3. \A other \in IPs : Level(other)' = Level(other)
  <2> TAKE other \in IPs
  <2>1. CASE other = ip
    BY <1>1, <2>1, CapacityNat DEF IInv, Typed, Level, Refilled, Capacity
  <2>2. CASE other # ip
    BY <2>2 DEF Level, Refilled, Capacity
  <2> QED BY <2>1, <2>2
<1>4. Exact'
  BY <1>3, Untouched DEF Exact, Capacity
<1>5. WindowBound'
  BY DEF IInv, WindowBound, Capacity, Span
<1> QED BY <1>2, <1>4, <1>5 DEF IInv

LEMMA Evicting == ASSUME IInv, Cleanup PROVE IInv'
<1> USE DEF Cleanup
<1>1. Typed'
  BY DEF IInv, Typed, Capacity
<1>2. \A ip \in IPs : Level(ip)' = Level(ip)
  <2> TAKE ip \in IPs
  <2>1. CASE ip \in DOMAIN rlBuckets /\ now - rlBuckets[ip].lastSeen > Idle
    BY <2>1, CapacityNat, LimiterAssumption DEF IInv, Typed, Level, Refilled, Capacity
  <2>2. CASE ~(ip \in DOMAIN rlBuckets /\ now - rlBuckets[ip].lastSeen > Idle)
    BY <2>2 DEF Level, Refilled, Capacity
  <2> QED BY <2>1, <2>2
<1>3. Exact'
  BY <1>2, Untouched DEF Exact, Capacity
<1>4. WindowBound'
  BY DEF IInv, WindowBound, Capacity, Span
<1> QED BY <1>1, <1>3, <1>4 DEF IInv

LEMMA Allowing == ASSUME IInv, NEW ip \in IPs, Allow(ip) PROVE IInv'
<1>0. PICK len \in Nat : len = Len(granted[ip])
  BY DEF IInv, Typed
<1>1. Level(ip) \in 0..Capacity /\ Level(ip) - Cost \in 0..Capacity /\ len \in Nat
  BY LevelRange, CapacityNat DEF IInv, Typed, Allow
<1>2. Capacity' = Capacity /\ now' = now
  BY DEF Allow, Capacity
<1>3. granted \in [IPs -> Seq(Nat)] /\ now \in Nat
  BY DEF IInv, Typed
<1>4. granted'[ip] = Append(granted[ip], now)
  BY <1>3 DEF Allow
<1>5. /\ granted'[ip] \in Seq(Nat) /\ Len(granted'[ip]) = len + 1
      /\ DOMAIN granted'[ip] = 1..(len + 1) /\ DOMAIN granted[ip] = 1..len
      /\ \A i \in 1..len : granted'[ip][i] = granted[ip][i] /\ granted[ip][i] \in Nat
      /\ granted'[ip][len + 1] = now
  BY <1>0, <1>3, <1>4
<1>6. \A other \in IPs \ {ip} : granted'[other] = granted[other]
  BY <1>3 DEF Allow
<1>7. Level(ip)' = Level(ip) - Cost
  <2>1. ip \in DOMAIN rlBuckets' /\ rlBuckets'[ip] = [tokens |-> Level(ip) - Cost, lastSeen |-> now]
    BY DEF Allow, SetBucket
  <2> QED BY <2>1, <1>1, <1>2, <1>3, CapacityNat DEF Level, Refilled
<1>8. \A other \in IPs \ {ip} : Level(other)' = Level(other)
  BY <1>2 DEF Allow, SetBucket, Level, Refilled
<1>9. Typed'
  <2>1. \A b \in DOMAIN rlBuckets' : /\ rlBuckets'[b] \in [tokens : Int, lastSeen : Int]
                                      /\ rlBuckets'[b].tokens \in 0..Capacity
                                      /\ rlBuckets'[b].lastSeen \in 0..now
    BY <1>1, <1>3, CapacityNat DEF IInv, Typed, Allow, SetBucket
  <2>2. DOMAIN rlBuckets' \subseteq IPs
    BY DEF IInv, Typed, Allow, SetBucket
  <2>3. granted' \in [IPs -> Seq(Nat)]
    BY <1>3 DEF Allow
  <2>4. \A a \in IPs : \A i \in DOMAIN granted'[a] : granted'[a][i] <= now
    <3> TAKE a \in IPs
    <3>1. CASE a = ip
      <4> TAKE i \in DOMAIN granted'[a]
      <4>1. CASE i = len + 1
        BY <1>3, <1>5, <3>1, <4>1
      <4>2. CASE i \in 1..len
        BY <1>5, <3>1, <4>2 DEF IInv, Typed
      <4> QED BY <1>1, <1>5, <3>1, <4>1, <4>2
    <3>2. CASE a # ip
      BY <1>6, <3>2 DEF IInv, Typed
    <3> QED BY <3>1, <3>2
  <2> QED BY <1>2, <1>3, <2>1, <2>2, <2>3, <2>4 DEF Typed
<1>10. \A i \in 1..len : Left(ip, i)' = Left(ip, i) - Cost /\ Left(ip, i) \in Int
  <2> TAKE i \in 1..len
  <2>1. i \in Nat
    BY <1>1
  <2>2. Span(i, len + 1) * Cost = Span(i, len) * Cost + Cost
    BY <1>1, <2>1, OneMore
  <2>3. Span(i, len) * Cost \in Int
    BY <1>1, <2>1, SpanInt
  <2>4. Left(ip, i)' = Capacity + (now - granted[ip][i]) - Span(i, len + 1) * Cost
    BY <1>2, <1>5 DEF Left, Span
  <2>5. Left(ip, i) = Capacity + (now - granted[ip][i]) - Span(i, len) * Cost
    BY <1>0 DEF Left
  <2>6. granted[ip][i] \in Nat
    BY <1>5
  <2>7. \A c, n, g, s, k \in Int : /\ c + (n - g) - s \in Int
                                    /\ c + (n - g) - (s + k) = (c + (n - g) - s) - k
    OBVIOUS
  <2>8. Capacity + (now - granted[ip][i]) - (Span(i, len) * Cost + Cost)
          = (Capacity + (now - granted[ip][i]) - Span(i, len) * Cost) - Cost
    BY <1>3, <2>3, <2>6, <2>7, CapacityNat, SMTT(30)
  <2>9. Left(ip, i) \in Int
    BY <1>3, <2>3, <2>5, <2>6, <2>7, CapacityNat
  <2> QED BY <2>2, <2>4, <2>5, <2>8, <2>9
<1>11. Left(ip, len + 1)' = Capacity - Cost
  <2>1. Left(ip, len + 1)' = Capacity + (now - now) - Span(len + 1, len + 1) * Cost
    BY <1>2, <1>5 DEF Left, Span
  <2>2. Span(len + 1, len + 1) * Cost = Cost
    BY <1>1, JustOne
  <2> QED BY <1>3, <2>1, <2>2, CapacityNat
<1>12. \A i \in DOMAIN granted'[ip] : Level(ip)' <= Left(ip, i)' /\ Left(ip, i)' \in Int
  <2> TAKE i \in DOMAIN granted'[ip]
  <2>1. CASE i = len + 1
    BY <1>1, <1>7, <1>11, <2>1, CapacityNat
  <2>2. CASE i \in 1..len
    <3>1. Level(ip) <= Left(ip, i) /\ Left(ip, i) \in Int
      BY <1>5, <1>10, <2>2 DEF IInv, Exact
    <3>2. Left(ip, i)' = Left(ip, i) - Cost
      BY <1>10, <2>2
    <3> QED BY <1>1, <1>7, <3>1, <3>2, CapacityNat
  <2> QED BY <1>1, <1>5, <2>1, <2>2
<1>13. Level(ip)' = Capacity' \/ \E i \in DOMAIN granted'[ip] : Level(ip)' = Left(ip, i)'
  <2>1. CASE Level(ip) = Capacity
    <3>1. len + 1 \in DOMAIN granted'[ip]
      BY <1>1, <1>5
    <3> QED BY <2>1, <3>1, <1>7, <1>11
  <2>2. CASE Level(ip) # Capacity
    <3>1. PICK i \in 1..len : Level(ip) = Left(ip, i)
      BY <1>5, <2>2 DEF IInv, Exact
    <3>2. i \in DOMAIN granted'[ip]
      BY <1>1, <1>5
    <3> QED BY <1>7, <1>10, <3>1, <3>2
  <2> QED BY <2>1, <2>2
<1>14. Exact'
  <2>1. \A other \in IPs \ {ip} :
           /\ \A i \in DOMAIN granted'[other] : Level(other)' <= Left(other, i)'
           /\ \/ Level(other)' = Capacity
              \/ \E i \in DOMAIN granted'[other] : Level(other)' = Left(other, i)'
    BY <1>2, <1>6, <1>8, Untouched
  <2> QED BY <1>2, <1>12, <1>13, <2>1 DEF Exact
<1>15. WindowBound'
  <2> SUFFICES ASSUME NEW a \in IPs, NEW i \in DOMAIN granted'[a], NEW j \in i..Len(granted'[a])
               PROVE  Span(i, j) * Cost <= Capacity + (granted'[a][j] - granted'[a][i])
    BY <1>2 DEF WindowBound, Span
  <2>1. CASE a # ip
    BY <1>6, <2>1 DEF IInv, WindowBound
  <2>2. CASE a = ip /\ j # len + 1
    <3>1. i \in 1..len /\ j \in i..len /\ j \in 1..len
      BY <1>1, <1>5, <2>2
    <3>2. Span(i, j) * Cost <= Capacity + (granted[ip][j] - granted[ip][i])
      BY <1>0, <1>5, <3>1 DEF IInv, WindowBound
    <3>3. granted'[a][i] = granted[ip][i] /\ granted'[a][j] = granted[ip][j]
      BY <1>5, <2>2, <3>1
    <3> QED BY <3>2, <3>3
  <2>3. CASE a = ip /\ j = len + 1
    <3>1. Left(ip, i)' >= 0 /\ Left(ip, i)' \in Int
      BY <1>1, <1>7, <1>12, <2>3, CapacityNat
    <3>2. Left(ip, i)' = Capacity + (now - granted'[ip][i]) - Span(i, len + 1) * Cost
      BY <1>2, <1>5 DEF Left, Span
    <3>3. i \in Nat /\ granted'[ip][i] \in Nat
      BY <1>5, <2>3
    <3>4. Span(i, len + 1) * Cost \in Int
      BY <1>1, <3>3, SpanInt
    <3>5. granted'[a][i] = granted'[ip][i] /\ granted'[a][j] = now
      BY <1>5, <2>3
    <3>6. \A c, n, g, s \in Int : c + (n - g) - s >= 0 => s <= c + (n - g)
      OBVIOUS
    <3>7. Span(i, len + 1) * Cost <= Capacity + (now - granted'[ip][i])
      <4>1. Capacity + (now - granted'[ip][i]) - Span(i, len + 1) * Cost >= 0
        BY <3>1, <3>2
      <4>2. /\ Capacity \in Int /\ now \in Int /\ granted'[ip][i] \in Int
            /\ Span(i, len + 1) * Cost \in Int
        BY <1>3, <3>3, <3>4, CapacityNat
      <4> QED BY <4>1, <4>2, <3>6
    <3> QED BY <2>3, <3>5, <3>7
  <2> QED BY <2>1, <2>2, <2>3
<1> QED BY <1>2, <1>9, <1>14, <1>15 DEF IInv
-----------------------------------------------------------------------------
LEMMA Inductive == IInv /\ [LimiterNext]_limiterVars => IInv'
<1> SUFFICES ASSUME IInv, [LimiterNext]_limiterVars PROVE IInv'
  OBVIOUS
<1>1. CASE Tick
  BY <1>1, Ticking
<1>2. CASE Cleanup
  BY <1>2, Evicting
<1>3. ASSUME NEW ip \in IPs, Allow(ip) PROVE IInv'
  BY <1>3, Allowing
<1>4. ASSUME NEW ip \in IPs, Refuse(ip) PROVE IInv'
  BY <1>4, Refusing
<1>5. CASE UNCHANGED limiterVars
  BY <1>5 DEF limiterVars, IInv, Typed, Exact, Level, Refilled, Left, Span, Capacity, WindowBound
<1> QED BY <1>1, <1>2, <1>3, <1>4, <1>5 DEF LimiterNext

\* The bucket keeps its types and never holds more than the burst.
THEOREM LimiterTypeCorrect == LimiterSpec => []LimiterTypeOK
<1>1. IInv => LimiterTypeOK
  <2> SUFFICES ASSUME IInv PROVE LimiterTypeOK
    OBVIOUS
  <2>1. \A ip \in IPs : granted[ip] \in Seq(0..now)
    <3> TAKE ip \in IPs
    <3>1. granted[ip] \in Seq(Nat) /\ now \in Nat
      BY DEF IInv, Typed
    <3>2. \A i \in 1..Len(granted[ip]) : granted[ip][i] \in 0..now
      BY <3>1 DEF IInv, Typed
    <3> QED BY <3>1, <3>2
  <2> QED BY <2>1, LimiterAssumption DEF IInv, Typed, LimiterTypeOK
<1> QED BY <1>1, Initially, Inductive, PTL DEF LimiterSpec

\* Whatever the clock, the requests and the evictions do, an IP gets at most
\* the burst plus the rate in every stretch of time.
THEOREM LimitHolds == LimiterSpec => []WindowBound
<1>1. IInv => WindowBound
  BY DEF IInv
<1> QED BY <1>1, Initially, Inductive, PTL DEF LimiterSpec

\* The limiter refuses only what would break that bound.
THEOREM RefusalJustified == LimiterSpec => NoNeedlessRefusal
<1>1. IInv /\ [LimiterNext]_limiterVars =>
        [\A ip \in IPs : Refuse(ip) =>
           \E i \in DOMAIN granted[ip] :
              (Span(i, Len(granted[ip])) + 1) * Cost > Capacity + (now - granted[ip][i])]_limiterVars
  <2> SUFFICES ASSUME IInv, NEW ip \in IPs, Refuse(ip)
               PROVE \E i \in DOMAIN granted[ip] :
                  (Span(i, Len(granted[ip])) + 1) * Cost > Capacity + (now - granted[ip][i])
    OBVIOUS
  <2>1. Level(ip) < Cost /\ Level(ip) # Capacity
    BY LevelRange, CapacityNat DEF Refuse, IInv
  <2>2. PICK i \in DOMAIN granted[ip] : Level(ip) = Left(ip, i)
    BY <2>1 DEF IInv, Exact
  <2>3. i \in Nat /\ Len(granted[ip]) \in Nat /\ granted[ip][i] \in Nat /\ now \in Nat
    BY DEF IInv, Typed
  <2>4. (Span(i, Len(granted[ip])) + 1) * Cost = Span(i, Len(granted[ip])) * Cost + Cost
    BY <2>3, LimiterAssumption, Z3 DEF Span
  <2>5. Span(i, Len(granted[ip])) * Cost \in Int
    BY <2>3, SpanInt
  <2> QED BY <2>1, <2>2, <2>3, <2>4, <2>5, CapacityNat DEF Left
<1> QED BY <1>1, Initially, Inductive, PTL DEF LimiterSpec, NoNeedlessRefusal

-----------------------------------------------------------------------------
(***************************************************************************)
(* The read lock that a report holds across its three computations is what *)
(* makes it a report of one moment: the proof is that no writer gets in    *)
(* while a report has something in hand.                                   *)
(***************************************************************************)

Outer == {"ece", "brier", "weights", "return", "unwind"}   \* one read lock asked for
Inner == {"ece2", "brier2", "weights2"}          \* and a second one

Snapshots == (UNION {[S -> Feedback] : S \in SUBSET Ids}) \union {<< >>}

Mutex ==
    [held : [Reporters -> Nat], writer : SUBSET Senders, pending : SUBSET Senders,
     waiting : SUBSET Reporters, behind : SUBSET Senders]

Types ==
    /\ records \in UNION {[S -> Feedback] : S \in SUBSET Ids}
    /\ received \in Seq(Feedback)
    /\ trained \in SUBSET Nat
    /\ rw \in Mutex
    /\ pc \in [Reporters \union Senders -> Outer \union Inner \union {"idle", "done", "failed", "record"}]
    /\ got \in [Reporters -> [ece : Snapshots, brier : Snapshots, weights : SUBSET Nat]]

\* The locks a report holds are those it asked for, but for the one it waits for.
Holds(c) ==
    /\ pc[c] \in {"idle", "done", "failed"} => rw.held[c] = 0
    /\ pc[c] \in Outer => rw.held[c] = IF c \in rw.waiting THEN 0 ELSE 1
    /\ pc[c] \in Inner => rw.held[c] = IF c \in rw.waiting THEN 1 ELSE 2
    /\ c \in rw.waiting => pc[c] \in Inner \union {"ece"}
    /\ pc[c] # "record"

\* Readers and writer exclude each other.
Exclusion ==
    /\ \A c \in Reporters : Holds(c)
    /\ \A c, d \in Writing : c = d
    /\ rw.writer # {} => \A c \in Reporters : rw.held[c] = 0
    /\ rw.pending # {} => rw.writer = {}

\* The records r are the last, for each prediction, of the first n feedbacks in s.
AreLast(s, r, n) ==
    /\ DOMAIN r = {s[k].id : k \in 1..n}
    /\ \A i \in DOMAIN r : \E k \in 1..n :
          s[k].id = i /\ r[i] = s[k] /\ \A m \in 1..n : s[m].id = i => m <= k

\* What the weights are trained on by then.
TrainedBy(s, n) == {k \in 1..n : s[k].whole}

\* What a report has in hand is what the store holds, until it is returned.
InHand(c) ==
    /\ pc[c] \in {"brier", "brier2", "weights", "weights2", "return"} => got[c].ece = records
    /\ pc[c] \in {"weights", "weights2", "return"} => got[c].brier = records
    /\ pc[c] = "return" => got[c].weights = trained
    /\ pc[c] = "done" => /\ got[c].ece = got[c].brier
                         /\ \E n \in 0..Len(received) :
                               AreLast(received, got[c].ece, n) /\ got[c].weights = TrainedBy(received, n)

OneMoment ==
    /\ AreLast(received, records, Len(received)) /\ trained = TrainedBy(received, Len(received))
    /\ \A c \in Reporters : InHand(c)

-----------------------------------------------------------------------------
\* A feedback is added behind the earlier ones.
LEMMA Appending ==
    ASSUME Types, NEW f \in Feedback, received' = Append(received, f)
    PROVE  /\ Len(received) \in Nat /\ Len(received') = Len(received) + 1
           /\ received'[Len(received) + 1] = f
           /\ \A k \in 1..Len(received) : received'[k] = received[k]
BY DEF Types

\* What held of the first n feedbacks still does.
LEMMA EarlierStays ==
    ASSUME Types, NEW f \in Feedback, received' = Append(received, f),
           NEW r, NEW n \in 0..Len(received)
    PROVE  /\ AreLast(received, r, n) => AreLast(received', r, n)
           /\ TrainedBy(received', n) = TrainedBy(received, n)
<1>1. \A k \in 1..n : received'[k] = received[k]
  BY Appending
<1>2. TrainedBy(received', n) = TrainedBy(received, n)
  BY <1>1 DEF TrainedBy
<1>3. {received'[k].id : k \in 1..n} = {received[k].id : k \in 1..n}
  BY <1>1
<1>4. ASSUME AreLast(received, r, n) PROVE AreLast(received', r, n)
  <2>1. DOMAIN r = {received'[k].id : k \in 1..n}
    BY <1>3, <1>4 DEF AreLast
  <2>2. ASSUME NEW i \in DOMAIN r
        PROVE  \E k \in 1..n : received'[k].id = i /\ r[i] = received'[k]
                                /\ \A m \in 1..n : received'[m].id = i => m <= k
    <3>1. PICK k \in 1..n : received[k].id = i /\ r[i] = received[k]
                             /\ \A m \in 1..n : received[m].id = i => m <= k
      BY <1>4 DEF AreLast
    <3> QED BY <1>1, <3>1
  <2> QED BY <2>1, <2>2 DEF AreLast
<1> QED BY <1>2, <1>4

\* Storing a feedback keeps the records the last ones, and it trains the
\* weights if it is whole.
LEMMA AppendKeepsLast ==
    ASSUME Types, AreLast(received, records, Len(received)), trained = TrainedBy(received, Len(received)),
           NEW f \in Feedback,
           records' = Stored(f), received' = Append(received, f),
           trained' = IF f.whole THEN trained \union {Len(received) + 1} ELSE trained
    PROVE  AreLast(received', records', Len(received')) /\ trained' = TrainedBy(received', Len(received'))
<1>0. Len(received) \in Nat
  BY Appending
<1>1. PICK w, v, r, L : w = received /\ v = received' /\ r = records' /\ L = Len(received)
  OBVIOUS
<1>L. L \in Nat
  BY <1>0, <1>1
<1> USE <1>L
<1>2. v[L + 1] = f /\ (\A n \in 1..L : v[n] = w[n]) /\ Len(received') = L + 1
  BY <1>1, Appending
<1>3. /\ DOMAIN r = DOMAIN records \union {f.id} /\ r[f.id] = f
      /\ \A i \in DOMAIN records \ {f.id} : r[i] = records[i]
  BY <1>1 DEF Stored
<1>4. DOMAIN records = {w[n].id : n \in 1..L}
  BY <1>1 DEF AreLast
<1>5. DOMAIN r = {v[n].id : n \in 1..(L + 1)}
  <2>1. \A n \in 1..(L + 1) : n \in 1..L \/ n = L + 1
    OBVIOUS
  <2>2. (L + 1) \in 1..(L + 1) /\ 1..L \subseteq 1..(L + 1)
    OBVIOUS
  <2> QED BY <1>2, <1>3, <1>4, <2>1, <2>2
<1>6. ASSUME NEW i \in DOMAIN r
      PROVE  \E n \in 1..(L + 1) : v[n].id = i /\ r[i] = v[n] /\ \A m \in 1..(L + 1) : v[m].id = i => m <= n
  <2>1. CASE i = f.id
    <3>1. L + 1 \in 1..(L + 1) /\ \A m \in 1..(L + 1) : m <= L + 1
      OBVIOUS
    <3> QED
      BY <1>2, <1>3, <2>1, <3>1
  <2>2. CASE i # f.id
    <3>1. PICK n \in 1..L : w[n].id = i /\ records[i] = w[n] /\ \A m \in 1..L : w[m].id = i => m <= n
      BY <1>1, <1>3, <2>2 DEF AreLast
    <3>2. n \in 1..(L + 1) /\ v[n].id = i /\ r[i] = v[n]
      BY <1>2, <1>3, <2>2, <3>1
    <3>3. ASSUME NEW m \in 1..(L + 1), v[m].id = i PROVE m <= n
      <4>1. m # L + 1
        BY <1>2, <2>2, <3>3
      <4>2. m \in 1..L
        BY <4>1
      <4> QED
        BY <1>2, <3>1, <3>3, <4>2
    <3> QED
      BY <3>2, <3>3
  <2> QED
    BY <2>1, <2>2
<1>7. AreLast(received', records', Len(received'))
  <2>1. records' = r /\ received' = v /\ Len(received') = L + 1
    BY <1>1, <1>2
  <2> QED BY <1>5, <1>6, <2>1 DEF AreLast
<1>8. trained' = {k \in 1..(L + 1) : v[k].whole}
  <2>1. trained = {k \in 1..L : w[k].whole}
    BY <1>1 DEF TrainedBy
  <2>2. \A k \in 1..(L + 1) : k \in 1..L \/ k = L + 1
    OBVIOUS
  <2>3. (L + 1) \in 1..(L + 1) /\ 1..L \subseteq 1..(L + 1)
    OBVIOUS
  <2>4. CASE f.whole
    <3>1. trained' = trained \union {L + 1}
      BY <1>1, <2>4
    <3> QED BY <1>2, <2>1, <2>2, <2>3, <2>4, <3>1
  <2>5. CASE ~f.whole
    <3>1. trained' = trained
      BY <2>5
    <3> QED BY <1>2, <2>1, <2>2, <2>3, <2>5, <3>1
  <2> QED BY <2>4, <2>5
<1>9. TrainedBy(received', Len(received')) = {k \in 1..(L + 1) : v[k].whole}
  BY <1>1, <1>2 DEF TrainedBy
<1> QED BY <1>7, <1>8, <1>9

\* Records that are the last of the first n are what LastOf says.
LEMMA LastIsPicked ==
    ASSUME Types, NEW n \in 0..Len(received), NEW r \in Snapshots, AreLast(received, r, n)
    PROVE  r = LastOf(n)
<1>1. ASSUME NEW i \in DOMAIN r PROVE r[i] = received[Max({k \in 1..n : received[k].id = i})]
  <2> DEFINE S == {k \in 1..n : received[k].id = i}
  <2>1. PICK k \in 1..n : received[k].id = i /\ r[i] = received[k] /\ \A m \in 1..n : received[m].id = i => m <= k
    BY DEF AreLast
  <2>2. 1..n \subseteq Nat
    BY DEF Types
  <2>3. k \in S /\ \A m \in S : k >= m
    BY <2>1, <2>2
  <2>4. \A j \in S : (\A m \in S : j >= m) => j = k
    BY <2>2, <2>3
  <2>5. Max(S) = k
    BY <2>3, <2>4 DEF Max
  <2> QED BY <2>1, <2>5
<1>2. DOMAIN r = {received[k].id : k \in 1..n}
  BY DEF AreLast
<1>3. r = [i \in DOMAIN r |-> r[i]]
  <2>1. CASE r = << >>
    BY <2>1
  <2>2. CASE r # << >>
    <3>1. PICK S \in SUBSET Ids : r \in [S -> Feedback]
      BY <2>2 DEF Snapshots
    <3> QED BY <3>1
  <2> QED BY <2>1, <2>2
<1> QED BY <1>1, <1>2, <1>3 DEF LastOf

-----------------------------------------------------------------------------
\* The steps of a report on the mutex.  A read lock is taken, or waited for ...
LEMMA RLockStep ==
    ASSUME Types, Exclusion, CalibrationAssumption, NEW c \in Reporters, NEW next,
           RLock(c, next), c \notin rw.waiting,
           \/ pc[c] \in {"idle", "done", "failed"} /\ next = "ece"
           \/ pc[c] \in Outer /\ next \in Inner
    PROVE  Exclusion' /\ rw' \in Mutex
<1>1. CASE Writing = {}
  <2> DEFINE more == [rw.held EXCEPT ![c] = @ + 1]
  <2>1. rw' = [rw EXCEPT !.held = more]
    BY <1>1 DEF RLock, Types, Mutex
  <2>a. more \in [Reporters -> Nat]
    BY DEF Types, Mutex
  <2>b. /\ rw' \in Mutex
        /\ rw'.held = more
        /\ rw'.writer = {} /\ rw'.pending = {} /\ rw'.waiting = rw.waiting
    <3> HIDE DEF more
    <3> QED
      BY <1>1, <2>1, <2>a DEF Types, Mutex, Writing
  <2>2. /\ rw' \in Mutex
        /\ rw'.held = [rw.held EXCEPT ![c] = @ + 1]
        /\ rw'.writer = {} /\ rw'.pending = {} /\ rw'.waiting = rw.waiting
    BY <2>b
  <2>3. pc' = [pc EXCEPT ![c] = next]
    BY DEF RLock
  <2>4. ASSUME NEW d \in Reporters PROVE Holds(d)'
    <3>1. CASE d = c
      BY <2>2, <2>3, <3>1 DEF Types, Mutex, Exclusion, Holds, Outer, Inner
    <3>2. CASE d # c
      BY <2>2, <2>3, <3>2 DEF Types, Mutex, Exclusion, Holds
    <3> QED
      BY <3>1, <3>2
  <2> QED
    BY <2>2, <2>4 DEF Exclusion, Writing
<1>2. CASE Writing # {}
  <2>1. rw' = [rw EXCEPT !.waiting = rw.waiting \union {c}]
    BY <1>2 DEF RLock, Types, Mutex
  <2>2. /\ rw' \in Mutex
        /\ rw'.held = rw.held
        /\ rw'.writer = rw.writer /\ rw'.pending = rw.pending
        /\ rw'.waiting = rw.waiting \union {c}
    BY <2>1 DEF Types, Mutex
  <2>3. pc' = [pc EXCEPT ![c] = next]
    BY DEF RLock
  <2>4. pc[c] \in Outer /\ next \in Inner => next \in Inner /\ pc[c] \in Outer
    OBVIOUS
  <2>5. ASSUME NEW d \in Reporters PROVE Holds(d)'
    <3>1. CASE d = c
      BY <2>2, <2>3, <3>1 DEF Types, Mutex, Exclusion, Holds, Outer, Inner
    <3>2. CASE d # c
      BY <2>2, <2>3, <3>2 DEF Types, Mutex, Exclusion, Holds
    <3> QED
      BY <3>1, <3>2
  <2> QED
    BY <2>2, <2>5 DEF Exclusion, Writing
<1> QED
  BY <1>1, <1>2

\* ... and released; the last one lets the waiting writer in.
LEMMA RUnlockStep ==
    ASSUME Types, Exclusion, CalibrationAssumption, NEW c \in Reporters, NEW next,
           RUnlock(c, next), c \notin rw.waiting,
           \/ pc[c] \in Inner /\ next \in Outer \ {"ece"}
           \/ pc[c] \in {"return", "unwind"} /\ next \in {"done", "failed"}
    PROVE  Exclusion' /\ rw' \in Mutex
<1> DEFINE held == [rw.held EXCEPT ![c] = @ - 1]
           free == \A d \in Reporters : held[d] = 0
<1>1. rw.held[c] \in {1, 2} /\ held[c] \in {0, 1} /\ (pc[c] \in Inner => held[c] = 1)
      /\ (pc[c] \in {"return", "unwind"} => held[c] = 0)
  BY DEF Exclusion, Holds, Types, Mutex, Outer, Inner
<1>2. held \in [Reporters -> Nat]
  BY <1>1 DEF Types, Mutex
<1>3. rw.writer = {}
  BY <1>1 DEF Exclusion
<1>4. rw' = [rw EXCEPT !.held = held,
                       !.writer = IF free THEN rw.writer \union rw.pending ELSE rw.writer,
                       !.pending = IF free THEN {} ELSE rw.pending]
  BY DEF RUnlock, Types, Mutex
<1>5. /\ rw' \in Mutex
      /\ rw'.held = held /\ rw'.waiting = rw.waiting
      /\ rw'.writer = IF free THEN rw.pending ELSE {}
      /\ rw'.pending = IF free THEN {} ELSE rw.pending
  <2> HIDE DEF held, free
  <2> QED
    BY <1>2, <1>3, <1>4 DEF Types, Mutex
<1>6. pc' = [pc EXCEPT ![c] = next]
  BY DEF RUnlock
<1>7. ASSUME NEW d \in Reporters PROVE Holds(d)'
  <2>1. CASE d = c
    BY <1>1, <1>5, <1>6, <2>1 DEF Types, Mutex, Exclusion, Holds, Outer, Inner
  <2>2. CASE d # c
    BY <1>5, <1>6, <2>2 DEF Types, Mutex, Exclusion, Holds
  <2> QED
    BY <2>1, <2>2
<1> QED
  BY <1>5, <1>7 DEF Exclusion, Writing

\* A feedback takes the mutex, or queues for it ...
LEMMA LockStep ==
    ASSUME Types, Exclusion, CalibrationAssumption, NEW c \in Senders, NEW next, Lock(c, next)
    PROVE  Exclusion' /\ rw' \in Mutex
<1>1. \A d \in Reporters : pc'[d] = pc[d]
  BY DEF Lock, Types, CalibrationAssumption
<1>2. /\ rw' \in Mutex
      /\ rw'.held = rw.held /\ rw'.waiting = rw.waiting
      /\ \/ rw'.writer = rw.writer /\ rw'.pending = rw.pending
         \/ Writing = {} /\ rw'.writer = {c} /\ rw'.pending = {} /\ \A d \in Reporters : rw.held[d] = 0
         \/ Writing = {} /\ rw'.pending = {c} /\ rw'.writer = {}
  BY DEF Lock, Types, Mutex, Writing
<1>3. \A d \in Reporters : Holds(d)'
  BY <1>1, <1>2 DEF Exclusion, Holds
<1> QED
  BY <1>2, <1>3 DEF Exclusion, Writing

\* ... and hands it to the readers that wait, before the next writer.
LEMMA UnlockStep ==
    ASSUME Types, Exclusion, CalibrationAssumption, NEW c \in Senders, NEW next,
           rw.writer = {c}, Unlock(c, next)
    PROVE  Exclusion' /\ rw' \in Mutex
<1>1. \A d \in Reporters : pc'[d] = pc[d]
  BY DEF Unlock, Types, CalibrationAssumption
<1>2. \A d \in Reporters : rw.held[d] = 0
  BY DEF Exclusion
<1> DEFINE held == [d \in Reporters |-> rw.held[d] + (IF d \in rw.waiting THEN 1 ELSE 0)]
<1>3. /\ held \in [Reporters -> Nat]
      /\ \A d \in Reporters : held[d] = IF d \in rw.waiting THEN 1 ELSE 0
  BY <1>2
<1>4. PICK w \in IF rw.behind = {} THEN {{}} ELSE {{d} : d \in rw.behind} :
         rw' = [rw EXCEPT !.held = held, !.waiting = {}, !.behind = @ \ w,
                          !.writer = IF rw.waiting = {} THEN w ELSE {},
                          !.pending = IF rw.waiting = {} THEN {} ELSE w]
  BY DEF Unlock
<1>5. w \subseteq Senders /\ \A d, e \in w : d = e
  BY DEF Types, Mutex
<1> HIDE DEF held
<1>6. /\ rw' \in Mutex
      /\ rw'.held = held /\ rw'.waiting = {}
      /\ rw'.writer = (IF rw.waiting = {} THEN w ELSE {})
      /\ rw'.pending = (IF rw.waiting = {} THEN {} ELSE w)
  BY <1>3, <1>4, <1>5 DEF Types, Mutex
<1>7. \A d \in Reporters : Holds(d)'
  BY <1>1, <1>2, <1>3, <1>6 DEF Exclusion, Holds, Outer, Inner
<1> QED
  BY <1>3, <1>5, <1>6, <1>7 DEF Exclusion, Writing

-----------------------------------------------------------------------------
Inv == Types /\ Exclusion /\ OneMoment

\* A step keeps the mutex consistent.
LEMMA ExclusionStep == CalibrationAssumption /\ Types /\ Exclusion /\ [Next]_vars => Exclusion' /\ rw' \in Mutex
<1> SUFFICES ASSUME CalibrationAssumption, Types, Exclusion, [Next]_vars
             PROVE  Exclusion' /\ rw' \in Mutex
  OBVIOUS
<1>1. CASE UNCHANGED vars
  BY <1>1 DEF vars, Exclusion, Holds, Writing, Types
<1>2. ASSUME NEW c \in Reporters, CalibrationHandler(c) PROVE Exclusion' /\ rw' \in Mutex
  <2>1. pc[c] \in {"idle", "done", "failed"} /\ RLock(c, "ece")
    BY <1>2 DEF CalibrationHandler
  <2>2. c \notin rw.waiting
    BY <2>1 DEF Exclusion, Holds, Inner
  <2> QED
    BY <2>1, <2>2, RLockStep
<1>3. ASSUME NEW c \in Reporters, Report(c) PROVE Exclusion' /\ rw' \in Mutex
  <2>1. ASSUME NEW from \in {"ece", "brier", "weights"}, NEW next \in Inner, LockAgain(c, from, next)
        PROVE  Exclusion' /\ rw' \in Mutex
    <3>1. pc[c] \in Outer /\ c \notin rw.waiting /\ RLock(c, next)
      BY <2>1 DEF LockAgain, Admitted, Outer
    <3> QED
      BY <3>1, RLockStep
  <2>2. CASE ComputeECE(c)
    <3>1. pc[c] \in Inner /\ c \notin rw.waiting /\ RUnlock(c, "brier")
      BY <2>2 DEF ComputeECE, Admitted, Inner
    <3>2. "brier" \in Outer \ {"ece"}
      BY DEF Outer
    <3> QED
      BY <3>1, <3>2, RUnlockStep
  <2>3. CASE ComputeBrierScore(c)
    <3>1. pc[c] \in Inner /\ c \notin rw.waiting /\ RUnlock(c, "weights")
      BY <2>3 DEF ComputeBrierScore, Admitted, Inner
    <3>2. "weights" \in Outer \ {"ece"}
      BY DEF Outer
    <3> QED
      BY <3>1, <3>2, RUnlockStep
  <2>4. CASE GetLearnedWeights(c)
    <3>1. pc[c] \in Inner /\ c \notin rw.waiting /\ RUnlock(c, "return")
      BY <2>4 DEF GetLearnedWeights, Admitted, Inner
    <3>2. "return" \in Outer \ {"ece"}
      BY DEF Outer
    <3> QED
      BY <3>1, <3>2, RUnlockStep
  <2>5. CASE Return(c)
    <3>1. pc[c] = "return" /\ RUnlock(c, "done")
      BY <2>5 DEF Return
    <3>2. c \notin rw.waiting
      BY <3>1 DEF Exclusion, Holds, Inner
    <3> QED
      BY <3>1, <3>2, RUnlockStep
  <2>6. CASE ComputeECEPanics(c)
    <3>1. pc[c] \in Inner /\ c \notin rw.waiting /\ RUnlock(c, "unwind")
      BY <2>6 DEF ComputeECEPanics, Admitted, Inner
    <3>2. "unwind" \in Outer \ {"ece"}
      BY DEF Outer
    <3> QED
      BY <3>1, <3>2, RUnlockStep
  <2>7. CASE Unwind(c)
    <3>1. pc[c] = "unwind" /\ RUnlock(c, "failed")
      BY <2>7 DEF Unwind
    <3>2. c \notin rw.waiting
      BY <3>1 DEF Exclusion, Holds, Inner
    <3> QED
      BY <3>1, <3>2, RUnlockStep
  <2> QED
    BY <1>3, <2>1, <2>2, <2>3, <2>4, <2>5, <2>6, <2>7 DEF Report, Inner
<1>4. ASSUME NEW c \in Senders, FeedbackHandler(c) PROVE Exclusion' /\ rw' \in Mutex
  BY <1>4, LockStep DEF FeedbackHandler
<1>5. ASSUME NEW c \in Senders, NEW f \in Feedback, RecordFeedback(c, f) PROVE Exclusion' /\ rw' \in Mutex
  BY <1>5, UnlockStep DEF RecordFeedback
<1> QED
  BY <1>1, <1>2, <1>3, <1>4, <1>5 DEF Next

\* A step leaves the types as they are.
LEMMA TypesStep == Types /\ rw' \in Mutex /\ [Next]_vars => Types'
<1> SUFFICES ASSUME Types, rw' \in Mutex, [Next]_vars PROVE Types'
  OBVIOUS
<1>1. CASE UNCHANGED vars
  BY <1>1 DEF vars, Types
<1>2. records \in Snapshots /\ << >> \in Snapshots /\ {} \in SUBSET Nat
  BY DEF Types, Snapshots
<1>3. ASSUME NEW c \in Reporters, NEW next \in Outer \union Inner \union {"idle", "done", "failed", "record"},
             NEW e \in Snapshots, NEW b \in Snapshots, NEW w \in SUBSET Nat,
             RLock(c, next) \/ RUnlock(c, next), UNCHANGED <<records, received, trained>>,
             got' = [got EXCEPT ![c] = [ece |-> e, brier |-> b, weights |-> w]]
      PROVE  Types'
  <2>1. pc' \in [Reporters \union Senders -> Outer \union Inner \union {"idle", "done", "failed", "record"}]
    BY <1>3 DEF RLock, RUnlock, Types
  <2>2. got' \in [Reporters -> [ece : Snapshots, brier : Snapshots, weights : SUBSET Nat]]
    BY <1>3 DEF Types
  <2> QED
    BY <1>3, <2>1, <2>2 DEF Types
<1>4. ASSUME NEW c \in Reporters
      PROVE  /\ got[c].ece \in Snapshots /\ got[c].brier \in Snapshots /\ got[c].weights \in SUBSET Nat
             /\ got[c] = [ece |-> got[c].ece, brier |-> got[c].brier, weights |-> got[c].weights]
  BY DEF Types
<1>5. ASSUME NEW c \in Reporters, CalibrationHandler(c) PROVE Types'
  <2>1. /\ RLock(c, "ece") /\ UNCHANGED <<records, received, trained>>
        /\ got' = [got EXCEPT ![c] = [ece |-> << >>, brier |-> << >>, weights |-> {}]]
    BY <1>5 DEF CalibrationHandler, Unread
  <2>2. "ece" \in Outer
    BY DEF Outer
  <2> QED
    BY <1>2, <1>3, <2>1, <2>2
<1>6. ASSUME NEW c \in Reporters, Report(c) PROVE Types'
  <2>1. ASSUME NEW from, NEW next \in Inner, LockAgain(c, from, next) PROVE Types'
    <3>1. pc' \in [Reporters \union Senders -> Outer \union Inner \union {"idle", "done", "failed", "record"}]
      BY <2>1 DEF LockAgain, RLock, Types
    <3> QED
      BY <2>1, <3>1 DEF LockAgain, Types
  <2>2. CASE ComputeECE(c)
    <3>1. got' = [got EXCEPT ![c] = [ece |-> records, brier |-> got[c].brier, weights |-> got[c].weights]]
      <4>1. got' = [got EXCEPT ![c] = [got[c] EXCEPT !.ece = records]]
        BY <2>2 DEF ComputeECE, Types
      <4>2. got[c] \in [ece : Snapshots, brier : Snapshots, weights : SUBSET Nat]
        BY DEF Types
      <4>3. [got[c] EXCEPT !.ece = records] = [ece |-> records, brier |-> got[c].brier, weights |-> got[c].weights]
        BY <4>2
      <4> QED
        BY <4>1, <4>3
    <3>3. RUnlock(c, "brier") /\ UNCHANGED <<records, received, trained>> /\ "brier" \in Outer
      BY <2>2 DEF ComputeECE, Outer
    <3>4. got[c].ece \in Snapshots /\ got[c].brier \in Snapshots /\ got[c].weights \in SUBSET Nat
      BY <1>4
    <3>5. PICK e, b, w : e = got'[c].ece /\ b = got'[c].brier /\ w = got'[c].weights
      OBVIOUS
    <3>6. /\ e \in Snapshots /\ b \in Snapshots /\ w \in SUBSET Nat
          /\ got' = [got EXCEPT ![c] = [ece |-> e, brier |-> b, weights |-> w]]
      BY <1>2, <3>1, <3>4, <3>5 DEF Types
    <3> QED
      BY <1>3, <3>3, <3>6
  <2>3. CASE ComputeBrierScore(c)
    <3>1. got' = [got EXCEPT ![c] = [ece |-> got[c].ece, brier |-> records, weights |-> got[c].weights]]
      <4>1. got' = [got EXCEPT ![c] = [got[c] EXCEPT !.brier = records]]
        BY <2>3 DEF ComputeBrierScore, Types
      <4>2. got[c] \in [ece : Snapshots, brier : Snapshots, weights : SUBSET Nat]
        BY DEF Types
      <4>3. [got[c] EXCEPT !.brier = records] = [ece |-> got[c].ece, brier |-> records, weights |-> got[c].weights]
        BY <4>2
      <4> QED
        BY <4>1, <4>3
    <3>3. RUnlock(c, "weights") /\ UNCHANGED <<records, received, trained>> /\ "weights" \in Outer
      BY <2>3 DEF ComputeBrierScore, Outer
    <3>4. got[c].ece \in Snapshots /\ got[c].brier \in Snapshots /\ got[c].weights \in SUBSET Nat
      BY <1>4
    <3>5. PICK e, b, w : e = got'[c].ece /\ b = got'[c].brier /\ w = got'[c].weights
      OBVIOUS
    <3>6. /\ e \in Snapshots /\ b \in Snapshots /\ w \in SUBSET Nat
          /\ got' = [got EXCEPT ![c] = [ece |-> e, brier |-> b, weights |-> w]]
      BY <1>2, <3>1, <3>4, <3>5 DEF Types
    <3> QED
      BY <1>3, <3>3, <3>6
  <2>4. CASE GetLearnedWeights(c)
    <3>1. got' = [got EXCEPT ![c] = [ece |-> got[c].ece, brier |-> got[c].brier, weights |-> trained]]
      <4>1. got' = [got EXCEPT ![c] = [got[c] EXCEPT !.weights = trained]]
        BY <2>4 DEF GetLearnedWeights, Types
      <4>2. got[c] \in [ece : Snapshots, brier : Snapshots, weights : SUBSET Nat]
        BY DEF Types
      <4>3. [got[c] EXCEPT !.weights = trained] = [ece |-> got[c].ece, brier |-> got[c].brier, weights |-> trained]
        BY <4>2
      <4> QED
        BY <4>1, <4>3
    <3>2. trained \in SUBSET Nat
      BY DEF Types
    <3>3. RUnlock(c, "return") /\ UNCHANGED <<records, received, trained>> /\ "return" \in Outer
      BY <2>4 DEF GetLearnedWeights, Outer
    <3>4. got[c].ece \in Snapshots /\ got[c].brier \in Snapshots /\ got[c].weights \in SUBSET Nat
      BY <1>4
    <3>5. PICK e, b, w : e = got'[c].ece /\ b = got'[c].brier /\ w = got'[c].weights
      OBVIOUS
    <3>6. /\ e \in Snapshots /\ b \in Snapshots /\ w \in SUBSET Nat
          /\ got' = [got EXCEPT ![c] = [ece |-> e, brier |-> b, weights |-> w]]
      BY <1>2, <3>2, <3>1, <3>4, <3>5 DEF Types
    <3> QED
      BY <1>3, <3>3, <3>6
  <2>5. CASE Return(c)
    <3>1. pc' \in [Reporters \union Senders -> Outer \union Inner \union {"idle", "done", "failed", "record"}]
      BY <2>5 DEF Return, RUnlock, Types
    <3> QED
      BY <2>5, <3>1 DEF Return, Types
  <2>6. CASE ComputeECEPanics(c) \/ Unwind(c)
    <3>1. pc' \in [Reporters \union Senders -> Outer \union Inner \union {"idle", "done", "failed", "record"}]
      BY <2>6 DEF ComputeECEPanics, Unwind, RUnlock, Types, Outer
    <3> QED
      BY <2>6, <3>1 DEF ComputeECEPanics, Unwind, Types
  <2> QED
    BY <1>6, <2>1, <2>2, <2>3, <2>4, <2>5, <2>6 DEF Report, Inner
<1>7. ASSUME NEW c \in Senders, FeedbackHandler(c) PROVE Types'
  <2>1. pc' \in [Reporters \union Senders -> Outer \union Inner \union {"idle", "done", "failed", "record"}]
    BY <1>7 DEF FeedbackHandler, Lock, Types
  <2> QED
    BY <1>7, <2>1 DEF FeedbackHandler, Types
<1>8. ASSUME NEW c \in Senders, NEW f \in Feedback, RecordFeedback(c, f) PROVE Types'
  <2>1. pc' \in [Reporters \union Senders -> Outer \union Inner \union {"idle", "done", "failed", "record"}]
    BY <1>8 DEF RecordFeedback, Unlock, Types
  <2>2. PICK S \in SUBSET Ids : records \in [S -> Feedback]
    BY DEF Types
  <2>3. S \union {f.id} \in SUBSET Ids /\ Stored(f) \in [S \union {f.id} -> Feedback]
    BY <2>2 DEF Stored, Feedback
  <2>4. records' \in UNION {[T -> Feedback] : T \in SUBSET Ids}
    BY <1>8, <2>3 DEF RecordFeedback
  <2>5. received' \in Seq(Feedback) /\ got' = got
    BY <1>8 DEF RecordFeedback, Types
  <2>6. trained' \in SUBSET Nat
    <3>1. Len(received) + 1 \in Nat /\ trained \in SUBSET Nat
      BY DEF Types
    <3> QED
      BY <1>8, <3>1 DEF RecordFeedback
  <2> QED
    BY <2>1, <2>4, <2>5, <2>6 DEF Types
<1> QED
  BY <1>1, <1>5, <1>6, <1>7, <1>8 DEF Next

\* What a step that is not of a writer leaves of OneMoment: the store, and
\* what the other reports have in hand.
LEMMA InHandFrame ==
    ASSUME OneMoment, NEW c \in Reporters, records' = records, received' = received, trained' = trained, InHand(c)',
           \A d \in Reporters \ {c} : pc'[d] = pc[d] /\ got'[d] = got[d]
    PROVE  OneMoment'
<1>1. ASSUME NEW d \in Reporters PROVE InHand(d)'
  <2>1. CASE d = c
    BY <2>1
  <2>2. CASE d # c
    <3>1. InHand(d) /\ pc'[d] = pc[d] /\ got'[d] = got[d]
      BY <2>2 DEF OneMoment
    <3> QED BY <3>1 DEF InHand
  <2> QED BY <2>1, <2>2
<1> QED BY <1>1 DEF OneMoment

LEMMA OneMomentStep == CalibrationAssumption /\ Inv /\ [Next]_vars => OneMoment'
<1> SUFFICES ASSUME CalibrationAssumption, Types, Exclusion, OneMoment, [Next]_vars PROVE OneMoment'
  BY DEF Inv
<1>1. CASE UNCHANGED vars
  BY <1>1 DEF vars, OneMoment, InHand, AreLast, TrainedBy
<1>2. ASSUME NEW c \in Reporters, CalibrationHandler(c) PROVE OneMoment'
  <2>1. /\ pc' = [pc EXCEPT ![c] = "ece"] /\ got' = [got EXCEPT ![c] = Unread]
        /\ records' = records /\ received' = received /\ trained' = trained
    BY <1>2 DEF CalibrationHandler, RLock
  <2>2. InHand(c)'
    BY <2>1 DEF InHand, Types
  <2> QED
    BY <2>1, <2>2, InHandFrame DEF Types
<1>3. ASSUME NEW c \in Reporters, Report(c) PROVE OneMoment'
  <2> USE DEF Types
  <2>1. InHand(c)
    BY DEF OneMoment
  <2>2. CASE LockAgain(c, "ece", "ece2") \/ LockAgain(c, "brier", "brier2") \/ LockAgain(c, "weights", "weights2")
    <3>1. /\ pc' \in {[pc EXCEPT ![c] = "ece2"], [pc EXCEPT ![c] = "brier2"], [pc EXCEPT ![c] = "weights2"]}
          /\ pc'[c] = "brier2" => pc[c] = "brier"
          /\ pc'[c] = "weights2" => pc[c] = "weights"
          /\ got' = got /\ records' = records /\ received' = received /\ trained' = trained
      BY <2>2 DEF LockAgain, RLock
    <3>2. InHand(c)'
      BY <2>1, <3>1 DEF InHand
    <3> QED
      BY <3>1, <3>2, InHandFrame
  <2>3. CASE ComputeECE(c)
    <3>1. /\ pc' = [pc EXCEPT ![c] = "brier"] /\ got' = [got EXCEPT ![c].ece = records]
          /\ records' = records /\ received' = received /\ trained' = trained
      BY <2>3 DEF ComputeECE, RUnlock
    <3>2. InHand(c)'
      BY <3>1 DEF InHand
    <3> QED
      BY <3>1, <3>2, InHandFrame
  <2>4. CASE ComputeBrierScore(c)
    <3>1. /\ pc' = [pc EXCEPT ![c] = "weights"] /\ got' = [got EXCEPT ![c].brier = records]
          /\ pc[c] = "brier2" /\ records' = records /\ received' = received /\ trained' = trained
      BY <2>4 DEF ComputeBrierScore, RUnlock
    <3>2. InHand(c)'
      BY <2>1, <3>1 DEF InHand
    <3> QED
      BY <3>1, <3>2, InHandFrame
  <2>5. CASE GetLearnedWeights(c)
    <3>1. /\ pc' = [pc EXCEPT ![c] = "return"] /\ got' = [got EXCEPT ![c].weights = trained]
          /\ pc[c] = "weights2" /\ records' = records /\ received' = received /\ trained' = trained
      BY <2>5 DEF GetLearnedWeights, RUnlock
    <3>2. InHand(c)'
      BY <2>1, <3>1 DEF InHand
    <3> QED
      BY <3>1, <3>2, InHandFrame
  <2>6. CASE Return(c)
    <3>1. /\ pc' = [pc EXCEPT ![c] = "done"] /\ got' = got
          /\ pc[c] = "return" /\ records' = records /\ received' = received /\ trained' = trained
      BY <2>6 DEF Return, RUnlock
    <3>2. /\ got[c].ece = got[c].brier /\ AreLast(received, got[c].ece, Len(received))
          /\ got[c].weights = TrainedBy(received, Len(received))
      BY <2>1, <3>1 DEF InHand, OneMoment
    <3>3. PICK n \in 0..Len(received) : n = Len(received)
      BY DEF Types
    <3>4. /\ got'[c] = got[c] /\ pc'[c] = "done"
          /\ AreLast(received', got[c].ece, n) /\ TrainedBy(received', n) = TrainedBy(received, n)
      BY <3>1, <3>2, <3>3 DEF AreLast, TrainedBy
    <3>5. InHand(c)'
      <4>1. \E k \in 0..Len(received') : AreLast(received', got'[c].ece, k) /\ got'[c].weights = TrainedBy(received', k)
        BY <3>1, <3>2, <3>3, <3>4
      <4> QED BY <3>2, <3>4, <4>1 DEF InHand
    <3> QED
      BY <3>1, <3>5, InHandFrame
  <2>7. CASE ComputeECEPanics(c) \/ Unwind(c)
    <3>1. /\ pc' = [pc EXCEPT ![c] = "unwind"] \/ pc' = [pc EXCEPT ![c] = "failed"]
          /\ got' = got /\ records' = records /\ received' = received /\ trained' = trained
      BY <2>7 DEF ComputeECEPanics, Unwind, RUnlock
    <3>2. InHand(c)'
      BY <3>1 DEF InHand
    <3> QED
      BY <3>1, <3>2, InHandFrame
  <2> QED
    BY <1>3, <2>2, <2>3, <2>4, <2>5, <2>6, <2>7 DEF Report
<1>4. ASSUME NEW c \in Senders, FeedbackHandler(c) PROVE OneMoment'
  <2>1. /\ \A d \in Reporters : pc'[d] = pc[d]
        /\ got' = got /\ records' = records /\ received' = received /\ trained' = trained
    BY <1>4 DEF FeedbackHandler, Lock, Types, CalibrationAssumption
  <2> QED
    BY <2>1 DEF OneMoment, InHand, AreLast, TrainedBy
<1>5. ASSUME NEW c \in Senders, NEW f \in Feedback, RecordFeedback(c, f) PROVE OneMoment'
  <2>1. /\ \A d \in Reporters : pc'[d] = pc[d]
        /\ got' = got /\ records' = Stored(f) /\ received' = Append(received, f)
        /\ trained' = IF f.whole THEN trained \union {Len(received) + 1} ELSE trained
    BY <1>5 DEF RecordFeedback, Unlock, Types, CalibrationAssumption
  <2>2. \A d \in Reporters : rw.held[d] = 0
    BY <1>5 DEF RecordFeedback, Exclusion
  <2>3. ASSUME NEW d \in Reporters PROVE pc[d] \in {"idle", "ece", "done", "failed", "unwind"}
    BY <2>2, SMTT(30) DEF Exclusion, Holds, Types, Outer, Inner
  <2>4. ASSUME NEW d \in Reporters PROVE InHand(d)'
    <3>1. CASE pc[d] # "done"
      BY <2>1, <2>3, <3>1 DEF InHand
    <3>2. CASE pc[d] = "done"
      <4>1. PICK n \in 0..Len(received) : AreLast(received, got[d].ece, n) /\ got[d].weights = TrainedBy(received, n)
        BY <3>2 DEF OneMoment, InHand
      <4>2. PICK r : r = got[d].ece
        OBVIOUS
      <4>3. AreLast(received', r, n) /\ TrainedBy(received', n) = TrainedBy(received, n)
        BY <2>1, <4>1, <4>2, EarlierStays
      <4>4. n \in 0..Len(received')
        BY <2>1, Appending
      <4>5. \E k \in 0..Len(received') : AreLast(received', got'[d].ece, k) /\ got'[d].weights = TrainedBy(received', k)
        BY <2>1, <4>1, <4>2, <4>3, <4>4
      <4>6. got[d].ece = got[d].brier
        BY <3>2 DEF OneMoment, InHand
      <4> QED BY <2>1, <3>2, <4>5, <4>6 DEF InHand
    <3> QED BY <3>1, <3>2
  <2>5. AreLast(received', records', Len(received')) /\ trained' = TrainedBy(received', Len(received'))
    BY <2>1, AppendKeepsLast DEF OneMoment
  <2> QED
    BY <2>4, <2>5 DEF OneMoment
<1> QED
  BY <1>1, <1>2, <1>3, <1>4, <1>5 DEF Next

LEMMA InvInit == CalibrationAssumption /\ Init => Inv
<1> SUFFICES ASSUME CalibrationAssumption, Init PROVE Inv
  OBVIOUS
<1>1. records \in [{} -> Feedback] /\ DOMAIN records = {} /\ Len(received) = 0
  BY DEF Init, NoRecords
<1>2. Types
  <2>1. << >> \in Snapshots /\ << >> \in Seq(Feedback) /\ {} \in SUBSET Nat
    BY DEF Snapshots
  <2>2. got \in [Reporters -> [ece : Snapshots, brier : Snapshots, weights : SUBSET Nat]]
    BY <2>1 DEF Init
  <2>3. rw \in Mutex
    BY DEF Init, Mutex
  <2>4. records \in UNION {[S -> Feedback] : S \in SUBSET Ids}
    BY <1>1
  <2>5. received \in Seq(Feedback) /\ trained \in SUBSET Nat
    BY <2>1 DEF Init
  <2> QED
    BY <2>1, <2>2, <2>3, <2>4, <2>5 DEF Init, Types
<1>3. Exclusion
  BY DEF Init, Exclusion, Holds, Writing, Outer, Inner, CalibrationAssumption
<1>4. AreLast(received, records, Len(received)) /\ trained = TrainedBy(received, Len(received))
  <2>1. 1..0 = {} /\ trained = {}
    BY DEF Init
  <2> QED BY <1>1, <2>1 DEF AreLast, TrainedBy
<1>5. \A c \in Reporters : pc[c] = "idle"
  BY DEF Init
<1> QED
  BY <1>2, <1>3, <1>4, <1>5 DEF Inv, OneMoment, InHand

\* The three parts together are inductive.
LEMMA InvAlways == Spec => []Inv
<1>1. Inv /\ [Next]_vars => Inv'
  BY CalibrationAssumption, ExclusionStep, TypesStep, OneMomentStep DEF Inv
<1>2. Init => Inv
  BY CalibrationAssumption, InvInit
<1> QED
  BY <1>1, <1>2, PTL DEF Spec

\* The types, and that a writer excludes the readers (sync.RWMutex as
\* calibration_store.go uses it), for any number of requests.
THEOREM TypeCorrect == Spec => []TypeOK
<1>1. Types /\ Exclusion /\ trained = TrainedBy(received, Len(received)) => TypeOK
  <2> SUFFICES ASSUME Types, Exclusion, trained = TrainedBy(received, Len(received)) PROVE TypeOK
    OBVIOUS
  <2>4. trained \subseteq DOMAIN received
    <3>1. DOMAIN received = 1..Len(received)
      BY DEF Types
    <3> QED BY <3>1 DEF TrainedBy
  <2>1. DOMAIN records \subseteq Ids /\ \A i \in DOMAIN records : records[i] \in Feedback
    BY DEF Types
  <2>2. \A c \in Reporters : rw.held[c] \in 0..2
    BY CalibrationAssumption DEF Types, Exclusion, Holds, Outer, Inner
  <2>3. received \in Seq(Feedback)
    BY DEF Types
  <2> QED
    BY <2>1, <2>2, <2>3, <2>4 DEF Types, Mutex, Exclusion, TypeOK
<1>2. Inv => TypeOK
  BY <1>1 DEF Inv, OneMoment
<1> QED
  BY <1>2, InvAlways, PTL

\* ReportIsOneMoment: the scores and the weights of one report (GenerateReport)
\* were computed at one moment, for any requests that overlap it.
THEOREM OneMomentReport == Spec => []ReportIsOneMoment
<1>1. Inv => ReportIsOneMoment
  <2> SUFFICES ASSUME Inv, NEW c \in Reporters, pc[c] = "done"
               PROVE  \E n \in 0..Len(received) :
                        /\ got[c].ece = LastOf(n) /\ got[c].brier = LastOf(n)
                        /\ got[c].weights = {k \in 1..n : received[k].whole}
    BY DEF ReportIsOneMoment
  <2>1. got[c].ece = got[c].brier
    BY DEF Inv, OneMoment, InHand
  <2>2. PICK n \in 0..Len(received) : AreLast(received, got[c].ece, n) /\ got[c].weights = TrainedBy(received, n)
    BY DEF Inv, OneMoment, InHand
  <2>3. got[c].ece \in Snapshots
    BY DEF Inv, Types
  <2>4. got[c].ece = LastOf(n)
    BY <2>2, <2>3, LastIsPicked DEF Inv
  <2> QED
    BY <2>1, <2>2, <2>4 DEF TrainedBy
<1> QED
  BY <1>1, InvAlways, PTL

-----------------------------------------------------------------------------
(***************************************************************************)
(* Sums over finite sets: the order in which the elements are chosen does  *)
(* not matter.                                                             *)
(***************************************************************************)

\* Induction, over a set of numbers, and over a set of finite sets.
LEMMA Climbing ==
    ASSUME NEW S, 0 \in S, \A n \in Nat : n \in S => n + 1 \in S
    PROVE  Nat \subseteq S
<1> SUFFICES ASSUME Nat \ S # {} PROVE FALSE
  OBVIOUS
<1>1. PICK m \in Nat \ S : \A y \in Nat \ S : ~ (<<y, m>> \in OpToRel(<, Nat))
  <2>1. Nat \ S \subseteq Nat
    OBVIOUS
  <2> QED
    BY <2>1, NatLessThanWellFounded, WFMin
<1>2. \A y \in Nat \ S : <<y, m>> \in OpToRel(<, Nat) <=> y < m
  BY DEF OpToRel
<1>3. \A y \in Nat \ S : ~ (y < m)
  BY <1>1, <1>2, Zenon
<1>4. m # 0 /\ m - 1 \in Nat /\ m - 1 \in S
  BY <1>3
<1> QED
  BY <1>4

\* The sets of n elements of S.
Sized(S, n) == {s \in SUBSET S : Cardinality(s) = n}

\* Taking an element out of a set of n + 1 leaves a set of n.
LEMMA SizedFacts ==
    ASSUME NEW S, IsFiniteSet(S)
    PROVE  /\ \A s \in SUBSET S : IsFiniteSet(s) /\ Cardinality(s) \in Nat /\ s \in Sized(S, Cardinality(s))
           /\ \A s \in Sized(S, 0) : s = {}
           /\ \A n \in Nat : \A s \in Sized(S, n + 1) : s # {} /\ s \in SUBSET S /\ \A x \in s : s \ {x} \in Sized(S, n)
<1>1. \A s \in SUBSET S : IsFiniteSet(s) /\ Cardinality(s) \in Nat /\ s \in Sized(S, Cardinality(s))
  BY FS_Subset, FS_CardinalityType DEF Sized
<1>2. \A s \in Sized(S, 0) : s = {}
  BY <1>1, FS_EmptySet DEF Sized
<1>3. ASSUME NEW n \in Nat, NEW s \in Sized(S, n + 1)
      PROVE  s # {} /\ s \in SUBSET S /\ \A x \in s : s \ {x} \in Sized(S, n)
  <2>1. s \in SUBSET S /\ Cardinality(s) = n + 1 /\ IsFiniteSet(s)
    BY <1>1 DEF Sized
  <2>2. s # {}
    <3>1. Cardinality({}) = 0
      BY FS_EmptySet
    <3>2. n + 1 # 0
      OBVIOUS
    <3> QED
      BY <2>1, <3>1, <3>2
  <2>3. ASSUME NEW x \in s PROVE s \ {x} \in Sized(S, n)
    <3>1. Cardinality(s \ {x}) = Cardinality(s) - 1
      BY <2>1, FS_RemoveElement
    <3>2. Cardinality(s \ {x}) = n
      BY <2>1, <3>1
    <3> QED
      BY <2>1, <3>2 DEF Sized
  <2> QED
    BY <2>1, <2>2, <2>3
<1> QED
  BY <1>1, <1>2, <1>3

\* What holds of the empty set and survives one element more holds of a finite set.
LEMMA Growing ==
    ASSUME NEW S, IsFiniteSet(S), NEW P, {} \in P,
           \A T \in SUBSET S : T \in P => \A x \in S \ T : T \union {x} \in P
    PROVE  S \in P
<1> DEFINE Q == {n \in Nat : Sized(S, n) \subseteq P}
<1>1. 0 \in Q
  BY SizedFacts
<1>2. ASSUME NEW n \in Nat, n \in Q PROVE n + 1 \in Q
  <2> SUFFICES ASSUME NEW s \in Sized(S, n + 1) PROVE s \in P
    OBVIOUS
  <2>1. s # {} /\ s \in SUBSET S /\ \A x \in s : s \ {x} \in Sized(S, n)
    BY SizedFacts
  <2>2. PICK x \in s : s \ {x} \in P
    BY <1>2, <2>1
  <2>3. s = (s \ {x}) \union {x} /\ x \in S \ (s \ {x})
    BY <2>1
  <2>4. s \ {x} \in SUBSET S
    BY <2>1
  <2> QED
    BY <2>2, <2>3, <2>4
<1> HIDE DEF Q
<1>3. Nat \subseteq Q
  BY <1>1, <1>2, Climbing
<1>4. Cardinality(S) \in Nat /\ S \in Sized(S, Cardinality(S))
  BY SizedFacts
<1> QED
  BY <1>3, <1>4 DEF Q

Any(s) == CHOOSE x \in s : TRUE

\* g sums f up over every subset of S.
Adds(g, f, S) == g = [s \in SUBSET S |-> IF s = {} THEN 0 ELSE f[Any(s)] + g[s \ {Any(s)}]]

\* Such a g exists: by as many steps as there are elements.
LEMMA AddsExists ==
    ASSUME NEW S, IsFiniteSet(S), NEW f, \A x \in S : f[x] \in Int
    PROVE  \E g : Adds(g, f, S)
<1> DEFINE Next1(g) == [s \in SUBSET S |-> IF s = {} THEN 0 ELSE f[Any(s)] + g[s \ {Any(s)}]]
           Fine(g, n) == g = [s \in SUBSET S |-> g[s]] /\ \A s \in SUBSET S : Cardinality(s) <= n => g[s] = Next1(g)[s]
           Q == {n \in Nat : \E g : Fine(g, n)}
<1>0. \A s \in SUBSET S : s # {} => Any(s) \in s
  BY DEF Any
<1>1. 0 \in Q
  <2>1. PICK g : g = [s \in SUBSET S |-> 0]
    OBVIOUS
  <2>2. ASSUME NEW s \in SUBSET S, Cardinality(s) <= 0 PROVE g[s] = Next1(g)[s]
    <3>1. Cardinality(s) \in Nat /\ s \in Sized(S, Cardinality(s)) /\ \A r \in Sized(S, 0) : r = {}
      BY SizedFacts
    <3>2. s = {}
      <4>1. Cardinality(s) = 0
        BY <2>2, <3>1
      <4> QED
        BY <3>1, <4>1
    <3> QED
      BY <2>1, <3>2
  <2>3. Fine(g, 0)
    BY <2>1, <2>2
  <2> QED
    BY <2>3
<1>2. ASSUME NEW n \in Nat, n \in Q PROVE n + 1 \in Q
  <2>1. PICK g : Fine(g, n)
    BY <1>2
  <2>2. PICK h : h = Next1(g)
    OBVIOUS
  <2>3. \A s \in SUBSET S : h[s] = Next1(g)[s]
    BY <2>2
  <2>4. ASSUME NEW s \in SUBSET S, Cardinality(s) <= n + 1 PROVE h[s] = Next1(h)[s]
    <3>1. CASE s = {}
      BY <2>2, <3>1
    <3>2. CASE s # {}
      <4>1. PICK x : x = Any(s)
        OBVIOUS
      <4>2. x \in s /\ s \ {x} \in SUBSET S
        BY <1>0, <3>2, <4>1
      <4>3. Cardinality(s \ {x}) <= n
        <5>1. IsFiniteSet(s) /\ Cardinality(s) \in Nat
          BY SizedFacts
        <5>2. Cardinality(s \ {x}) = Cardinality(s) - 1
          BY <4>2, <5>1, FS_RemoveElement
        <5> QED
          BY <2>4, <5>1, <5>2
      <4>4. g[s \ {x}] = Next1(g)[s \ {x}]
        BY <2>1, <4>2, <4>3
      <4>5. g[s \ {x}] = h[s \ {x}]
        BY <2>3, <4>2, <4>4
      <4>6. h[s] = f[x] + g[s \ {x}]
        BY <2>2, <3>2, <4>1
      <4>7. Next1(h)[s] = f[x] + h[s \ {x}]
        BY <3>2, <4>1
      <4> QED
        BY <4>5, <4>6, <4>7
    <3> QED
      BY <3>1, <3>2
  <2>5. h = [s \in SUBSET S |-> h[s]]
    BY <2>2
  <2>6. Fine(h, n + 1)
    BY <2>4, <2>5
  <2> HIDE DEF Fine
  <2> QED
    BY <2>6
<1> HIDE DEF Q
<1>3. Nat \subseteq Q
  BY <1>1, <1>2, Climbing
<1>4. Cardinality(S) \in Nat /\ \A s \in SUBSET S : Cardinality(s) <= Cardinality(S)
  BY FS_Subset, FS_CardinalityType
<1>5. PICK g : Fine(g, Cardinality(S))
  BY <1>3, <1>4 DEF Q
<1>6. \A s \in SUBSET S : g[s] = Next1(g)[s]
  BY <1>4, <1>5
<1>7. g = [s \in SUBSET S |-> g[s]]
  BY <1>5
<1>8. Next1(g) = [s \in SUBSET S |-> Next1(g)[s]]
  OBVIOUS
<1>9. g = Next1(g)
  <2> HIDE DEF Next1
  <2> QED
    BY <1>6, <1>7, <1>8
<1> QED
  BY <1>9 DEF Adds

\* The sum of nothing, and of one element more.
StartsAdding(g, f, S) ==
    \A s \in SUBSET S : /\ s = {} => g[s] = 0
                        /\ s # {} => Any(s) \in s /\ g[s] = f[Any(s)] + g[s \ {Any(s)}]

\* What the recursion says of one set.
LEMMA AddsFacts ==
    ASSUME NEW S, NEW f, NEW g, Adds(g, f, S)
    PROVE  StartsAdding(g, f, S)
<1>1. \A s \in SUBSET S : g[s] = IF s = {} THEN 0 ELSE f[Any(s)] + g[s \ {Any(s)}]
  BY DEF Adds
<1>2. \A s \in SUBSET S : s # {} => Any(s) \in s
  BY DEF Any
<1> QED
  BY <1>1, <1>2 DEF StartsAdding

\* Sums of the same values are the same.
LEMMA AddsSame ==
    ASSUME NEW S, IsFiniteSet(S), NEW T, S \subseteq T, NEW f, NEW g, Adds(g, f, S), NEW e, NEW h, Adds(h, e, T),
           \A x \in S : f[x] = e[x]
    PROVE  g[S] = h[S]
<1> DEFINE Q == {n \in Nat : \A s \in Sized(S, n) : g[s] = h[s]}
<1>0. \A s \in SUBSET S : s \in SUBSET T
  OBVIOUS
<1>5. StartsAdding(g, f, S)
  BY AddsFacts
<1>6. StartsAdding(h, e, T)
  BY AddsFacts
<1>1. 0 \in Q
  <2>1. ASSUME NEW s \in Sized(S, 0) PROVE g[s] = h[s]
    <3>1. s = {} /\ s \in SUBSET S /\ s \in SUBSET T
      BY SizedFacts
    <3>2. g[s] = 0
      BY <1>5, <3>1 DEF StartsAdding
    <3>3. h[s] = 0
      BY <1>6, <3>1 DEF StartsAdding
    <3> QED
      BY <3>2, <3>3
  <2> QED
    BY <2>1
<1>2. ASSUME NEW n \in Nat, n \in Q PROVE n + 1 \in Q
  <2> SUFFICES ASSUME NEW s \in Sized(S, n + 1) PROVE g[s] = h[s]
    OBVIOUS
  <2>1. s # {} /\ s \in SUBSET S /\ s \in SUBSET T /\ \A x \in s : s \ {x} \in Sized(S, n)
    BY <1>0, SizedFacts
  <2>2. PICK y : y = Any(s)
    OBVIOUS
  <2>3. y \in s /\ g[s] = f[y] + g[s \ {y}]
    BY <1>5, <2>1, <2>2 DEF StartsAdding
  <2>4. h[s] = e[y] + h[s \ {y}]
    BY <1>6, <2>1, <2>2 DEF StartsAdding
  <2>5. g[s \ {y}] = h[s \ {y}] /\ f[y] = e[y]
    BY <1>2, <2>1, <2>3
  <2> QED
    BY <2>3, <2>4, <2>5
<1> HIDE DEF Q
<1>3. Nat \subseteq Q
  BY <1>1, <1>2, Climbing
<1>4. Cardinality(S) \in Nat /\ S \in Sized(S, Cardinality(S))
  BY SizedFacts
<1> QED
  BY <1>3, <1>4 DEF Q

\* Sums of numbers are numbers.
LEMMA AddsNumbers ==
    ASSUME NEW S, IsFiniteSet(S), NEW f, \A x \in S : f[x] \in Int, NEW g, Adds(g, f, S)
    PROVE  \A s \in SUBSET S : g[s] \in Int
<1> DEFINE Q == {n \in Nat : \A s \in Sized(S, n) : g[s] \in Int}
<1>0. StartsAdding(g, f, S)
  BY AddsFacts
<1>1. 0 \in Q
  <2>1. ASSUME NEW s \in Sized(S, 0) PROVE g[s] \in Int
    <3>1. s = {} /\ s \in SUBSET S
      BY SizedFacts
    <3>2. g[s] = 0
      BY <1>0, <3>1 DEF StartsAdding
    <3> QED
      BY <3>2
  <2> QED
    BY <2>1
<1>2. ASSUME NEW n \in Nat, n \in Q PROVE n + 1 \in Q
  <2> SUFFICES ASSUME NEW s \in Sized(S, n + 1) PROVE g[s] \in Int
    OBVIOUS
  <2>1. s # {} /\ s \in SUBSET S /\ \A x \in s : s \ {x} \in Sized(S, n)
    BY SizedFacts
  <2>2. PICK y : y = Any(s)
    OBVIOUS
  <2>3. y \in s /\ g[s] = f[y] + g[s \ {y}]
    BY <1>0, <2>1, <2>2 DEF StartsAdding
  <2>4. g[s \ {y}] \in Int /\ f[y] \in Int
    BY <1>2, <2>1, <2>3
  <2> QED
    BY <2>3, <2>4
<1> HIDE DEF Q
<1>3. Nat \subseteq Q
  BY <1>1, <1>2, Climbing
<1>4. \A s \in SUBSET S : Cardinality(s) \in Nat /\ s \in Sized(S, Cardinality(s))
  BY SizedFacts
<1> QED
  BY <1>3, <1>4 DEF Q

\* Any element may be taken out first.
TakesAny(g, f, S) ==
    \A s \in SUBSET S : \A x \in s : g[s] = f[x] + g[s \ {x}]

\* In a sum that is built up by Any, any element may stand first.
LEMMA AddsAny ==
    ASSUME NEW S, IsFiniteSet(S), NEW f, \A x \in S : f[x] \in Int, NEW g, Adds(g, f, S)
    PROVE  TakesAny(g, f, S)
<1> DEFINE Q == {n \in Nat : \A s \in Sized(S, n) : \A x \in s : g[s] = f[x] + g[s \ {x}]}
<1>0. StartsAdding(g, f, S)
  BY AddsFacts
<1>1. 0 \in Q
  <2>1. \A s \in Sized(S, 0) : s = {}
    BY SizedFacts
  <2> QED
    BY <2>1
<1>2. ASSUME NEW n \in Nat, n \in Q PROVE n + 1 \in Q
  <2> SUFFICES ASSUME NEW s \in Sized(S, n + 1), NEW x \in s PROVE g[s] = f[x] + g[s \ {x}]
    OBVIOUS
  <2>1. s # {} /\ s \in SUBSET S /\ \A z \in s : s \ {z} \in Sized(S, n)
    BY SizedFacts
  <2>2. PICK y : y = Any(s)
    OBVIOUS
  <2>3. y \in s /\ g[s] = f[y] + g[s \ {y}]
    BY <1>0, <2>1, <2>2 DEF StartsAdding
  <2>4. CASE x = y
    BY <2>3, <2>4
  <2>5. CASE x # y
    <3>1. PICK r : r = (s \ {x}) \ {y}
      OBVIOUS
    <3>2. r = (s \ {y}) \ {x} /\ r \in SUBSET S /\ y \in s \ {x} /\ x \in s \ {y}
      BY <2>1, <2>3, <2>5, <3>1
    <3>3. g[s \ {y}] = f[x] + g[r]
      BY <1>2, <2>1, <2>3, <3>2
    <3>4. g[s \ {x}] = f[y] + g[r]
      BY <1>2, <2>1, <3>1, <3>2
    <3>5. g[r] \in Int
      BY <3>2, AddsNumbers
    <3>6. f[x] \in Int /\ f[y] \in Int
      BY <2>1, <2>3
    <3>7. PICK a \in Int, b \in Int, c \in Int : a = f[x] /\ b = f[y] /\ c = g[r]
      BY <3>5, <3>6
    <3> QED
      BY <2>3, <3>3, <3>4, <3>7
  <2> QED
    BY <2>4, <2>5
<1> HIDE DEF Q
<1>3. Nat \subseteq Q
  BY <1>1, <1>2, Climbing
<1>4. \A s \in SUBSET S : Cardinality(s) \in Nat /\ s \in Sized(S, Cardinality(s))
  BY SizedFacts
<1> QED
  BY <1>3, <1>4 DEF Q, TakesAny

\* The library's sum.
LEMMA SumIsAdds ==
    ASSUME NEW S, IsFiniteSet(S), NEW f, NEW g, Adds(g, f, S)
    PROVE  SumFunctionOnSet(f, S) = g[S]
<1> DEFINE h == CHOOSE h : h = [s \in SUBSET S |-> IF s = {} THEN 0 ELSE f[Any(s)] + h[s \ {Any(s)}]]
<1>1. SumFunctionOnSet(f, S) = h[S]
  BY DEF SumFunctionOnSet, FoldFunctionOnSet, MapThenFoldSet, Any
<1>2. Adds(h, f, S)
  BY DEF Adds
<1> HIDE DEF h
<1>3. g[S] = h[S]
  BY <1>2, AddsSame
<1> QED
  BY <1>1, <1>3

\* A sum is a number, and any term may be taken out of it.
LEMMA SumFacts ==
    ASSUME NEW S, IsFiniteSet(S), NEW f, \A x \in S : f[x] \in Int
    PROVE  /\ SumFunctionOnSet(f, S) \in Int
           /\ S = {} => SumFunctionOnSet(f, S) = 0
           /\ \A x \in S : SumFunctionOnSet(f, S \ {x}) \in Int
                           /\ SumFunctionOnSet(f, S) = f[x] + SumFunctionOnSet(f, S \ {x})
<1>1. PICK g : Adds(g, f, S)
  BY AddsExists
<1>2. SumFunctionOnSet(f, S) = g[S] /\ S \in SUBSET S
  BY <1>1, SumIsAdds
<1>3. \A s \in SUBSET S : g[s] \in Int
  BY <1>1, AddsNumbers
<1>4. StartsAdding(g, f, S)
  BY <1>1, AddsFacts
<1>5. ASSUME NEW x \in S
      PROVE  SumFunctionOnSet(f, S \ {x}) \in Int /\ SumFunctionOnSet(f, S) = f[x] + SumFunctionOnSet(f, S \ {x})
  <2>1. PICK T : T = S \ {x}
    OBVIOUS
  <2>2. T \subseteq S /\ IsFiniteSet(T) /\ \A y \in T : f[y] \in Int /\ f[y] = f[y]
    BY <2>1, FS_Subset
  <2>3. PICK h : Adds(h, f, T)
    BY <2>2, AddsExists
  <2>4. SumFunctionOnSet(f, T) = h[T]
    BY <2>2, <2>3, SumIsAdds
  <2>5. h[T] = g[T]
    BY <1>1, <2>2, <2>3, AddsSame
  <2>6. g[S] = f[x] + g[T]
    <3>1. TakesAny(g, f, S)
      BY <1>1, AddsAny
    <3> QED
      BY <1>2, <2>1, <3>1 DEF TakesAny
  <2> QED
    BY <1>2, <1>3, <2>1, <2>2, <2>4, <2>5, <2>6
<1> QED
  BY <1>2, <1>3, <1>4, <1>5 DEF StartsAdding

\* Equal terms have equal sums.
LEMMA SumSame ==
    ASSUME NEW S, IsFiniteSet(S), NEW f, \A x \in S : f[x] \in Int, NEW e, \A x \in S : f[x] = e[x]
    PROVE  SumFunctionOnSet(f, S) = SumFunctionOnSet(e, S)
<1>1. PICK g : Adds(g, f, S)
  BY AddsExists
<1>2. \A x \in S : e[x] \in Int
  OBVIOUS
<1>3. PICK h : Adds(h, e, S)
  BY <1>2, AddsExists
<1>4. g[S] = h[S] /\ SumFunctionOnSet(f, S) = g[S] /\ SumFunctionOnSet(e, S) = h[S]
  BY <1>1, <1>3, AddsSame, SumIsAdds
<1> QED
  BY <1>4

\* A square of a sum, and of a difference.
LEMMA SquareOfSum ==
    ASSUME NEW x \in Int, NEW y \in Int
    PROVE  /\ (x + y) * (x + y) = x * x + 2 * (x * y) + y * y
           /\ 2 * (x * y) <= x * x + y * y
<1>1. (x + y) * (x + y) = x * x + 2 * (x * y) + y * y
  OBVIOUS
<1>2. (x - y) * (x - y) = x * x - 2 * (x * y) + y * y
  OBVIOUS
<1>3. \A z \in Int : z * z >= 0
  OBVIOUS
<1>4. (x - y) * (x - y) >= 0
  BY <1>3
<1>5. x * x \in Int /\ x * y \in Int /\ y * y \in Int
  OBVIOUS
<1>6. PICK a \in Int, b \in Int, c \in Int : a = x * x /\ b = x * y /\ c = y * y
  BY <1>5
<1>7. a - 2 * b + c >= 0
  BY <1>2, <1>4, <1>6
<1>8. 2 * b <= a + c
  BY <1>7
<1> QED
  BY <1>1, <1>6, <1>8

\* If x is at most the root of n * q, one more term keeps it so (Cauchy).
LEMMA Growth ==
    ASSUME NEW x \in Nat, NEW y \in Nat, NEW n \in Nat, NEW q \in Nat, x * x <= n * q
    PROVE  (x + y) * (x + y) <= (n + 1) * (q + y * y)
<1>1. 2 * (x * y) <= q + n * (y * y)
  <2>1. CASE n = 0
    <3>1. n * q = 0 /\ n * (y * y) = 0
      BY <2>1
    <3>2. x * x <= 0
      BY <3>1
    <3>3. \A z \in Nat : z * z <= 0 => z = 0
      OBVIOUS
    <3>4. x = 0
      BY <3>2, <3>3
    <3>5. x * y = 0
      BY <3>4
    <3> QED
      BY <3>1, <3>5
  <2>2. CASE n > 0
    <3>1. 2 * (x * (n * y)) <= x * x + (n * y) * (n * y)
      BY SquareOfSum
    <3>2. x * (n * y) = n * (x * y) /\ (n * y) * (n * y) = n * (n * (y * y))
      OBVIOUS
    <3>3. x * y \in Nat /\ y * y \in Nat /\ n * (y * y) \in Nat /\ n * q \in Nat /\ x * x \in Nat
      OBVIOUS
    <3>4. PICK p \in Nat, r \in Nat : p = x * y /\ r = n * (y * y)
      BY <3>3
    <3>5. 2 * (n * p) <= n * q + n * r
      <4>1. PICK u \in Nat, v \in Nat : u = x * x /\ v = n * q
        BY <3>3
      <4>2. u <= v /\ 2 * (n * p) <= u + n * r
        BY <3>1, <3>2, <3>4, <4>1
      <4>3. n * p \in Nat /\ n * r \in Nat
        OBVIOUS
      <4> QED
        BY <4>1, <4>2, <4>3
    <3>6. 2 * (n * p) = n * (2 * p) /\ n * q + n * r = n * (q + r)
      OBVIOUS
    <3>7. ASSUME NEW s \in Nat, NEW t \in Nat, n * s <= n * t, s > t PROVE FALSE
      <4>1. PICK k \in Nat : s = t + k /\ k > 0
        <5>1. s - t \in Nat /\ s = t + (s - t) /\ s - t > 0
          BY <3>7
        <5> QED
          BY <5>1
      <4>2. n * (t + k) = n * t + n * k
        OBVIOUS
      <4>3. n * k > 0
        BY <2>2, <4>1
      <4>4. n * t \in Nat /\ n * k \in Nat
        OBVIOUS
      <4>5. PICK u \in Nat, v \in Nat : u = n * t /\ v = n * k
        BY <4>4
      <4>6. u + v <= u /\ v > 0
        BY <3>7, <4>1, <4>2, <4>3, <4>5
      <4> QED
        BY <4>6
    <3>8. 2 * p <= q + r
      <4>1. PICK s \in Nat, t \in Nat : s = 2 * p /\ t = q + r
        OBVIOUS
      <4>2. n * s <= n * t
        BY <3>5, <3>6, <4>1
      <4>3. ~ (s > t)
        BY <3>7, <4>2
      <4> QED
        BY <4>1, <4>3
    <3> QED
      BY <3>4, <3>8
  <2> QED
    BY <2>1, <2>2
<1>2. (x + y) * (x + y) = x * x + 2 * (x * y) + y * y
  BY SquareOfSum
<1>3. (n + 1) * (q + y * y) = n * q + n * (y * y) + q + y * y
  OBVIOUS
<1>4. x * y \in Nat /\ y * y \in Nat /\ n * (y * y) \in Nat /\ n * q \in Nat /\ x * x \in Nat
  OBVIOUS
<1>5. PICK a \in Nat, b \in Nat, c \in Nat, d \in Nat, e \in Nat :
        a = x * x /\ b = x * y /\ c = y * y /\ d = n * c /\ e = n * q
  BY <1>4
<1>6. a <= e /\ 2 * b <= q + d
  BY <1>1, <1>5
<1>7. a + 2 * b + c <= e + d + q + c
  BY <1>6
<1> QED
  BY <1>2, <1>3, <1>5, <1>7

\* Squares ascend.
LEMMA Squares ==
    ASSUME NEW x \in Nat, NEW y \in Nat, x <= y
    PROVE  x * x <= y * y
<1>1. x * x <= x * y /\ x * y <= y * y
  OBVIOUS
<1> QED
  BY <1>1

\* Sums of natural numbers are natural numbers.
LEMMA SumNatural ==
    ASSUME NEW S, IsFiniteSet(S), NEW f, \A x \in S : f[x] \in Nat
    PROVE  SumFunctionOnSet(f, S) \in Nat
<1> DEFINE P == {T \in SUBSET S : SumFunctionOnSet(f, T) \in Nat}
<1>1. {} \in P
  <2>1. PICK T : T = {}
    OBVIOUS
  <2>2. IsFiniteSet(T) /\ \A x \in T : f[x] \in Int
    BY <2>1, FS_EmptySet
  <2>3. SumFunctionOnSet(f, T) = 0
    BY <2>1, <2>2, SumFacts
  <2> QED
    BY <2>1, <2>3
<1>2. ASSUME NEW T \in SUBSET S, T \in P, NEW x \in S \ T PROVE T \union {x} \in P
  <2>1. PICK V : V = T \union {x}
    OBVIOUS
  <2>2. V \in SUBSET S /\ x \in V /\ V \ {x} = T /\ f[x] \in Nat
    BY <2>1
  <2>3. IsFiniteSet(V) /\ \A y \in V : f[y] \in Int
    BY <2>2, FS_Subset
  <2>4. SumFunctionOnSet(f, V) = f[x] + SumFunctionOnSet(f, V \ {x})
    BY <2>2, <2>3, SumFacts
  <2>5. SumFunctionOnSet(f, V) = f[x] + SumFunctionOnSet(f, T)
    BY <2>2, <2>4
  <2>6. SumFunctionOnSet(f, V) \in Nat
    BY <1>2, <2>2, <2>5
  <2> QED
    BY <2>1, <2>2, <2>6
<1> HIDE DEF P
<1>3. S \in P
  BY <1>1, <1>2, Growing
<1> QED
  BY <1>3 DEF P

-----------------------------------------------------------------------------
(***************************************************************************)
(* The scores over a part T of the records.                                *)
(***************************************************************************)
BinIds == 0..(NumBins - 1)
Conf == [i \in DOMAIN records |-> records[i].conf]
Miss(i) == records[i].conf - (IF records[i].correct THEN 10 ELSE 0)
MissSquares == [i \in DOMAIN records |-> Miss(i) * Miss(i)]
InBin(T, b) == {i \in T : BinOf(records[i].conf) = b}
Hits(T) == {i \in T : records[i].correct}
Distance(a, b) == IF a >= b THEN a - b ELSE b - a
Gap(T, b) == Distance(SumFunctionOnSet(Conf, InBin(T, b)), 10 * Cardinality(Hits(InBin(T, b))))
Gaps(T) == [b \in BinIds |-> Gap(T, b)]
Off(T) == SumFunctionOnSet(Gaps(T), BinIds)
SquareSum(T) == SumFunctionOnSet(MissSquares, T)

\* The records are finitely many and well formed, and each has a bin.
Kept ==
    /\ IsFiniteSet(DOMAIN records) /\ \A i \in DOMAIN records : records[i] \in Feedback
    /\ ~NoBin

\* There are ten bins.
LEMMA BinIdsFinite == IsFiniteSet(BinIds)
<1>1. BinIds = 0..9
  BY DEF BinIds, NumBins
<1>2. PICK a \in Int, b \in Int : a = 0 /\ b = 9
  OBVIOUS
<1>3. IsFiniteSet(a..b)
  BY FS_Interval
<1> QED
  BY <1>1, <1>2, <1>3

\* A record has a number for its confidence, falls into a bin and has a miss.
LEMMA OneRecord ==
    ASSUME Kept, NEW x \in DOMAIN records
    PROVE  /\ Conf[x] \in Int /\ Conf[x] = records[x].conf /\ records[x].correct \in BOOLEAN
           /\ BinOf(records[x].conf) \in BinIds
           /\ Miss(x) \in Int /\ MissSquares[x] = Miss(x) * Miss(x) /\ MissSquares[x] \in Nat
<1>1. records[x] \in Feedback
  BY DEF Kept
<1>2. records[x].conf \in Int /\ records[x].correct \in BOOLEAN
  BY <1>1, CalibrationAssumption DEF Feedback
<1>3. BinOf(records[x].conf) \in BinIds
  <2>1. ~(BinOf(records[x].conf) < 0)
    BY DEF Kept, NoBin
  <2> QED
    BY <1>2, <2>1 DEF BinOf, BinIds, NumBins
<1>4. Miss(x) \in Int
  BY <1>2 DEF Miss
<1>5. \A z \in Int : z * z \in Nat
  OBVIOUS
<1>6. Conf[x] = records[x].conf /\ MissSquares[x] = Miss(x) * Miss(x)
  BY DEF Conf, MissSquares
<1> QED
  BY <1>2, <1>3, <1>4, <1>5, <1>6

\* The contents of a bin are finite, and its gap is a number.
LEMMA BinFacts ==
    ASSUME Kept, NEW T, T \subseteq DOMAIN records, NEW b
    PROVE  /\ IsFiniteSet(InBin(T, b)) /\ IsFiniteSet(Hits(InBin(T, b)))
           /\ SumFunctionOnSet(Conf, InBin(T, b)) \in Int
           /\ Cardinality(Hits(InBin(T, b))) \in Nat
           /\ Gap(T, b) \in Nat
<1>1. PICK V : V = InBin(T, b)
  OBVIOUS
<1>2. V \subseteq DOMAIN records /\ Hits(V) \subseteq V
  BY <1>1 DEF InBin, Hits
<1>3. IsFiniteSet(V)
  BY <1>2, FS_Subset DEF Kept
<1>4. IsFiniteSet(Hits(V)) /\ Cardinality(Hits(V)) \in Nat
  BY <1>2, <1>3, FS_Subset, FS_CardinalityType
<1>5. \A i \in V : Conf[i] \in Int
  BY <1>2, OneRecord
<1>6. SumFunctionOnSet(Conf, V) \in Int
  BY <1>3, <1>5, SumFacts
<1>7. Distance(SumFunctionOnSet(Conf, V), 10 * Cardinality(Hits(V))) \in Nat
  BY <1>4, <1>6 DEF Distance
<1> QED
  BY <1>1, <1>3, <1>4, <1>6, <1>7 DEF Gap

\* The size of a miss.
Size(x) == Distance(records[x].conf, IF records[x].correct THEN 10 ELSE 0)

\* The square of a miss is that of its size.
LEMMA MissSize ==
    ASSUME Kept, NEW x \in DOMAIN records
    PROVE  Size(x) \in Nat /\ MissSquares[x] = Size(x) * Size(x)
<1>1. records[x].conf \in Int /\ records[x].correct \in BOOLEAN /\ MissSquares[x] = Miss(x) * Miss(x)
  BY OneRecord
<1>2. PICK v \in Int, w \in Int : v = records[x].conf /\ w = IF records[x].correct THEN 10 ELSE 0
  BY <1>1
<1>3. Size(x) = Distance(v, w) /\ Miss(x) = v - w
  BY <1>2 DEF Size, Miss
<1>4. Distance(v, w) \in Nat /\ (v - w) * (v - w) = Distance(v, w) * Distance(v, w)
  BY DEF Distance
<1> QED
  BY <1>1, <1>3, <1>4

\* One record more moves the gap of its bin by its own miss, and no other.
Moves(T, V, x) ==
    /\ \A b : b # BinOf(records[x].conf) => Gap(V, b) = Gap(T, b)
    /\ Gap(V, BinOf(records[x].conf)) <= Gap(T, BinOf(records[x].conf)) + Size(x)

\* Its bin gains its confidence and, when it was right, a hit.
LEMMA GapMoves ==
    ASSUME Kept, NEW T, T \subseteq DOMAIN records, NEW x \in DOMAIN records, x \notin T,
           NEW V, V = T \union {x}
    PROVE  Moves(T, V, x)
<1>1. ASSUME NEW b, b # BinOf(records[x].conf) PROVE Gap(V, b) = Gap(T, b)
  <2>1. InBin(V, b) = InBin(T, b)
    BY <1>1 DEF InBin
  <2> QED
    BY <2>1 DEF Gap
<1>2. PICK c : c = BinOf(records[x].conf)
  OBVIOUS
<1>3. PICK A, B : A = InBin(T, c) /\ B = InBin(V, c)
  OBVIOUS
<1>4. x \in B /\ B \ {x} = A /\ x \notin A /\ V \subseteq DOMAIN records
  BY <1>2, <1>3 DEF InBin
<1>5. /\ IsFiniteSet(A) /\ IsFiniteSet(B) /\ IsFiniteSet(Hits(A))
      /\ SumFunctionOnSet(Conf, A) \in Int /\ SumFunctionOnSet(Conf, B) \in Int
      /\ Cardinality(Hits(A)) \in Nat /\ Cardinality(Hits(B)) \in Nat
  BY <1>3, <1>4, BinFacts
<1>6. SumFunctionOnSet(Conf, B) = records[x].conf + SumFunctionOnSet(Conf, A)
  <2>1. \A i \in B : Conf[i] \in Int
    BY <1>3, <1>4, OneRecord DEF InBin
  <2>2. SumFunctionOnSet(Conf, B) = Conf[x] + SumFunctionOnSet(Conf, B \ {x})
    BY <1>4, <1>5, <2>1, SumFacts
  <2>3. Conf[x] = records[x].conf
    BY OneRecord
  <2> QED
    BY <1>4, <2>2, <2>3
<1>7. Cardinality(Hits(B)) = Cardinality(Hits(A)) + (IF records[x].correct THEN 1 ELSE 0)
  <2>1. CASE records[x].correct
    <3>1. Hits(B) = Hits(A) \union {x} /\ x \notin Hits(A)
      BY <1>4, <2>1 DEF Hits
    <3>2. Cardinality(Hits(A) \union {x}) = Cardinality(Hits(A)) + 1
      BY <1>5, <3>1, FS_AddElement
    <3> QED
      BY <2>1, <3>1, <3>2
  <2>2. CASE ~ records[x].correct
    <3>1. Hits(B) = Hits(A)
      BY <1>4, <2>2 DEF Hits
    <3> QED
      BY <1>5, <2>2, <3>1
  <2> QED
    BY <2>1, <2>2
<1>8. records[x].conf \in Int /\ records[x].correct \in BOOLEAN
  BY OneRecord
<1>9. PICK r \in Int, h \in Int, m \in Int, n \in Int :
        r = records[x].conf /\ h = (IF records[x].correct THEN 1 ELSE 0)
        /\ m = SumFunctionOnSet(Conf, A) /\ n = Cardinality(Hits(A))
  BY <1>5, <1>8
<1>10. Gap(T, c) = Distance(m, 10 * n) /\ Gap(V, c) = Distance(r + m, 10 * (n + h)) /\ Size(x) = Distance(r, 10 * h)
  <2>1. (IF records[x].correct THEN 10 ELSE 0) = 10 * h
    BY <1>8, <1>9
  <2>2. SumFunctionOnSet(Conf, B) = r + m /\ Cardinality(Hits(B)) = n + h
    BY <1>6, <1>7, <1>9
  <2> QED
    BY <1>3, <1>9, <2>1, <2>2 DEF Gap, Size
<1>11. Distance(r + m, 10 * (n + h)) <= Distance(m, 10 * n) + Distance(r, 10 * h)
  BY DEF Distance
<1> QED
  BY <1>1, <1>2, <1>10, <1>11 DEF Moves

\* So it moves their sum by no more than its own miss.
LEMMA OffMoves ==
    ASSUME Kept, NEW T, T \subseteq DOMAIN records, NEW x \in DOMAIN records, x \notin T,
           NEW V, V = T \union {x}
    PROVE  Off(T) \in Nat /\ Off(V) \in Nat /\ Off(V) <= Off(T) + Size(x)
<1>1. PICK c : c = BinOf(records[x].conf)
  OBVIOUS
<1>2. c \in BinIds /\ IsFiniteSet(BinIds)
  BY <1>1, OneRecord, BinIdsFinite
<1>3. PICK f, e, R : f = Gaps(T) /\ e = Gaps(V) /\ R = BinIds \ {c}
  OBVIOUS
<1>4. \A b \in BinIds : f[b] = Gap(T, b) /\ e[b] = Gap(V, b)
  BY <1>3 DEF Gaps
<1>5. \A b \in BinIds : f[b] \in Nat /\ e[b] \in Nat
  <2>1. V \subseteq DOMAIN records
    OBVIOUS
  <2> QED
    BY <1>4, <2>1, BinFacts
<1>moves. Moves(T, V, x)
  BY GapMoves
<1>6. \A b \in R : f[b] = e[b]
  BY <1>1, <1>3, <1>4, <1>moves DEF Moves
<1>7. e[c] <= f[c] + Size(x)
  BY <1>1, <1>2, <1>4, <1>moves DEF Moves
<1>8. IsFiniteSet(R) /\ R \subseteq BinIds
  BY <1>2, <1>3, FS_Subset
<1>9. \A b \in BinIds : f[b] \in Int /\ e[b] \in Int
  BY <1>5
<1>10. SumFunctionOnSet(f, R) = SumFunctionOnSet(e, R)
  <2>1. \A b \in R : f[b] \in Int
    BY <1>8, <1>9
  <2> QED
    BY <1>6, <1>8, <2>1, SumSame
<1>11. SumFunctionOnSet(f, BinIds) = f[c] + SumFunctionOnSet(f, R)
  BY <1>2, <1>3, <1>9, SumFacts
<1>12. SumFunctionOnSet(e, BinIds) = e[c] + SumFunctionOnSet(e, R)
  BY <1>2, <1>3, <1>9, SumFacts
<1>13. SumFunctionOnSet(f, BinIds) \in Nat /\ SumFunctionOnSet(e, BinIds) \in Nat
  BY <1>2, <1>5, SumNatural
<1>14. SumFunctionOnSet(f, R) \in Nat
  BY <1>5, <1>8, SumNatural
<1>15. f[c] \in Nat /\ e[c] \in Nat /\ Size(x) \in Nat
  BY <1>2, <1>5, MissSize
<1>16. SumFunctionOnSet(e, BinIds) <= SumFunctionOnSet(f, BinIds) + Size(x)
  BY <1>7, <1>10, <1>11, <1>12, <1>14, <1>15
<1> QED
  BY <1>3, <1>13, <1>16 DEF Off

\* The root mean square is no less than the mean, one record at a time.
LEMMA ScoresOrdered ==
    ASSUME Kept
    PROVE  LET D == DOMAIN records IN Off(D) * Off(D) <= Cardinality(D) * SquareSum(D)
<1> DEFINE D == DOMAIN records
           P == {T \in SUBSET D : Off(T) \in Nat /\ Off(T) * Off(T) <= Cardinality(T) * SquareSum(T)}
<1>0. IsFiniteSet(D)
  BY DEF Kept
<1>1. {} \in P
  <2>0. PICK E : E = {}
    OBVIOUS
  <2>1. E = {} /\ E \in SUBSET D
    BY <2>0
  <2>2. \A b \in BinIds : Gaps(E)[b] = 0
    <3>1. ASSUME NEW b \in BinIds PROVE Gap(E, b) = 0
      <4>1. InBin(E, b) = {} /\ Hits({}) = {}
        BY <2>1 DEF InBin, Hits
      <4>2. Cardinality({}) = 0
        BY FS_EmptySet
      <4>3. SumFunctionOnSet(Conf, E) = 0
        <5>1. IsFiniteSet(E) /\ \A i \in E : Conf[i] \in Int
          BY <2>1, FS_EmptySet
        <5> QED
          BY <2>1, <5>1, SumFacts
      <4> QED
        BY <2>1, <4>1, <4>2, <4>3 DEF Gap, Distance
    <3> QED
      BY <3>1 DEF Gaps
  <2>3. Off(E) = 0
    <3>1. IsFiniteSet(BinIds)
      BY BinIdsFinite
    <3>2. PICK g : g = Gaps(E)
      OBVIOUS
    <3>3. PICK S : S = {T \in SUBSET BinIds : SumFunctionOnSet(g, T) = 0}
      OBVIOUS
    <3>4. {} \in S
      <4>0. PICK T : T = {}
        OBVIOUS
      <4>1. T = {} /\ T \in SUBSET BinIds
        BY <4>0
      <4>2. IsFiniteSet(T) /\ \A b \in T : g[b] \in Int
        BY <4>1, FS_EmptySet
      <4>3. SumFunctionOnSet(g, T) = 0
        BY <4>1, <4>2, SumFacts
      <4> QED
        BY <3>3, <4>1, <4>3
    <3>5. ASSUME NEW T \in SUBSET BinIds, T \in S, NEW b \in BinIds \ T PROVE T \union {b} \in S
      <4>1. PICK U : U = T \union {b}
        OBVIOUS
      <4>2. U \in SUBSET BinIds /\ b \in U /\ U \ {b} = T /\ \A d \in U : g[d] = 0 /\ g[d] \in Int
        BY <2>2, <3>2, <4>1
      <4>3. IsFiniteSet(U)
        BY <3>1, <4>2, FS_Subset
      <4>4. SumFunctionOnSet(g, U) = g[b] + SumFunctionOnSet(g, U \ {b})
        BY <4>2, <4>3, SumFacts
      <4>5. SumFunctionOnSet(g, T) = 0
        BY <3>3, <3>5
      <4>6. SumFunctionOnSet(g, U) = 0
        <5>1. SumFunctionOnSet(g, U) = g[b] + SumFunctionOnSet(g, T)
          BY <4>2, <4>4
        <5>2. g[b] = 0
          BY <4>2
        <5> QED
          BY <4>5, <5>1, <5>2
      <4> QED
        BY <3>3, <4>1, <4>2, <4>6
    <3>6. BinIds \in S
      BY <3>1, <3>4, <3>5, Growing
    <3> QED
      BY <3>2, <3>3, <3>6 DEF Off
  <2>4. Cardinality(E) = 0 /\ SquareSum(E) \in Nat
    <3>1. IsFiniteSet(E) /\ \A i \in E : MissSquares[i] \in Nat
      BY <2>1, FS_EmptySet
    <3>2. SumFunctionOnSet(MissSquares, E) \in Nat
      BY <3>1, SumNatural
    <3> QED
      BY <2>1, <3>2, FS_EmptySet DEF SquareSum
  <2>5. Off(E) * Off(E) <= Cardinality(E) * SquareSum(E)
    <3>1. PICK q \in Nat : q = SquareSum(E)
      BY <2>4
    <3> QED
      BY <2>3, <2>4, <3>1
  <2>6. E \in P
    BY <2>1, <2>3, <2>5
  <2> QED
    BY <2>1, <2>6
<1>2. ASSUME NEW T \in SUBSET D, T \in P, NEW x \in D \ T PROVE T \union {x} \in P
  <2>1. PICK V : V = T \union {x}
    OBVIOUS
  <2>2. V \in SUBSET D /\ x \in V /\ V \ {x} = T /\ x \notin T /\ T \subseteq DOMAIN records
    BY <2>1
  <2>3. Off(T) \in Nat /\ Off(V) \in Nat /\ Off(V) <= Off(T) + Size(x)
    BY <2>1, <2>2, OffMoves
  <2>4. Size(x) \in Nat /\ MissSquares[x] = Size(x) * Size(x)
    BY <2>2, MissSize
  <2>5. IsFiniteSet(T) /\ IsFiniteSet(V)
    BY <1>0, <2>2, FS_Subset
  <2>6. Cardinality(V) = Cardinality(T) + 1 /\ Cardinality(T) \in Nat
    BY <2>1, <2>2, <2>5, FS_AddElement, FS_CardinalityType
  <2>7. \A i \in V : MissSquares[i] \in Nat /\ MissSquares[i] \in Int
    BY <2>2, OneRecord
  <2>8. SquareSum(V) = MissSquares[x] + SquareSum(T) /\ SquareSum(T) \in Nat
    <3>1. SumFunctionOnSet(MissSquares, V) = MissSquares[x] + SumFunctionOnSet(MissSquares, V \ {x})
      BY <2>2, <2>5, <2>7, SumFacts
    <3>2. \A i \in T : MissSquares[i] \in Nat
      BY <2>2, <2>7
    <3>3. SumFunctionOnSet(MissSquares, T) \in Nat
      BY <2>5, <3>2, SumNatural
    <3> QED
      BY <2>2, <3>1, <3>3 DEF SquareSum
  <2>9. PICK a \in Nat, b \in Nat, y \in Nat, n \in Nat, q \in Nat :
          a = Off(T) /\ b = Off(V) /\ y = Size(x) /\ n = Cardinality(T) /\ q = SquareSum(T)
    BY <2>3, <2>4, <2>6, <2>8
  <2>10. a * a <= n * q
    BY <1>2, <2>9
  <2>11. (a + y) * (a + y) <= (n + 1) * (q + y * y)
    BY <2>10, Growth
  <2>12. b * b <= (a + y) * (a + y)
    <3>1. b <= a + y /\ a + y \in Nat
      BY <2>3, <2>9
    <3> QED
      BY <3>1, Squares
  <2>13. Off(V) * Off(V) <= Cardinality(V) * SquareSum(V)
    <3>1. Cardinality(V) = n + 1 /\ SquareSum(V) = q + y * y
      <4>1. y * y \in Nat
        OBVIOUS
      <4>2. PICK z \in Nat : z = y * y
        BY <4>1
      <4> QED
        BY <2>4, <2>6, <2>8, <2>9, <4>2
    <3>2. (a + y) * (a + y) \in Nat /\ (n + 1) * (q + y * y) \in Nat /\ b * b \in Nat
      OBVIOUS
    <3>3. PICK u \in Nat, v \in Nat, w \in Nat :
            u = (a + y) * (a + y) /\ v = (n + 1) * (q + y * y) /\ w = b * b
      BY <3>2
    <3>4. w <= v
      BY <2>11, <2>12, <3>3
    <3> QED
      BY <2>9, <3>1, <3>3, <3>4
  <2> QED
    BY <2>1, <2>2, <2>3, <2>13
<1> HIDE DEF P
<1>3. D \in P
  BY <1>0, <1>1, <1>2, Growing
<1> QED
  BY <1>3 DEF P

\* The two scores are those of the whole store.
LEMMA ScoresTheory ==
    ASSUME Kept
    PROVE  ScoresAgree
<1>0. DOMAIN Bins = BinIds /\ \A b \in BinIds : Bins[b] = InBin(DOMAIN records, b)
  BY DEF Bins, BinIds, InBin
<1>1. UNION {Bins[b] : b \in DOMAIN Bins} = DOMAIN records
  <2>1. \A i \in DOMAIN records : BinOf(records[i].conf) \in BinIds
    BY OneRecord
  <2>2. \A i \in DOMAIN records : i \in Bins[BinOf(records[i].conf)]
    BY <1>0, <2>1 DEF InBin
  <2>3. \A b \in BinIds : Bins[b] \subseteq DOMAIN records
    BY <1>0 DEF InBin
  <2> QED
    BY <1>0, <2>1, <2>2, <2>3
<1>2. ASSUME NEW b \in BinIds
      PROVE  (LET conf == SumFunction([i \in Bins[b] |-> records[i].conf])
                  hits == Cardinality({i \in Bins[b] : records[i].correct})
              IN IF conf >= 10 * hits THEN conf - 10 * hits ELSE 10 * hits - conf)
             = Gaps(DOMAIN records)[b]
  <2>1. PICK B, f : B = Bins[b] /\ f = [i \in B |-> records[i].conf]
    OBVIOUS
  <2>2. B = InBin(DOMAIN records, b) /\ B \subseteq DOMAIN records
    BY <1>0, <2>1 DEF InBin
  <2>3. IsFiniteSet(B)
    BY <2>2, BinFacts
  <2>4. \A i \in B : f[i] \in Int /\ f[i] = Conf[i]
    BY <2>1, <2>2, OneRecord
  <2>5. SumFunctionOnSet(f, B) = SumFunctionOnSet(Conf, B)
    BY <2>3, <2>4, SumSame
  <2>6. SumFunction([i \in Bins[b] |-> records[i].conf]) = SumFunctionOnSet(Conf, B)
    BY <2>1, <2>5 DEF SumFunction
  <2>7. Gaps(DOMAIN records)[b] = Distance(SumFunctionOnSet(Conf, B), 10 * Cardinality(Hits(B)))
    BY <2>2 DEF Gaps, Gap
  <2>8. {i \in Bins[b] : records[i].correct} = Hits(B)
    BY <2>1 DEF Hits
  <2> QED
    BY <2>6, <2>7, <2>8 DEF Distance
<1>3. ECE(Bins) = Off(DOMAIN records)
  <2>1. [b \in DOMAIN Bins |->
          LET conf == SumFunction([i \in Bins[b] |-> records[i].conf])
              hits == Cardinality({i \in Bins[b] : records[i].correct})
          IN IF conf >= 10 * hits THEN conf - 10 * hits ELSE 10 * hits - conf]
        = Gaps(DOMAIN records)
    BY <1>0, <1>2 DEF Gaps
  <2>2. DOMAIN Gaps(DOMAIN records) = BinIds
    BY DEF Gaps
  <2> QED
    BY <2>1, <2>2 DEF ECE, SumFunction, Off
<1>4. BrierScore = SquareSum(DOMAIN records)
  BY DEF BrierScore, SumFunction, SquareSum, MissSquares, Miss
<1>5. Off(DOMAIN records) * Off(DOMAIN records) <= Cardinality(DOMAIN records) * SquareSum(DOMAIN records)
  BY ScoresOrdered
<1> QED
  BY <1>1, <1>3, <1>4, <1>5 DEF ScoresAgree

-----------------------------------------------------------------------------
\* The records are finitely many: each feedback adds one.
Finite == IsFiniteSet(DOMAIN records)

\* No step makes them infinitely many.
LEMMA FiniteStep == Finite /\ [Next]_vars => Finite'
<1> SUFFICES ASSUME Finite, [Next]_vars PROVE Finite'
  OBVIOUS
<1>1. CASE UNCHANGED records
  BY <1>1 DEF Finite
<1>2. ASSUME NEW f \in Feedback, records' = Stored(f) PROVE Finite'
  <2>1. DOMAIN records' = DOMAIN records \union {f.id}
    BY <1>2 DEF Stored
  <2>2. IsFiniteSet(DOMAIN records \union {f.id})
    BY FS_AddElement DEF Finite
  <2> QED
    BY <2>1, <2>2 DEF Finite
<1>3. UNCHANGED records \/ \E f \in Feedback : records' = Stored(f)
  <2>1. CASE UNCHANGED vars
    BY <2>1 DEF vars
  <2>2. ASSUME NEW c \in Reporters, CalibrationHandler(c) \/ Report(c) PROVE UNCHANGED records
    BY <2>2 DEF CalibrationHandler, Report, LockAgain, ComputeECE, ComputeBrierScore, GetLearnedWeights, Return,
                 ComputeECEPanics, Unwind
  <2>3. ASSUME NEW c \in Senders, FeedbackHandler(c) PROVE UNCHANGED records
    BY <2>3 DEF FeedbackHandler
  <2>4. ASSUME NEW c \in Senders, NEW f \in Feedback, RecordFeedback(c, f) PROVE records' = Stored(f)
    BY <2>4 DEF RecordFeedback
  <2> QED
    BY <2>1, <2>2, <2>3, <2>4 DEF Next
<1> QED
  BY <1>1, <1>2, <1>3

\* ScoresAgree: every record falls into one of the bins of ComputeECE, and the
\* calibration error is at most the root of the Brier score (ComputeBrierScore),
\* for any records the store may hold that all have a bin, whatever was sent.
THEOREM ScoresAreCoherent == Spec => []ScoresAgree
<1>1. Init => Finite
  <2>1. ASSUME Init PROVE DOMAIN records = {}
    BY <2>1 DEF Init, NoRecords
  <2> QED
    BY <2>1, FS_EmptySet DEF Finite
<1>2. Spec => []Finite
  BY <1>1, FiniteStep, PTL DEF Spec
<1>3. Inv /\ Finite /\ ~NoBin => Kept
  <2> SUFFICES ASSUME Inv, Finite, ~NoBin PROVE Kept
    OBVIOUS
  <2>1. \A i \in DOMAIN records : records[i] \in Feedback
    BY DEF Inv, Types
  <2> QED
    BY <2>1 DEF Kept, Finite
<1>4. Inv /\ Finite => ScoresAgree
  BY <1>3, ScoresTheory DEF ScoresAgree
<1> QED
  BY <1>2, <1>4, InvAlways, PTL
=============================================================================
