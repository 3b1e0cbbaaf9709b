----------------------------- MODULE RateLimiter ----------------------------
(***************************************************************************)
(* The per-IP token bucket in front of the pipeline endpoints              *)
(* (pkg/api/handlers.go: allowIP, startRLCleanup, rateLimitMiddleware).    *)
(*                                                                         *)
(* Time is counted in ticks, a tick refilling one unit, and one request    *)
(* costs Cost units: Cost is the number of ticks in 1/rate seconds, and a  *)
(* bucket may hold a fraction of a token.  rlMu makes allowIP and the      *)
(* sweep of the cleanup goroutine atomic.  A rate of 0 disables the        *)
(* limiter before it looks at a bucket and is not modelled.                *)
(***************************************************************************)
EXTENDS Integers, Sequences

CONSTANTS
    IPs,       \* remote addresses
    Cost,      \* ticks that refill one token
    Burst,     \* RateLimitBurst
    Idle,      \* ticks in the five minutes after which a bucket is evicted
    MaxTime    \* bound on the clock

\* The last conjunct: an evicted bucket was full, at 10 requests/s and a burst
\* of 20 after two seconds.
ASSUME LimiterAssumption ==
    /\ Cost \in Nat \ {0} /\ Burst \in Nat /\ Idle \in Nat /\ MaxTime \in Nat
    /\ (IF Burst < 1 THEN 1 ELSE Burst) * Cost <= Idle + 1

VARIABLES
    now,        \* the clock
    rlBuckets,  \* IP -> [tokens, lastSeen], for the IPs that have a bucket
    granted     \* history: IP -> the times of the requests let through

limiterVars == <<now, rlBuckets, granted>>

Capacity == (IF Burst < 1 THEN 1 ELSE Burst) * Cost

LimiterInit ==
    /\ now = 0
    /\ rlBuckets = [ip \in {} |-> [tokens |-> 0, lastSeen |-> 0]]
    /\ granted = [ip \in IPs |-> << >>]

Tick == now < MaxTime /\ now' = now + 1 /\ UNCHANGED <<rlBuckets, granted>>

\* Mutant of Refilled: time that does not complete a token is lost.
RefilledWhole(bucket) ==
    LET sum == bucket.tokens + ((now - bucket.lastSeen) \div Cost) * Cost
    IN IF sum > Capacity THEN Capacity ELSE sum

Refilled(bucket) ==
    LET sum == bucket.tokens + (now - bucket.lastSeen)
    IN IF sum > Capacity THEN Capacity ELSE sum

\* What the bucket of ip holds now; a new bucket starts full.
Level(ip) == IF ip \in DOMAIN rlBuckets THEN Refilled(rlBuckets[ip]) ELSE Capacity

\* lastSeen moves whether or not the request is let through.
SetBucket(ip, tokens) ==
    rlBuckets' = [i \in DOMAIN rlBuckets \union {ip} |->
                    IF i = ip THEN [tokens |-> tokens, lastSeen |-> now] ELSE rlBuckets[i]]

\* Mutant of Allow: any fraction of a token is enough.
AllowFraction(ip) ==
    /\ Level(ip) > 0
    /\ SetBucket(ip, IF Level(ip) >= Cost THEN Level(ip) - Cost ELSE 0)
    /\ granted' = [granted EXCEPT ![ip] = Append(@, now)]
    /\ UNCHANGED now

Allow(ip) ==
    /\ Level(ip) >= Cost
    /\ SetBucket(ip, Level(ip) - Cost)
    /\ granted' = [granted EXCEPT ![ip] = Append(@, now)]
    /\ UNCHANGED now

Refuse(ip) ==
    /\ Level(ip) < Cost
    /\ SetBucket(ip, Level(ip))
    /\ UNCHANGED <<now, granted>>

\* The ticker fires every five minutes from start-up, and a sweep may be late;
\* here it may run at any time.
Cleanup ==
    LET idle == {ip \in DOMAIN rlBuckets : now - rlBuckets[ip].lastSeen > Idle} IN
    /\ idle # {}
    /\ rlBuckets' = [ip \in DOMAIN rlBuckets \ idle |-> rlBuckets[ip]]
    /\ UNCHANGED <<now, granted>>

LimiterNext == Tick \/ Cleanup \/ \E ip \in IPs : Allow(ip) \/ Refuse(ip)

LimiterSpec == LimiterInit /\ [][LimiterNext]_limiterVars

-----------------------------------------------------------------------------
LimiterTypeOK ==
    /\ now \in 0..MaxTime
    /\ DOMAIN rlBuckets \subseteq IPs
    /\ \A ip \in DOMAIN rlBuckets :
         rlBuckets[ip] \in [tokens : 0..Capacity, lastSeen : 0..now]
    /\ granted \in [IPs -> Seq(0..now)]

\* Requests of ip let through from the i-th to the j-th.
Span(i, j) == j - i + 1

\* In any stretch of time an IP gets at most the burst plus what the rate
\* yields in that time, evictions of its bucket included.
WindowBound ==
    \A ip \in IPs : \A i \in DOMAIN granted[ip] : \A j \in i..Len(granted[ip]) :
        Span(i, j) * Cost <= Capacity + (granted[ip][j] - granted[ip][i])

\* A request is refused only when letting it through would break that bound:
\* the limiter never owes a client anything.
NoNeedlessRefusal ==
    [][\A ip \in IPs : Refuse(ip) =>
          \E i \in DOMAIN granted[ip] :
             (Span(i, Len(granted[ip])) + 1) * Cost > Capacity + (now - granted[ip][i])]_limiterVars
=============================================================================
