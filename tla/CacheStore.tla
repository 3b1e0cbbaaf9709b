----------------------------- MODULE CacheStore -----------------------------
(***************************************************************************)
(* What the CacheStore interface promises its users (pkg/cache/cache.go):  *)
(* a hit returns the value last set, and the cache may forget any key but  *)
(* the one being set.                                                      *)
(***************************************************************************)
CONSTANTS
    Keys, Values,
    Miss          \* the answer nil, false

VARIABLES
    last,   \* key -> the value set last, for keys not deleted since
    held,   \* the keys that are not forgotten
    reply   \* the answer to the last Get

vars == <<last, held, reply>>

Nothing == [k \in {} |-> Miss]

Init == last = Nothing /\ held = {} /\ reply = Miss

Get(k) ==
    /\ reply' = IF k \in held THEN last[k] ELSE Miss
    /\ UNCHANGED <<last, held>>

Set(k, v) ==
    /\ last' = [i \in DOMAIN last \union {k} |-> IF i = k THEN v ELSE last[i]]
    /\ \E kept \in SUBSET (held \ {k}) : held' = kept \union {k}
    /\ UNCHANGED reply

Delete(k) ==
    /\ last' = [i \in DOMAIN last \ {k} |-> last[i]]
    /\ held' = held \ {k}
    /\ UNCHANGED reply

Clear == last' = Nothing /\ held' = {} /\ UNCHANGED reply

Next ==
    \/ \E k \in Keys : Get(k) \/ Delete(k) \/ \E v \in Values : Set(k, v)
    \/ Clear

Spec == Init /\ [][Next]_vars
=============================================================================
