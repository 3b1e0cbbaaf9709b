------------------------------ MODULE MemoryLRU -----------------------------
(***************************************************************************)
(* The bounded in-memory cache of pkg/cache/memory_lru.go: a list of       *)
(* entries, most recently used first, and a map that finds a key's entry.  *)
(* Every method holds the mutex throughout, so each is one step.           *)
(***************************************************************************)
EXTENDS Naturals, Sequences, FiniteSets

CONSTANTS
    Keys, Values, Miss,
    Capacity      \* the capacity asked for

ASSUME CacheAssumption ==
    /\ IsFiniteSet(Keys) /\ Capacity \in Nat
    /\ Miss \notin Values

VARIABLES
    ll,       \* the keys of the list, front first
    cache,    \* key -> value: the entry the map finds for the key
    reply,    \* the answer to the last Get
    set,      \* history: key -> the value set last, for keys not deleted since
    since     \* history: key -> the other keys used since it was last used

vars == <<ll, cache, reply, set, since>>

\* NewMemoryLRU: a capacity that is not positive becomes 1000.
Size == IF Capacity = 0 THEN 1000 ELSE Capacity

Empty == [k \in {} |-> Miss]

Init ==
    /\ ll = << >> /\ cache = Empty /\ reply = Miss
    /\ set = Empty /\ since = [k \in Keys |-> {}]

\* list.MoveToFront and list.PushFront, and list.Remove.
Without(s, k) ==
    IF \E i \in DOMAIN s : s[i] = k
    THEN LET at == CHOOSE i \in DOMAIN s : s[i] = k
         IN [i \in 1..(Len(s) - 1) |-> IF i < at THEN s[i] ELSE s[i + 1]]
    ELSE s

PushFront(s, k) == [i \in 1..(Len(s) + 1) |-> IF i = 1 THEN k ELSE s[i - 1]]

\* Removal of a key from a function.
Drop(f, k) == [i \in DOMAIN f \ {k} |-> f[i]]
Put(f, k, v) == [i \in DOMAIN f \union {k} |-> IF i = k THEN v ELSE f[i]]

Used(k) == since' = [i \in Keys |-> IF i = k THEN {} ELSE since[i] \union {k}]

\* Mutant of Get: a hit does not count as a use.
GetInPlace(k) ==
    /\ IF k \in DOMAIN cache
       THEN reply' = cache[k] /\ Used(k)
       ELSE reply' = Miss /\ UNCHANGED since
    /\ UNCHANGED <<ll, cache, set>>

Get(k) ==
    /\ IF k \in DOMAIN cache
       THEN reply' = cache[k] /\ ll' = PushFront(Without(ll, k), k) /\ Used(k)
       ELSE reply' = Miss /\ UNCHANGED <<ll, since>>
    /\ UNCHANGED <<cache, set>>

\* The size is tested after the entry is added.
Overfull(s) == Len(s) > Size

\* removeOldest and removeElement: off the list and out of the map.
RemoveOldest(s, f) ==
    /\ ll' = SubSeq(s, 1, Len(s) - 1)
    /\ cache' = Drop(f, s[Len(s)])

\* Mutant of Set: a hit moves the entry and keeps its value.
SetIfAbsent(k, v) ==
    /\ IF k \in DOMAIN cache
       THEN ll' = PushFront(Without(ll, k), k) /\ UNCHANGED cache
       ELSE IF Overfull(PushFront(ll, k))
       THEN RemoveOldest(PushFront(ll, k), Put(cache, k, v))
       ELSE ll' = PushFront(ll, k) /\ cache' = Put(cache, k, v)
    /\ set' = Put(set, k, v) /\ Used(k)
    /\ UNCHANGED reply

Set(k, v) ==
    /\ IF k \notin DOMAIN cache /\ Overfull(PushFront(ll, k))
       THEN RemoveOldest(PushFront(ll, k), Put(cache, k, v))
       ELSE ll' = PushFront(Without(ll, k), k) /\ cache' = Put(cache, k, v)
    /\ set' = Put(set, k, v) /\ Used(k)
    /\ UNCHANGED reply

Delete(k) ==
    /\ ll' = IF k \in DOMAIN cache THEN Without(ll, k) ELSE ll
    /\ cache' = Drop(cache, k) /\ set' = Drop(set, k)
    /\ UNCHANGED <<reply, since>>

Clear ==
    /\ ll' = << >> /\ cache' = Empty /\ set' = Empty
    /\ UNCHANGED <<reply, since>>

Next ==
    \/ \E k \in Keys : Get(k) \/ Delete(k) \/ \E v \in Values : Set(k, v)
    \/ Clear

Spec == Init /\ [][Next]_vars

-----------------------------------------------------------------------------
\* The list and the map hold the same keys, each once, and no more than Size.
TypeOK ==
    /\ ll \in Seq(Keys) /\ Len(ll) <= Size
    /\ \A i, j \in DOMAIN ll : ll[i] = ll[j] => i = j
    /\ DOMAIN cache = {ll[i] : i \in DOMAIN ll}
    /\ \A k \in DOMAIN cache : cache[k] \in Values
    /\ reply \in Values \union {Miss}

\* A key is kept, with the value set last, until Size other keys have been
\* used after it.
KeepsTheRecentlyUsed ==
    \A k \in DOMAIN set :
        Cardinality(since[k]) < Size => k \in DOMAIN cache /\ cache[k] = set[k]

\* The cache never answers with a value that was replaced, deleted or cleared.
NeverStale == \A k \in DOMAIN cache : k \in DOMAIN set /\ cache[k] = set[k]

\* The LRU cache implements the interface: the keys held are those the map
\* finds, and a hit answers with the value set last.
Interface == INSTANCE CacheStore WITH last <- set, held <- DOMAIN cache
ImplementsCacheStore == Interface!Spec
=============================================================================
