----------------------------- MODULE SearchCache -----------------------------
(***************************************************************************)
(* The TTL cache of search/engine.py: a dictionary in the memory of the    *)
(* process, from keys to an answer and its age in ticks.  Both operations  *)
(* run under one lock, each is a single step.                              *)
(***************************************************************************)
EXTENDS Integers, FiniteSets

CONSTANTS
  CacheTtl,    \* search_cache_ttl, in ticks
  CacheMax     \* search_cache_max

ASSUME CacheAssumption == CacheTtl \in Int /\ CacheMax \in Nat

EmptyCache == [k \in {} |-> {}]

\* Mutants: the question is not part of the key; the age of an entry is not looked at.
KeyOfText(q)         == <<"text">>
EverFresh(cache, k)  == CacheTtl > 0 /\ k \in DOMAIN cache

\* _cache_key.  Query text and tenant are the same throughout; min_score is not
\* part of the key.
CacheKey(q) == <<q.mode, q.top_k, q.doc>>

\* _cache_get: an entry younger than the TTL is a hit, an older one is dropped.
IsFresh(cache, k) == CacheTtl > 0 /\ k \in DOMAIN cache /\ cache[k].age < CacheTtl

WithoutKey(cache, k) == [x \in DOMAIN cache \ {k} |-> cache[x]]

AfterGet(cache, k) == IF CacheTtl > 0 /\ ~IsFresh(cache, k) THEN WithoutKey(cache, k) ELSE cache

\* _cache_set: a full cache first drops an oldest entry, whether or not the key is
\* there already.  min() of an empty dictionary raises: with search_cache_max = 0
\* there is no cache to go on with.
Put(cache, k, answer) ==
  [x \in DOMAIN cache \cup {k} |-> IF x = k THEN [age |-> 0, answer |-> answer] ELSE cache[x]]

Oldest(cache) == {k \in DOMAIN cache : \A x \in DOMAIN cache : cache[x].age <= cache[k].age}

Evicted(cache) == IF Cardinality(DOMAIN cache) >= CacheMax
                  THEN {WithoutKey(cache, k) : k \in Oldest(cache)}
                  ELSE {cache}

\* A mutant: nothing is ever evicted.
Unbounded(cache, k, answer) == {Put(cache, k, answer)}

AfterSet(cache, k, answer) == IF CacheTtl <= 0 THEN {cache}
                              ELSE {Put(c, k, answer) : c \in Evicted(cache)}

\* A tick of the clock; ages past the TTL are not told apart.
CacheAged(cache) == [k \in DOMAIN cache |->
                       [cache[k] EXCEPT !.age = IF @ < CacheTtl THEN @ + 1 ELSE @]]
=============================================================================
