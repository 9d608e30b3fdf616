---------------------------- MODULE SearchProofs ----------------------------
(* Theorems about SearchEngine, for any documents, questions, clients, answers  *)
(* of the language model, sizes and terms of the cache.                         *)
EXTENDS SearchEngine, FiniteSetTheorems, TLAPS

(* What an answer that is n ticks old may name.                                 *)
Remembered(S, n) == \A d \in S : d \in Rows \/ gone[d] <= n

(* A cached answer fits every question with its key, and whoever it names was   *)
(* there when the search for it began.                                          *)
EntryInv(k, e) ==
  /\ e \in [age : 0 .. CacheTtl, answer : SUBSET Docs]
  /\ \A q \in Questions : CacheKey(q) = k =>
       e.answer \subseteq Scope(q) /\ Cardinality(e.answer) <= q.top_k
  /\ Remembered(e.answer, MaxDuration + e.age)

CacheWell(C) ==
  /\ IsFiniteSet(DOMAIN C)
  /\ CacheTtl <= 0 => DOMAIN C = {}
  /\ \A k \in DOMAIN C : k \in {CacheKey(q) : q \in Questions} /\ EntryInv(k, C[k])

CacheInv == CacheWell(cache) /\ Cardinality(DOMAIN cache) <= CacheMax

(* The same for a search in flight; a lexical search reads no vectors, so that  *)
(* all it finds has been seen as a row.  Nothing is kept of a search that ended. *)
Good(r) ==
  /\ r.lex \subseteq Scope(r.q) /\ r.vec \subseteq Scope(r.q)
  /\ r.found \subseteq Scope(r.q) /\ Cardinality(r.found) <= r.q.top_k
  /\ Remembered(r.lex, r.age) /\ Remembered(r.found, r.age)
  /\ Mode(r.q) = "lexical_only" => r.pc # "vectors" /\ r.vec = {}
  /\ r.pc = "idle" => r.lex = {} /\ r.found = {}

RequestInv == req \in [Clients -> Requests] /\ \A c \in Clients : Good(req[c])

(* The clock of a document starts when its rows go.                             *)
IndexInv ==
  /\ life \in [Docs -> Life] /\ gone \in [Docs -> 0 .. GoneCap]
  /\ \A d \in Docs \ Gone : gone[d] = 0

(* What runs has been checked, and what is repaired may be run once more.        *)
Sound(q) == /\ q.pc = "execute" => q.sql \in {"good", "bad"}
            /\ q.pc = "fix" => q.attempt < MaxRetries

QueryInv == /\ tq \in [Clients -> [Tabular -> Query]]
            /\ \A c \in Clients, d \in Tabular : Sound(tq[c][d])

IInv == IndexInv /\ CacheInv /\ RequestInv /\ QueryInv

-----------------------------------------------------------------------------
(* Sets of documents are finite, and what is taken of one as its best is a part *)
(* of it of the size asked for, at most.                                        *)
LEMMA DocsFinite ==
  ASSUME NEW S \in SUBSET Docs
  PROVE  IsFiniteSet(S) /\ Cardinality(S) \in Nat
BY IndexAssumption, FS_Subset, FS_CardinalityType

LEMMA BestIsPart ==
  ASSUME NEW S \in SUBSET Docs, NEW n \in Nat,
         NEW T \in kSubset(IF Cardinality(S) < n THEN Cardinality(S) ELSE n, S)
  PROVE  T \subseteq S /\ Cardinality(T) <= n
BY DocsFinite DEF kSubset

LEMMA QuestionType ==
  ASSUME NEW q \in Questions
  PROVE  /\ q.top_k \in Nat \ {0} /\ Scope(q) \subseteq Docs /\ Depth(q) \in Nat
         /\ Mode(q) \in Modes
<1>1. q \in Question
  BY EngineAssumption
<1>2. q.top_k \in Nat \ {0} /\ q.mode \in Modes /\ q.doc \in Docs \cup {AnyDoc}
  BY <1>1 DEF Question
<1> QED BY <1>2, EngineAssumption DEF Scope, Depth, Mode, Modes

(* A request that holds nothing fits any question.                              *)
LEMMA AskedGood ==
  ASSUME NEW q \in Questions
  PROVE  Asked(q) \in Requests /\ Good(Asked(q))
<1>1. NoQuestion \in Questions
  BY EngineAssumption DEF NoQuestion
<1>2. Idle \in Requests
  BY <1>1, EngineAssumption DEF Idle, Requests
<1>3. Asked(q) \in Requests
  BY <1>2 DEF Asked, Requests
<1>4. /\ Asked(q).q = q /\ Asked(q).lex = {} /\ Asked(q).vec = {} /\ Asked(q).found = {}
      /\ Asked(q).pc = "idle"
  BY <1>2 DEF Asked, Idle, Requests
<1>5. Cardinality({}) <= q.top_k
  BY FS_EmptySet, QuestionType
<1> QED BY <1>3, <1>4, <1>5 DEF Good, Remembered

LEMMA IdleGood == Idle \in Requests /\ Good(Idle)
<1>1. NoQuestion \in Questions
  BY EngineAssumption DEF NoQuestion
<1>2. Idle \in Requests
  BY <1>1, EngineAssumption DEF Idle, Requests
<1>3. /\ Idle.q = NoQuestion /\ Idle.lex = {} /\ Idle.vec = {} /\ Idle.found = {}
      /\ Idle.pc = "idle"
  BY DEF Idle
<1>4. Cardinality({}) <= NoQuestion.top_k
  BY <1>1, FS_EmptySet, QuestionType
<1> QED BY <1>2, <1>3, <1>4 DEF Good, Remembered

LEMMA GoneCapType ==
  GoneCap \in Nat /\ GoneCap > MaxDuration /\ (CacheTtl > 0 => GoneCap = MaxDuration + CacheTtl)
BY CacheAssumption, EngineAssumption DEF GoneCap

-----------------------------------------------------------------------------
(* The cache: a part of a cache, a new entry, a tick.                           *)
LEMMA WithoutKeyWell ==
  ASSUME NEW C, NEW k, CacheWell(C)
  PROVE  /\ CacheWell(WithoutKey(C, k))
         /\ DOMAIN WithoutKey(C, k) = DOMAIN C \ {k}
<1>1. IsFiniteSet(DOMAIN C \ {k})
  BY FS_RemoveElement DEF CacheWell
<1> QED BY <1>1 DEF CacheWell, WithoutKey

LEMMA AfterGetWell ==
  ASSUME NEW k, CacheInv
  PROVE  CacheWell(AfterGet(cache, k)) /\ Cardinality(DOMAIN AfterGet(cache, k)) <= CacheMax
<1>1. CASE AfterGet(cache, k) = cache
  BY <1>1 DEF CacheInv
<1>2. CASE AfterGet(cache, k) = WithoutKey(cache, k)
  <2>1. IsFiniteSet(DOMAIN cache) /\ Cardinality(DOMAIN cache) <= CacheMax
    BY DEF CacheInv, CacheWell
  <2>2. /\ Cardinality(DOMAIN cache \ {k}) <= Cardinality(DOMAIN cache)
        /\ Cardinality(DOMAIN cache \ {k}) \in Nat /\ Cardinality(DOMAIN cache) \in Nat
    <3> DEFINE D == DOMAIN cache
    <3> HIDE DEF D
    <3>1. IsFiniteSet(D)
      BY <2>1 DEF D
    <3>2. D \ {k} \in SUBSET D
      OBVIOUS
    <3>3. IsFiniteSet(D \ {k}) /\ Cardinality(D \ {k}) <= Cardinality(D)
      BY <3>1, <3>2, FS_Subset
    <3> QED BY <3>1, <3>3, FS_CardinalityType DEF D
  <2>3. CacheWell(WithoutKey(cache, k)) /\ DOMAIN WithoutKey(cache, k) = DOMAIN cache \ {k}
    BY WithoutKeyWell DEF CacheInv
  <2> QED BY <1>2, <2>1, <2>2, <2>3, CacheAssumption
<1> QED BY <1>1, <1>2 DEF AfterGet

LEMMA PutWell ==
  ASSUME NEW C, CacheWell(C), CacheTtl > 0, NEW q \in Questions, NEW S \in SUBSET Docs,
         EntryInv(CacheKey(q), [age |-> 0, answer |-> S])
  PROVE  CacheWell(Put(C, CacheKey(q), S))
<1> DEFINE k == CacheKey(q)
           P == Put(C, k, S)
<1>1. DOMAIN P = DOMAIN C \cup {k}
  BY DEF Put
<1>2. IsFiniteSet(DOMAIN P)
  <2>1. IsFiniteSet(DOMAIN C)
    BY DEF CacheWell
  <2>2. IsFiniteSet(DOMAIN C \cup {k})
    BY <2>1, FS_AddElement
  <2> QED BY <1>1, <2>2
<1>3. \A x \in DOMAIN P : P[x] = IF x = k THEN [age |-> 0, answer |-> S] ELSE C[x]
  BY DEF Put
<1> HIDE DEF P
<1>4. \A x \in DOMAIN P : x \in {CacheKey(y) : y \in Questions} /\ EntryInv(x, P[x])
  BY <1>1, <1>3 DEF CacheWell
<1>5. CacheWell(P)
  BY <1>2, <1>4, CacheAssumption DEF CacheWell
<1> QED BY <1>5 DEF P

(* Eviction makes room for one, whether or not the key is there already.        *)
LEMMA AfterSetWell ==
  ASSUME CacheInv, NEW q \in Questions, NEW S \in SUBSET Docs,
         CacheTtl > 0 => EntryInv(CacheKey(q), [age |-> 0, answer |-> S]),
         NEW C \in AfterSet(cache, CacheKey(q), S)
  PROVE  CacheWell(C) /\ Cardinality(DOMAIN C) <= CacheMax
<1> DEFINE k == CacheKey(q)
<1>1. CASE CacheTtl <= 0
  BY <1>1 DEF AfterSet, CacheInv
<1>2. CASE CacheTtl > 0
  <2>1. PICK E \in Evicted(cache) : C = Put(E, k, S)
    BY <1>2, CacheAssumption DEF AfterSet
  <2>2. CacheWell(E) /\ Cardinality(DOMAIN E) \in Nat /\ Cardinality(DOMAIN E) + 1 <= CacheMax
    <3>1. IsFiniteSet(DOMAIN cache) /\ Cardinality(DOMAIN cache) \in Nat
      BY FS_CardinalityType DEF CacheInv, CacheWell
    <3>2. CASE Cardinality(DOMAIN cache) >= CacheMax
      <4>1. PICK o \in DOMAIN cache : E = WithoutKey(cache, o)
        BY <3>2 DEF Evicted, Oldest
      <4>0. CacheWell(E) /\ DOMAIN E = DOMAIN cache \ {o} /\ Cardinality(DOMAIN cache) <= CacheMax
        BY <4>1, WithoutKeyWell DEF CacheInv
      <4>2. Cardinality(DOMAIN cache \ {o}) = Cardinality(DOMAIN cache) - 1
        BY <3>1, FS_RemoveElement
      <4>3. Cardinality(DOMAIN cache \ {o}) \in Nat
        BY <3>1, FS_RemoveElement, FS_CardinalityType
      <4> QED BY <3>1, <4>0, <4>2, <4>3, CacheAssumption
    <3>3. CASE Cardinality(DOMAIN cache) < CacheMax
      <4>1. E = cache /\ CacheWell(cache)
        BY <3>1, <3>3, CacheAssumption DEF Evicted, CacheInv
      <4> QED BY <3>1, <3>3, <4>1, CacheAssumption
    <3> QED BY <3>1, <3>2, <3>3, CacheAssumption
  <2>3. CacheWell(C)
    BY <1>2, <2>1, <2>2, PutWell
  <2>4. DOMAIN C = DOMAIN E \cup {k}
    BY <2>1 DEF Put
  <2>5. Cardinality(DOMAIN C) <= Cardinality(DOMAIN E) + 1
    <3> DEFINE D == DOMAIN E
    <3> HIDE DEF D
    <3>1. IsFiniteSet(D) /\ Cardinality(D) \in Nat
      BY <2>2 DEF CacheWell, D
    <3>2. Cardinality(D \cup {k}) = IF k \in D THEN Cardinality(D) ELSE Cardinality(D) + 1
      BY <3>1, FS_AddElement
    <3>3. Cardinality(D \cup {k}) <= Cardinality(D) + 1
      BY <3>1, <3>2
    <3> QED BY <2>4, <3>3 DEF D
  <2>6. Cardinality(DOMAIN C) \in Nat
    BY <2>3, FS_CardinalityType DEF CacheWell
  <2> QED BY <2>2, <2>3, <2>5, <2>6, CacheAssumption
<1> QED BY <1>1, <1>2, CacheAssumption

-----------------------------------------------------------------------------
(* A step that leaves documents and clock alone changes nothing about what is    *)
(* remembered; this is how a request takes such a step.                          *)
LEMMA SetReqKeeps ==
  ASSUME RequestInv, NEW c \in Clients, NEW r \in Requests, Good(r), SetReq(c, r),
         UNCHANGED <<life, gone>>
  PROVE  RequestInv'
<1>1. req' \in [Clients -> Requests] /\ \A x \in Clients : req'[x] = IF x = c THEN r ELSE req[x]
  BY DEF RequestInv, SetReq
<1>2. \A x \in Clients : Good(req'[x])
  BY <1>1 DEF RequestInv
<1>3. Rows' = Rows
  BY DEF Rows
<1> QED BY <1>1, <1>2, <1>3 DEF RequestInv, Good, Remembered

LEMMA CacheKept ==
  ASSUME CacheWell(cache'), Cardinality(DOMAIN cache') <= CacheMax, UNCHANGED <<life, gone>>
  PROVE  CacheInv'
<1>1. Rows' = Rows
  BY DEF Rows
<1> QED BY <1>1 DEF CacheInv, CacheWell, EntryInv, Remembered

LEMMA IndexKept ==
  ASSUME IndexInv, UNCHANGED <<life, gone>>
  PROVE  IndexInv'
BY DEF IndexInv, Gone

(* Requests given up.                                                            *)
LEMMA AbandonedKeeps ==
  ASSUME IInv, NEW cs \in SUBSET Clients, Abandoned(cs), UNCHANGED <<life, gone>>
  PROVE  RequestInv' /\ QueryInv'
<1>1. /\ req' \in [Clients -> Requests]
      /\ \A x \in Clients : req'[x] = Idle \/ req'[x] = req[x]
  BY IdleGood DEF Abandoned, IInv, RequestInv
<1>2. \A x \in Clients : Good(req'[x])
  BY <1>1, IdleGood DEF IInv, RequestInv
<1>3. Rows' = Rows
  BY DEF Rows
<1>4. RequestInv'
  BY <1>1, <1>2, <1>3 DEF RequestInv, Good, Remembered
<1>5. NoQuery \in Query /\ NoQuery.pc = "off"
  BY ReplyAssumption DEF NoQuery, Query, QuerySteps
<1>6. QueryInv'
  BY <1>5 DEF Abandoned, IInv, QueryInv, Sound
<1> QED BY <1>4, <1>6

-----------------------------------------------------------------------------
(* One lemma for each step of a search.                                          *)
LEMMA AskStep ==
  ASSUME IInv, NEW c \in Clients, Ask(c)
  PROVE  IInv'
<1>1. PICK q \in Questions :
        /\ cache' = AfterGet(cache, CacheKey(q))
        /\ SetReq(c, IF IsFresh(cache, CacheKey(q)) THEN Idle
                     ELSE [Asked(q) EXCEPT !.pc = IF Mode(q) = "vector_only" THEN "vectors" ELSE "text"])
  BY DEF Ask
<1>2. UNCHANGED <<life, tq, gone>>
  BY DEF Ask
<1> DEFINE r == [Asked(q) EXCEPT !.pc = IF Mode(q) = "vector_only" THEN "vectors" ELSE "text"]
<1>3. r \in Requests /\ Good(r)
  <2>1. Asked(q) \in Requests /\ Good(Asked(q)) /\ Asked(q).q = q
    BY AskedGood DEF Asked, Idle
  <2>2. /\ r \in Requests /\ r.q = q /\ r.lex = Asked(q).lex /\ r.vec = Asked(q).vec
        /\ r.found = Asked(q).found /\ r.age = Asked(q).age
        /\ r.pc = IF Mode(q) = "vector_only" THEN "vectors" ELSE "text"
    BY <2>1 DEF Requests
  <2>3. Asked(q).vec = {}
    BY DEF Asked, Idle
  <2> HIDE DEF r
  <2> QED BY <2>1, <2>2, <2>3 DEF Good
<1> HIDE DEF r
<1>4. RequestInv'
  <2>1. CASE SetReq(c, Idle)
    BY <1>2, <2>1, IdleGood, SetReqKeeps DEF IInv
  <2>2. CASE SetReq(c, r)
    BY <1>2, <1>3, <2>2, SetReqKeeps DEF IInv
  <2> QED BY <1>1, <2>1, <2>2 DEF r
<1>5. CacheInv'
  BY <1>1, <1>2, AfterGetWell, CacheKept DEF IInv
<1> QED BY <1>2, <1>4, <1>5, IndexKept DEF IInv, QueryInv, Sound

LEMMA ReadTextStep ==
  ASSUME IInv, NEW c \in Clients, ReadText(c)
  PROVE  IInv'
<1> DEFINE r == req[c]
           H == Rows \cap Matches[r.pass] \cap Scope(r.q)
<1>1. r \in Requests /\ Good(r) /\ r.q \in Questions /\ r.pass \in 1 .. 3
  BY DEF IInv, RequestInv, Requests
<1>2. UNCHANGED <<life, cache, tq, gone>>
  BY DEF ReadText
<1>3. PICK S \in kSubset(IF Cardinality(H) < Depth(r.q) THEN Cardinality(H) ELSE Depth(r.q), H) :
        IF S = {} /\ r.pass < 3
        THEN SetReq(c, [r EXCEPT !.pass = @ + 1])
        ELSE SetReq(c, [r EXCEPT !.lex = S, !.pc = IF Mode(r.q) = "hybrid" THEN "vectors" ELSE "fetch"])
  BY DEF ReadText, Best
<1>4. S \subseteq Rows /\ S \subseteq Scope(r.q) /\ S \subseteq Docs
  <2>1. H \subseteq Docs /\ Depth(r.q) \in Nat
    BY <1>1, QuestionType DEF Rows
  <2>2. S \subseteq H
    BY <2>1, <1>3, BestIsPart
  <2> QED BY <2>2 DEF Rows
<1>5. CASE S = {} /\ r.pass < 3
  <2> DEFINE n == [r EXCEPT !.pass = @ + 1]
  <2>1. SetReq(c, n)
    BY <1>3, <1>5
  <2>2. /\ n \in Requests /\ n.q = r.q /\ n.lex = r.lex /\ n.vec = r.vec /\ n.found = r.found
        /\ n.age = r.age /\ n.pc = r.pc
    BY <1>1, <1>5 DEF Requests
  <2> HIDE DEF n
  <2>3. Good(n)
    BY <1>1, <2>2 DEF Good
  <2> QED BY <1>2, <2>1, <2>2, <2>3, SetReqKeeps, IndexKept, CacheKept DEF IInv, CacheInv, QueryInv, Sound
<1>6. CASE ~(S = {} /\ r.pass < 3)
  <2> DEFINE n == [r EXCEPT !.lex = S, !.pc = IF Mode(r.q) = "hybrid" THEN "vectors" ELSE "fetch"]
  <2>1. SetReq(c, n)
    BY <1>3, <1>6
  <2>2. /\ n \in Requests /\ n.q = r.q /\ n.lex = S /\ n.vec = r.vec /\ n.found = r.found
        /\ n.age = r.age /\ n.pc = IF Mode(r.q) = "hybrid" THEN "vectors" ELSE "fetch"
    BY <1>1, <1>4 DEF Requests
  <2> HIDE DEF n
  <2>3. Good(n)
    BY <1>1, <1>4, <2>2 DEF Good, Remembered
  <2> QED BY <1>2, <2>1, <2>2, <2>3, SetReqKeeps, IndexKept, CacheKept DEF IInv, CacheInv, QueryInv, Sound
<1> QED BY <1>5, <1>6

LEMMA ReadVectorsStep ==
  ASSUME IInv, NEW c \in Clients, ReadVectors(c)
  PROVE  IInv'
<1> DEFINE r == req[c]
           H == Vectors \cap Scope(r.q)
<1>1. r \in Requests /\ Good(r) /\ r.q \in Questions /\ r.pc = "vectors"
  BY DEF IInv, RequestInv, Requests, ReadVectors
<1>2. UNCHANGED <<life, cache, tq, gone>>
  BY DEF ReadVectors
<1>3. PICK S \in kSubset(IF Cardinality(H) < Depth(r.q) THEN Cardinality(H) ELSE Depth(r.q), H) :
        SetReq(c, [r EXCEPT !.vec = S, !.pc = "fetch"])
  BY DEF ReadVectors, Best
<1>4. S \subseteq Scope(r.q) /\ S \subseteq Docs
  <2>1. H \subseteq Docs /\ Depth(r.q) \in Nat
    BY <1>1, QuestionType DEF Vectors
  <2>2. S \subseteq H
    BY <2>1, <1>3, BestIsPart
  <2> QED BY <2>2 DEF Vectors
<1> DEFINE n == [r EXCEPT !.vec = S, !.pc = "fetch"]
<1>5. /\ n \in Requests /\ n.q = r.q /\ n.lex = r.lex /\ n.vec = S /\ n.found = r.found
      /\ n.age = r.age /\ n.pc = "fetch"
  BY <1>1, <1>4 DEF Requests
<1> HIDE DEF n
<1>6. Good(n)
  BY <1>1, <1>4, <1>5 DEF Good
<1>7. SetReq(c, n)
  BY <1>3 DEF n
<1> QED BY <1>2, <1>5, <1>6, <1>7, SetReqKeeps, IndexKept, CacheKept DEF IInv, CacheInv, QueryInv, Sound

LEMMA FetchStep ==
  ASSUME IInv, NEW c \in Clients, Fetch(c)
  PROVE  IInv'
<1> DEFINE r == req[c]
           H == r.lex \cup r.vec
<1>1. /\ r \in Requests /\ Good(r) /\ r.q \in Questions /\ H \subseteq Docs
      /\ r.lex \subseteq Docs /\ r.vec \subseteq Docs /\ r.age \in 0 .. MaxDuration
  BY DEF IInv, RequestInv, Requests
<1>2. UNCHANGED <<life, cache, gone>>
  BY DEF Fetch
<1>3. r.q.top_k \in Nat
  BY <1>1, QuestionType
<1>4. PICK best \in kSubset(IF Cardinality(H) < r.q.top_k THEN Cardinality(H) ELSE r.q.top_k, H) :
        \E found \in SUBSET Fetched(r.q, best) :
          /\ SetReq(c, [Asked(r.q) EXCEPT !.pc = "enrich", !.found = found, !.age = r.age])
          /\ tq' = [tq EXCEPT ![c] = [d \in Tabular |-> IF d \in found THEN NewQuery ELSE NoQuery]]
  BY DEF Fetch, Best
<1>5. PICK found \in SUBSET Fetched(r.q, best) :
        /\ SetReq(c, [Asked(r.q) EXCEPT !.pc = "enrich", !.found = found, !.age = r.age])
        /\ tq' = [tq EXCEPT ![c] = [d \in Tabular |-> IF d \in found THEN NewQuery ELSE NoQuery]]
  BY <1>4
<1>6. best \subseteq H /\ Cardinality(best) <= r.q.top_k
  BY <1>1, <1>3, <1>4, BestIsPart
<1>7. found \subseteq best
  BY DEF Fetched
<1>8. Cardinality(found) <= r.q.top_k
  <2>1. best \in SUBSET Docs /\ found \in SUBSET Docs
    BY <1>1, <1>6, <1>7
  <2>2. IsFiniteSet(best) /\ Cardinality(best) \in Nat /\ Cardinality(found) \in Nat
    BY <2>1, DocsFinite
  <2>3. Cardinality(found) <= Cardinality(best)
    BY <1>7, <2>2, FS_Subset
  <2> QED BY <1>3, <1>6, <2>2, <2>3
<1>9. Remembered(found, r.age)
  <2>1. CASE Mode(r.q) = "lexical_only"
    BY <1>1, <1>6, <1>7, <2>1 DEF Good, Remembered
  <2>2. CASE Mode(r.q) # "lexical_only"
    BY <2>2 DEF Fetched, Remembered
  <2> QED BY <2>1, <2>2
<1> DEFINE n == [Asked(r.q) EXCEPT !.pc = "enrich", !.found = found, !.age = r.age]
<1>10. /\ n \in Requests /\ n.q = r.q /\ n.lex = {} /\ n.vec = {} /\ n.found = found
       /\ n.age = r.age /\ n.pc = "enrich"
  <2>1. Asked(r.q) \in Requests
    BY <1>1, AskedGood
  <2>2. Asked(r.q).lex = {} /\ Asked(r.q).vec = {} /\ Asked(r.q).q = r.q
    BY DEF Asked, Idle
  <2> QED BY <1>1, <1>6, <1>7, <2>1, <2>2 DEF Requests
<1> HIDE DEF n
<1>11. Good(n)
  <2>1. found \subseteq Scope(r.q)
    BY <1>1, <1>6, <1>7 DEF Good
  <2> QED BY <1>8, <1>9, <1>10, <2>1 DEF Good, Remembered
<1>12. RequestInv'
  <2>1. SetReq(c, n)
    BY <1>5 DEF n
  <2> QED BY <1>2, <1>10, <1>11, <2>1, SetReqKeeps DEF IInv
<1>13. QueryInv'
  <2>1. NewQuery \in Query /\ NoQuery \in Query /\ NewQuery.pc = "generate" /\ NoQuery.pc = "off"
    BY ReplyAssumption DEF NewQuery, NoQuery, Query, QuerySteps
  <2> QED BY <1>5, <2>1 DEF IInv, QueryInv, Sound
<1> QED BY <1>2, <1>12, <1>13, IndexKept, CacheKept DEF IInv, CacheInv

(* A step of a query: what is set is a query, and runs nothing unchecked.        *)
LEMMA SetQueryKeeps ==
  ASSUME QueryInv, NEW c \in Clients, NEW d \in Tabular, NEW q \in Query, Sound(q), SetQuery(c, d, q)
  PROVE  QueryInv'
<1>1. /\ tq' \in [Clients -> [Tabular -> Query]]
      /\ \A x \in Clients, y \in Tabular : tq'[x][y] = q \/ tq'[x][y] = tq[x][y]
  BY DEF QueryInv, SetQuery
<1> QED BY <1>1 DEF QueryInv, Sound

LEMMA QueryStepKeeps ==
  ASSUME QueryInv, NEW c \in Clients, NEW d \in Tabular, QueryStep(c, d)
  PROVE  QueryInv'
<1> DEFINE q == tq[c][d]
<1>1. q \in Query /\ Sound(q) /\ MaxRetries \in Nat
  BY ReplyAssumption DEF QueryInv
<1>2. Returned \in Query /\ Sound(Returned)
  BY ReplyAssumption DEF Returned, NoQuery, Query, QuerySteps, Sound
<1>3. ASSUME NEW r \in Replies
      PROVE  Validated(q, r) \in Query /\ Sound(Validated(q, r))
  <2>1. CASE r \in {"good", "bad"}
    <3>1. Validated(q, r) = [q EXCEPT !.pc = "execute", !.sql = r]
      BY <2>1 DEF Validated, Accepts
    <3> QED BY <1>1, <2>1, <3>1 DEF Query, QuerySteps, Sound
  <2>2. CASE r \notin {"good", "bad"}
    BY <1>2, <2>2 DEF Validated, Accepts
  <2> QED BY <2>1, <2>2
<1> HIDE DEF q
<1>4. CASE Generate(c, d)
  <2> DEFINE again == [q EXCEPT !.pc = "regenerate"]
  <2>1. again \in Query /\ Sound(again)
    BY <1>1 DEF Query, QuerySteps, Sound
  <2>2. PICK r \in Replies : SetQuery(c, d, IF r = "error" THEN Returned ELSE IF r = "empty" THEN again ELSE Validated(q, r))
    BY <1>4 DEF Generate, q
  <2> HIDE DEF again
  <2>3. SetQuery(c, d, Returned) \/ SetQuery(c, d, again) \/ SetQuery(c, d, Validated(q, r))
    BY <2>2
  <2> QED BY <1>2, <1>3, <2>1, <2>3, SetQueryKeeps
<1>5. CASE Regenerate(c, d)
  <2>1. PICK r \in Replies : SetQuery(c, d, IF r \in {"error", "empty"} THEN Returned ELSE Validated(q, r))
    BY <1>5 DEF Regenerate, q
  <2>2. SetQuery(c, d, Returned) \/ SetQuery(c, d, Validated(q, r))
    BY <2>1
  <2> QED BY <1>2, <1>3, <2>2, SetQueryKeeps
<1>6. CASE Execute(c, d)
  <2> DEFINE fix == [q EXCEPT !.pc = "fix"]
  <2>1. q.attempt < MaxRetries => fix \in Query /\ Sound(fix)
    BY <1>1 DEF Query, QuerySteps, Sound
  <2>2. SetQuery(c, d, Returned) \/ (q.attempt < MaxRetries /\ SetQuery(c, d, fix))
    BY <1>6 DEF Execute, q
  <2> HIDE DEF fix
  <2> QED BY <1>2, <2>1, <2>2, SetQueryKeeps
<1>7. CASE Fix(c, d)
  <2>1. PICK r \in Replies :
          SetQuery(c, d, IF Accepts(r) THEN [q EXCEPT !.pc = "execute", !.sql = r, !.attempt = @ + 1] ELSE Returned)
    BY <1>7 DEF Fix, q
  <2>2. CASE Accepts(r)
    <3> DEFINE n == [q EXCEPT !.pc = "execute", !.sql = r, !.attempt = @ + 1]
    <3>1. q.attempt < MaxRetries
      BY <1>1, <1>7 DEF Fix, q, Sound
    <3>2. n \in Query /\ Sound(n)
      <4>1. r \in {"good", "bad"}
        BY <2>2 DEF Accepts
      <4>2. q.attempt \in Nat /\ q.attempt + 1 \in 0 .. MaxRetries
        BY <1>1, <3>1 DEF Query
      <4>3. /\ DOMAIN n = DOMAIN q /\ n.pc = "execute" /\ n.sql = r /\ n.attempt = q.attempt + 1
        BY <1>1 DEF Query
      <4>4. n \in Query
        BY <1>1, <4>1, <4>2 DEF Query, QuerySteps
      <4> HIDE DEF n
      <4> QED BY <4>1, <4>3, <4>4 DEF Sound
    <3>3. SetQuery(c, d, n)
      BY <2>1, <2>2
    <3> HIDE DEF n
    <3> QED BY <3>2, <3>3, SetQueryKeeps
  <2>3. CASE ~Accepts(r)
    BY <1>2, <2>1, <2>3, SetQueryKeeps
  <2> QED BY <2>2, <2>3
<1> QED BY <1>4, <1>5, <1>6, <1>7 DEF QueryStep

LEMMA EnrichStep ==
  ASSUME IInv, NEW c \in Clients, Enrich(c)
  PROVE  IInv'
<1>1. UNCHANGED <<life, cache, req, gone>> /\ \E d \in Tabular : QueryStep(c, d)
  BY DEF Enrich
<1>2. QueryInv'
  BY <1>1, QueryStepKeeps DEF IInv
<1>3. RequestInv'
  BY <1>1 DEF IInv, RequestInv, Good, Remembered, Rows
<1> QED BY <1>1, <1>2, <1>3, IndexKept, CacheKept DEF IInv, CacheInv

LEMMA EnrichedStep ==
  ASSUME IInv, NEW c \in Clients, Enriched(c)
  PROVE  IInv'
<1> DEFINE n == [req[c] EXCEPT !.pc = "store"]
<1>1. /\ UNCHANGED <<life, cache, gone>> /\ SetReq(c, n)
      /\ tq' = [tq EXCEPT ![c] = [d \in Tabular |-> NoQuery]]
  BY DEF Enriched
<1>2. req[c] \in Requests /\ Good(req[c])
  BY DEF IInv, RequestInv
<1>3. n \in Requests /\ Good(n)
  BY <1>2 DEF Requests, Good
<1> HIDE DEF n
<1>4. RequestInv'
  BY <1>1, <1>3, SetReqKeeps DEF IInv
<1>5. NoQuery \in Query /\ Sound(NoQuery)
  BY ReplyAssumption DEF NoQuery, Query, QuerySteps, Sound
<1>6. QueryInv'
  BY <1>1, <1>5 DEF IInv, QueryInv
<1> QED BY <1>1, <1>4, <1>6, IndexKept, CacheKept DEF IInv, CacheInv

(* What a search found is cached as old as its oldest part may be.               *)
LEMMA StoreStep ==
  ASSUME IInv, NEW c \in Clients, Store(c)
  PROVE  IInv'
<1> DEFINE r == req[c]
           e == [age |-> 0, answer |-> r.found]
<1>1. UNCHANGED <<life, tq, gone>> /\ SetReq(c, Idle) /\ cache' \in AfterSet(cache, CacheKey(r.q), r.found)
  BY DEF Store
<1>2. /\ r \in Requests /\ Good(r) /\ r.q \in Questions /\ r.found \in SUBSET Docs
      /\ r.age \in 0 .. MaxDuration
  BY DEF IInv, RequestInv, Requests
<1>3. CacheTtl > 0 => EntryInv(CacheKey(r.q), e)
  <2> SUFFICES ASSUME CacheTtl > 0 PROVE EntryInv(CacheKey(r.q), e)
    OBVIOUS
  <2>1. e \in [age : 0 .. CacheTtl, answer : SUBSET Docs]
    BY <1>2, CacheAssumption
  <2>2. ASSUME NEW q \in Questions, CacheKey(q) = CacheKey(r.q)
        PROVE  r.found \subseteq Scope(q) /\ Cardinality(r.found) <= q.top_k
    <3>1. q.top_k = r.q.top_k /\ q.doc = r.q.doc
      BY <2>2 DEF CacheKey
    <3> QED BY <1>2, <3>1 DEF Good, Scope
  <2>3. Remembered(r.found, MaxDuration)
    <3>1. \A d \in r.found : gone[d] \in Nat
      BY <1>2, GoneCapType DEF IInv, IndexInv
    <3> QED BY <1>2, <3>1, EngineAssumption DEF Good, Remembered
  <2>4. Remembered(e.answer, MaxDuration + e.age)
    BY <2>3, EngineAssumption DEF Remembered
  <2> QED BY <2>1, <2>2, <2>4 DEF EntryInv
<1> HIDE DEF e
<1>4. CacheInv'
  <2>1. CacheWell(cache') /\ Cardinality(DOMAIN cache') <= CacheMax
    BY <1>1, <1>2, <1>3, AfterSetWell DEF IInv, e
  <2> QED BY <1>1, <2>1, CacheKept
<1>5. RequestInv'
  BY <1>1, IdleGood, SetReqKeeps DEF IInv
<1> QED BY <1>1, <1>4, <1>5, IndexKept DEF IInv, QueryInv

LEMMA RestartStep ==
  ASSUME IInv, Restart
  PROVE  IInv'
<1>1. cache' = EmptyCache /\ Abandoned(Clients) /\ UNCHANGED <<life, gone>>
  BY DEF Restart
<1>2. DOMAIN cache' = {}
  BY <1>1 DEF EmptyCache
<1>3. CacheInv'
  BY <1>2, FS_EmptySet, CacheAssumption DEF CacheInv, CacheWell
<1> QED BY <1>1, <1>3, AbandonedKeeps, IndexKept DEF IInv

LEMMA FailStep ==
  ASSUME IInv, NEW c \in Clients, Fail(c)
  PROVE  IInv'
<1>1. Abandoned({c}) /\ UNCHANGED <<life, cache, gone>>
  BY DEF Fail
<1> QED BY <1>1, AbandonedKeeps, IndexKept, CacheKept DEF IInv, CacheInv

(* A document that leaves the rows has just gone.                                *)
LEMMA WriteStep ==
  ASSUME IInv, NEW d \in Writable, WriteDocument(d)
  PROVE  IInv'
<1>1. /\ WriteOnly(d) /\ UNCHANGED <<cache, tq, gone>>
      /\ req' = [c \in Clients |-> IF c \in Reading THEN [req[c] EXCEPT !.calm = FALSE] ELSE req[c]]
  BY DEF WriteDocument
<1>2. d \in Docs /\ life \in [Docs -> Life]
  BY IndexAssumption DEF IInv, IndexInv
<1>3. PICK to \in Life :
        /\ life' = [life EXCEPT ![d] = to]
        /\ d \in Gone => to \in {"purged", "orphaned"}
  BY <1>1, <1>2 DEF WriteOnly, Write, CutChunks, UpsertVectors, DropVectors, PurgeRow, Becomes, Gone
<1>4. life' \in [Docs -> Life]
  BY <1>2, <1>3
<1>5. \A x \in Docs : (x \in Rows => x \in Rows' \/ gone[x] = 0) /\ (x \in Gone => x \in Gone')
  BY <1>2, <1>3 DEF Rows, Gone, Life, IInv, IndexInv
<1>6. IndexInv'
  BY <1>1, <1>4, <1>5 DEF IInv, IndexInv
<1>7. ASSUME NEW S \in SUBSET Docs, NEW n \in Nat, Remembered(S, n)
      PROVE  Remembered(S, n)'
  BY <1>1, <1>5, <1>7 DEF Remembered
<1>8. CacheInv'
  <2>1. CacheWell(cache) /\ Cardinality(DOMAIN cache) <= CacheMax
    BY DEF IInv, CacheInv
  <2>2. ASSUME NEW k, NEW e, EntryInv(k, e)
        PROVE  EntryInv(k, e)'
    <3>1. e.answer \in SUBSET Docs /\ MaxDuration + e.age \in Nat
      BY <2>2, CacheAssumption, EngineAssumption DEF EntryInv
    <3>2. Remembered(e.answer, MaxDuration + e.age)'
      BY <1>7, <2>2, <3>1 DEF EntryInv
    <3> QED BY <2>2, <3>2 DEF EntryInv
  <2> QED BY <1>1, <2>1, <2>2 DEF CacheInv, CacheWell
<1>9. RequestInv'
  <2>1. req' \in [Clients -> Requests]
    <3>1. \A r \in Requests : [r EXCEPT !.calm = FALSE] \in Requests
      BY DEF Requests
    <3> QED BY <1>1, <3>1 DEF IInv, RequestInv
  <2>2. ASSUME NEW c \in Clients
        PROVE  Good(req[c])'
    <3> DEFINE r == req[c]
               n == req'[c]
    <3>1. /\ r \in Requests /\ Good(r)
      BY DEF IInv, RequestInv
    <3>2. /\ n.q = r.q /\ n.lex = r.lex /\ n.vec = r.vec /\ n.found = r.found /\ n.age = r.age /\ n.pc = r.pc
      BY <1>1, <3>1 DEF Requests
    <3>3. r.lex \in SUBSET Docs /\ r.found \in SUBSET Docs /\ r.age \in Nat
      BY <3>1, EngineAssumption DEF Requests
    <3>4. Remembered(r.lex, r.age) /\ Remembered(r.found, r.age)
      BY <3>1 DEF Good
    <3> HIDE DEF n, r
    <3>5. \A x \in r.lex \cup r.found : x \in Rows' \/ gone'[x] <= r.age
      BY <1>1, <1>5, <3>3, <3>4 DEF Remembered
    <3>6. /\ n.lex \subseteq Scope(n.q) /\ n.vec \subseteq Scope(n.q)
          /\ n.found \subseteq Scope(n.q) /\ Cardinality(n.found) <= n.q.top_k
          /\ Mode(n.q) = "lexical_only" => n.pc # "vectors" /\ n.vec = {}
          /\ n.pc = "idle" => n.lex = {} /\ n.found = {}
          /\ \A x \in n.lex : x \in Rows' \/ gone'[x] <= n.age
          /\ \A x \in n.found : x \in Rows' \/ gone'[x] <= n.age
      BY <3>1, <3>2, <3>5 DEF Good
    <3> QED BY <3>6 DEF Good, Remembered, n
  <2> QED BY <2>1, <2>2 DEF RequestInv
<1>10. QueryInv'
  BY <1>1 DEF IInv, QueryInv, Sound
<1> QED BY <1>6, <1>8, <1>9, <1>10 DEF IInv

(* A tick: what is remembered for n ticks is remembered for n + 1 afterwards.     *)
StillRemembered(S, n) == \A d \in S : d \in Rows' \/ gone'[d] <= n

LEMMA TickRemembers ==
  ASSUME IndexInv, Tick
  PROVE  /\ IndexInv'
         /\ \A S \in SUBSET Docs, n \in Nat : Remembered(S, n) => StillRemembered(S, n + 1)
         /\ \A S \in SUBSET Docs, n \in Nat : n >= GoneCap => StillRemembered(S, n)
<1>1. /\ UNCHANGED life
      /\ gone' = [d \in Docs |-> IF d \in Gone /\ gone[d] < GoneCap THEN gone[d] + 1 ELSE gone[d]]
  BY DEF Tick
<1>2. Rows' = Rows /\ Gone' = Gone
  BY <1>1 DEF Rows, Gone
<1>3. \A d \in Docs : gone[d] \in 0 .. GoneCap
  BY DEF IndexInv
<1>4. \A d \in Docs : gone'[d] \in 0 .. GoneCap /\ gone'[d] <= gone[d] + 1
  BY <1>1, <1>3, GoneCapType
<1>5. IndexInv'
  <2>1. gone' \in [Docs -> 0 .. GoneCap]
    BY <1>1, <1>4
  <2>2. \A d \in Docs \ Gone : gone'[d] = 0
    BY <1>1 DEF IndexInv
  <2> QED BY <1>1, <1>2, <2>1, <2>2 DEF IndexInv
<1>6. ASSUME NEW S \in SUBSET Docs, NEW n \in Nat, Remembered(S, n)
      PROVE  StillRemembered(S, n + 1)
  BY <1>2, <1>3, <1>4, <1>6 DEF Remembered, StillRemembered
<1>7. ASSUME NEW S \in SUBSET Docs, NEW n \in Nat, n >= GoneCap
      PROVE  StillRemembered(S, n)
  BY <1>4, <1>7, GoneCapType DEF StillRemembered
<1> QED BY <1>5, <1>6, <1>7

LEMMA TickStep ==
  ASSUME IInv, Tick
  PROVE  IInv'
<1>1. /\ IndexInv'
      /\ \A S \in SUBSET Docs, n \in Nat : Remembered(S, n) => StillRemembered(S, n + 1)
      /\ \A S \in SUBSET Docs, n \in Nat : n >= GoneCap => StillRemembered(S, n)
  BY TickRemembers DEF IInv
<1>2. CacheInv'
  <2>1. cache' = CacheAged(cache) /\ DOMAIN cache' = DOMAIN cache
    BY DEF Tick, CacheAged
  <2>2. ASSUME NEW k \in DOMAIN cache
        PROVE  EntryInv(k, cache[k])'
    <3>1. EntryInv(k, cache[k]) /\ CacheTtl \in Nat \ {0}
      BY CacheAssumption DEF IInv, CacheInv, CacheWell
    <3> DEFINE e == cache[k]
               n == cache'[k]
    <3>2. e \in [age : 0 .. CacheTtl, answer : SUBSET Docs]
      BY <3>1 DEF EntryInv
    <3>3. n = [e EXCEPT !.age = IF @ < CacheTtl THEN @ + 1 ELSE @]
      BY <2>1 DEF CacheAged
    <3>4. /\ n.answer = e.answer /\ n.age = IF e.age < CacheTtl THEN e.age + 1 ELSE e.age
          /\ n \in [age : 0 .. CacheTtl, answer : SUBSET Docs]
      BY <3>1, <3>2, <3>3
    <3>5. Remembered(e.answer, MaxDuration + e.age)
      BY <3>1 DEF EntryInv
    <3>6. \A q \in Questions : CacheKey(q) = k =>
            e.answer \subseteq Scope(q) /\ Cardinality(e.answer) <= q.top_k
      BY <3>1 DEF EntryInv
    <3> HIDE DEF e, n
    <3>7. StillRemembered(e.answer, MaxDuration + n.age)
      <4>0. e.answer \in SUBSET Docs /\ e.age \in Nat /\ MaxDuration + e.age \in Nat
        BY <3>2, EngineAssumption
      <4>1. CASE e.age < CacheTtl
        <5>1. StillRemembered(e.answer, (MaxDuration + e.age) + 1)
          BY <1>1, <3>5, <4>0
        <5>2. (MaxDuration + e.age) + 1 = MaxDuration + n.age
          BY <3>4, <4>0, <4>1, EngineAssumption
        <5> QED BY <5>1, <5>2
      <4>2. CASE ~(e.age < CacheTtl)
        <5>1. MaxDuration + e.age >= GoneCap
          BY <3>1, <3>2, <4>2, GoneCapType, EngineAssumption
        <5> QED BY <1>1, <3>4, <4>0, <4>2, <5>1
      <4> QED BY <4>1, <4>2
    <3>8. /\ n \in [age : 0 .. CacheTtl, answer : SUBSET Docs]
          /\ \A q \in Questions : CacheKey(q) = k =>
               n.answer \subseteq Scope(q) /\ Cardinality(n.answer) <= q.top_k
          /\ \A d \in n.answer : d \in Rows' \/ gone'[d] <= MaxDuration + n.age
      BY <3>4, <3>6, <3>7 DEF StillRemembered
    <3> QED BY <3>8 DEF EntryInv, Remembered, n
  <2> QED BY <2>1, <2>2 DEF IInv, CacheInv, CacheWell
<1>3. RequestInv'
  <2>1. req' = [c \in Clients |-> IF c \in Pending THEN [req[c] EXCEPT !.age = @ + 1] ELSE req[c]]
    BY DEF Tick
  <2>2. ASSUME NEW c \in Clients
        PROVE  req'[c] \in Requests /\ Good(req[c])'
    <3> DEFINE r == req[c]
               n == req'[c]
    <3>1. r \in Requests /\ Good(r)
      BY DEF IInv, RequestInv
    <3>2. CASE c \in Pending
      <4>1. n = [r EXCEPT !.age = @ + 1]
        BY <2>1, <3>2
      <4>2. r.age < MaxDuration /\ r.age \in Nat
        BY <3>1, <3>2, EngineAssumption DEF Tick, Requests
      <4>3. r.lex \in SUBSET Docs /\ r.found \in SUBSET Docs
        BY <3>1 DEF Requests
      <4> HIDE DEF r, n
      <4>4. /\ n \in Requests /\ n.q = r.q /\ n.lex = r.lex /\ n.vec = r.vec /\ n.found = r.found
            /\ n.age = r.age + 1 /\ n.pc = r.pc
        BY <3>1, <4>1, <4>2, EngineAssumption DEF Requests
      <4>5. StillRemembered(r.lex, r.age + 1) /\ StillRemembered(r.found, r.age + 1)
        BY <1>1, <3>1, <4>2, <4>3 DEF Good
      <4>6. /\ n.lex \subseteq Scope(n.q) /\ n.vec \subseteq Scope(n.q)
            /\ n.found \subseteq Scope(n.q) /\ Cardinality(n.found) <= n.q.top_k
            /\ Mode(n.q) = "lexical_only" => n.pc # "vectors" /\ n.vec = {}
            /\ n.pc = "idle" => n.lex = {} /\ n.found = {}
            /\ \A x \in n.lex : x \in Rows' \/ gone'[x] <= n.age
            /\ \A x \in n.found : x \in Rows' \/ gone'[x] <= n.age
        BY <3>1, <4>4, <4>5 DEF Good, StillRemembered
      <4> QED BY <4>4, <4>6 DEF Good, Remembered, n
    <3>3. CASE c \notin Pending
      <4>1. req'[c] = req[c] /\ req[c].pc = "idle"
        BY <2>1, <3>3 DEF Pending
      <4>2. req[c].lex = {} /\ req[c].found = {}
        BY <3>1, <4>1 DEF Good
      <4> QED BY <3>1, <4>1, <4>2 DEF Good, Remembered
    <3> QED BY <3>2, <3>3
  <2>3. req' \in [Clients -> Requests]
    BY <2>1, <2>2
  <2> QED BY <2>2, <2>3 DEF RequestInv
<1>4. QueryInv'
  BY DEF Tick, IInv, QueryInv, Sound
<1> QED BY <1>1, <1>2, <1>3, <1>4 DEF IInv

-----------------------------------------------------------------------------
(* The invariant holds at the beginning, and every step keeps it.                *)
LEMMA InitInv == Init => IInv
<1> SUFFICES ASSUME Init PROVE IInv
  OBVIOUS
<1>1. IndexInv
  BY IndexAssumption, GoneCapType DEF Init, IndexInv, Gone
<1>2. CacheInv
  <2>1. DOMAIN cache = {}
    BY DEF Init, EmptyCache
  <2> QED BY <2>1, FS_EmptySet, CacheAssumption DEF CacheInv, CacheWell
<1>3. RequestInv
  BY IdleGood DEF Init, RequestInv
<1>4. QueryInv
  <2>1. NoQuery \in Query /\ Sound(NoQuery)
    BY ReplyAssumption DEF NoQuery, Query, QuerySteps, Sound
  <2> QED BY <2>1 DEF Init, QueryInv
<1> QED BY <1>1, <1>2, <1>3, <1>4 DEF IInv

LEMMA StepInv == IInv /\ [Next]_vars => IInv'
<1> SUFFICES ASSUME IInv, [Next]_vars PROVE IInv'
  OBVIOUS
<1>1. ASSUME NEW c \in Clients, Step(c) PROVE IInv'
  BY <1>1, AskStep, ReadTextStep, ReadVectorsStep, FetchStep, EnrichStep, EnrichedStep, StoreStep DEF Step
<1>2. ASSUME NEW c \in Clients, Fail(c) PROVE IInv'
  BY <1>2, FailStep
<1>3. ASSUME NEW d \in Writable, WriteDocument(d) PROVE IInv'
  BY <1>3, WriteStep
<1>4. CASE Restart
  BY <1>4, RestartStep
<1>5. CASE Tick
  BY <1>5, TickStep
<1>6. CASE UNCHANGED vars
  <2>1. UNCHANGED <<life, cache, req, tq, gone>>
    BY <1>6 DEF vars
  <2>2. CacheInv'
    BY <2>1, CacheKept DEF IInv, CacheInv
  <2>3. RequestInv'
    BY <2>1 DEF IInv, RequestInv, Good, Remembered, Rows
  <2> QED BY <2>1, <2>2, <2>3, IndexKept DEF IInv, QueryInv
<1> QED BY <1>1, <1>2, <1>3, <1>4, <1>5, <1>6 DEF Next

THEOREM Invariance == Spec => []IInv
BY InitInv, StepInv, PTL DEF Spec

-----------------------------------------------------------------------------
(* Every variable has its type, and the cache never holds more than              *)
(* search_cache_max answers, all of them to questions that were asked:           *)
(* _cache_set evicts before it inserts.                                          *)
THEOREM SearchTypes == Spec => []TypeOK
<1>1. IInv => TypeOK
  BY DEF IInv, IndexInv, CacheInv, CacheWell, EntryInv, RequestInv, QueryInv, TypeOK
<1> QED BY <1>1, Invariance, PTL

(* tabular_engine.py runs no statement that _validate_sql has not passed,        *)
(* whatever the language model answers and however often it is asked.            *)
THEOREM OnlyReads == Spec => []OnlyReadsRun
<1>1. IInv => OnlyReadsRun
  BY DEF IInv, QueryInv, Sound, OnlyReadsRun
<1> QED BY <1>1, Invariance, PTL

(* An answer from the cache or computed now is within the document_id and the    *)
(* top_k of the question that it is sent in answer to.                           *)
THEOREM AnswersFit == Spec => []AnswersTheQuestion
<1>1. IInv => AnswersTheQuestion
  <2> SUFFICES ASSUME IInv, NEW a \in Answers
               PROVE  a.found \subseteq Scope(a.q) /\ Cardinality(a.found) <= a.q.top_k
    BY DEF AnswersTheQuestion
  <2>1. CASE \E q \in Questions : IsFresh(cache, CacheKey(q))
                 /\ a = [q |-> q, found |-> cache[CacheKey(q)].answer]
    BY <2>1 DEF IsFresh, IInv, CacheInv, CacheWell, EntryInv
  <2>2. CASE \E c \in Clients : a = [q |-> req[c].q, found |-> req[c].found]
    BY <2>2 DEF IInv, RequestInv, Good
  <2> QED BY <2>1, <2>2 DEF Answers
<1> QED BY <1>1, Invariance, PTL

(* However searches, purges, cache writes and the clock interleave, no answer    *)
(* names a document that went a search and a search_cache_ttl ago.               *)
THEOREM DeletedForgotten == Spec => []DeletedIsForgotten
<1>1. IInv => DeletedIsForgotten
  <2> SUFFICES ASSUME IInv, NEW a \in Answers, NEW d \in a.found
               PROVE  d \in Rows \/ gone[d] < GoneCap
    BY DEF DeletedIsForgotten
  <2>0. \A x \in Docs : gone[x] \in Nat
    BY GoneCapType DEF IInv, IndexInv
  <2>1. CASE \E q \in Questions : IsFresh(cache, CacheKey(q))
                 /\ a = [q |-> q, found |-> cache[CacheKey(q)].answer]
    <3>1. PICK q \in Questions : IsFresh(cache, CacheKey(q))
                 /\ a = [q |-> q, found |-> cache[CacheKey(q)].answer]
      BY <2>1
    <3> DEFINE e == cache[CacheKey(q)]
    <3>2. /\ EntryInv(CacheKey(q), e) /\ e.age < CacheTtl /\ CacheTtl > 0
          /\ d \in e.answer
      BY <3>1 DEF IsFresh, IInv, CacheInv, CacheWell
    <3>3. /\ e.age \in Nat /\ d \in Docs
          /\ d \in Rows \/ gone[d] <= MaxDuration + e.age
      BY <3>2, CacheAssumption DEF EntryInv, Remembered
    <3> HIDE DEF e
    <3> QED BY <2>0, <3>2, <3>3, GoneCapType, CacheAssumption, EngineAssumption
  <2>2. CASE \E c \in Clients : a = [q |-> req[c].q, found |-> req[c].found]
    <3>1. PICK c \in Clients : a = [q |-> req[c].q, found |-> req[c].found]
      BY <2>2
    <3>2. /\ req[c].age \in 0 .. MaxDuration /\ d \in Docs
          /\ d \in Rows \/ gone[d] <= req[c].age
      BY <3>1 DEF IInv, RequestInv, Requests, Good, Remembered
    <3> QED BY <2>0, <3>2, GoneCapType, EngineAssumption
  <2> QED BY <2>1, <2>2 DEF Answers
<1> QED BY <1>1, Invariance, PTL

-----------------------------------------------------------------------------
(* What a search has read agrees with the index as it is, as long as no          *)
(* document was written since it began: T is the best n of S by the scores f.    *)
TopOf(T, S, n, f) ==
  /\ T \in kSubset(IF Cardinality(S) < n THEN Cardinality(S) ELSE n, S)
  /\ \A x \in T, y \in S \ T : f[x] >= f[y]

(* What is named of T: the documents with rows that score enough.                *)
Named(T, s, least) == {d \in T \cap Rows : least > 0 => s[d] >= least}

(* The passes behind a text search found nothing; what it has kept is the best   *)
(* of the first pass that finds anything, and of the vectors.                    *)
UpToDate(r) ==
  /\ r.pc = "text" => /\ Mode(r.q) # "vector_only" /\ r.vec = {}
                      /\ \A p \in 1 .. r.pass - 1 : Rows \cap Matches[p] \cap Scope(r.q) = {}
  /\ r.pc = "vectors" => Mode(r.q) # "lexical_only"
  /\ r.pc \in {"vectors", "fetch"} => TopOf(r.lex, AllTexts(r.q), Depth(r.q), LRank)
  /\ r.pc = "fetch" => TopOf(r.vec, AllVectors(r.q), Depth(r.q), VScore)

CalmInv == \A c \in Clients : req[c].calm => UpToDate(req[c])

(* The best of nothing is nothing.                                               *)
LEMMA TopOfNone ==
  ASSUME NEW n \in Nat, NEW f
  PROVE  TopOf({}, {}, n, f)
BY FS_EmptySet DEF TopOf, kSubset

(* The best of a set that is no larger than the limit is all of it.              *)
LEMMA TopOfWhole ==
  ASSUME NEW S \in SUBSET Docs, NEW n \in Nat, Cardinality(S) <= n, NEW f,
         NEW T, TopOf(T, S, n, f)
  PROVE  T = S
<1>1. IsFiniteSet(S) /\ Cardinality(S) \in Nat
  BY DocsFinite
<1>2. T \in SUBSET S /\ Cardinality(T) = Cardinality(S)
  BY <1>1 DEF TopOf, kSubset
<1> QED BY <1>1, <1>2, FS_Subset

(* Taking the best a second time, by the same scores and to the same limit,      *)
(* leaves out nothing.                                                           *)
LEMMA TopOfTop ==
  ASSUME NEW S \in SUBSET Docs, NEW n \in Nat, NEW f, NEW g,
         NEW T, TopOf(T, S, n, f), NEW U, TopOf(U, T, n, g)
  PROVE  U = T
<1>1. T \in SUBSET Docs /\ Cardinality(T) <= n
  <2>1. T \subseteq S /\ Cardinality(T) <= n
    BY BestIsPart DEF TopOf
  <2> QED BY <2>1
<1> QED BY <1>1, TopOfWhole

(* Something was left out only if the limit was reached.                         *)
LEMMA LeftOutFull ==
  ASSUME NEW S \in SUBSET Docs, NEW n \in Nat, NEW f, NEW T, TopOf(T, S, n, f), NEW m \in S \ T
  PROVE  Cardinality(T) = n
<1>1. IsFiniteSet(S) /\ Cardinality(S) \in Nat
  BY DocsFinite
<1>2. T \in SUBSET S /\ Cardinality(T) = (IF Cardinality(S) < n THEN Cardinality(S) ELSE n)
  BY DEF TopOf, kSubset
<1>3. Cardinality(T) # Cardinality(S)
  BY <1>1, <1>2, FS_Subset
<1> QED BY <1>1, <1>2, <1>3

(* A hit with a row that is missing from the answer, though its score would do,  *)
(* scores no more than what is there, and the answer is full but for the hits    *)
(* whose rows are gone.                                                          *)
LEMMA MissedIsNoBetter ==
  ASSUME NEW H \in SUBSET Docs, NEW n \in Nat, NEW s \in [Docs -> Nat], NEW least \in Nat,
         NEW T, TopOf(T, H, n, s),
         NEW found, found = Named(T, s, least),
         NEW m \in (H \cap Rows) \ found, s[m] >= least
  PROVE  /\ \A d \in found : s[m] <= s[d]
         /\ Cardinality(found) + Cardinality(H \ Rows) >= n
<1>1. T \subseteq H /\ \A x \in T, y \in H \ T : s[x] >= s[y]
  BY DEF TopOf, kSubset
<1>2. m \in H \ T
  BY DEF Named
<1>3. \A d \in T : s[d] \in Nat /\ s[m] \in Nat /\ s[m] <= s[d] /\ s[d] >= least
  <2> TAKE d \in T
  <2>1. d \in Docs /\ m \in Docs /\ s[d] >= s[m]
    BY <1>1, <1>2
  <2>2. s[d] \in Nat /\ s[m] \in Nat
    BY <2>1
  <2> QED BY <2>1, <2>2
<1>4. found = T \cap Rows
  BY <1>3 DEF Named
<1>5. Cardinality(T) = n
  BY <1>2, LeftOutFull
<1>6. Cardinality(T \cap Rows) + Cardinality(H \ Rows) >= n
  <2>1. T \in SUBSET Docs /\ H \ Rows \in SUBSET Docs /\ T \cap Rows \in SUBSET Docs
    BY <1>1
  <2>2. IsFiniteSet(T) /\ IsFiniteSet(H \ Rows) /\ Cardinality(H \ Rows) \in Nat
        /\ Cardinality(T \cap Rows) \in Nat
    BY <2>1, DocsFinite
  <2>3. Cardinality(T \ Rows) = Cardinality(T) - Cardinality(T \cap Rows)
    BY <2>2, FS_Difference
  <2>4. T \ Rows \in SUBSET (H \ Rows)
    BY <1>1
  <2>5. Cardinality(T \ Rows) <= Cardinality(H \ Rows)
    BY <2>2, <2>4, FS_Subset
  <2> QED BY <1>5, <2>2, <2>3, <2>5
<1> QED BY <1>3, <1>4, <1>6

-----------------------------------------------------------------------------
(* What the index holds for a question are documents.                            *)
LEMMA AllAreDocs == \A q : AllTexts(q) \in SUBSET Docs /\ AllVectors(q) \in SUBSET Docs
BY DEF AllTexts, AllVectors, Rows, Vectors

(* The pass that finds something after those that found nothing is the first;    *)
(* when none does, the last counts.                                              *)
LEMMA FirstPassIs ==
  ASSUME NEW q, NEW p \in 1 .. 3,
         \A x \in 1 .. p - 1 : Rows \cap Matches[x] \cap Scope(q) = {},
         Rows \cap Matches[p] \cap Scope(q) # {} \/ p = 3
  PROVE  FirstPass(q) = p
<1> DEFINE hits == {x \in 1 .. 3 : Rows \cap Matches[x] \cap Scope(q) # {}}
<1>1. \A x \in hits : x \in 1 .. 3 /\ x >= p
  OBVIOUS
<1>2. p \in hits \/ (p = 3 /\ hits = {})
  BY <1>1
<1>3. FirstPass(q) = IF hits = {} THEN 3 ELSE CHOOSE x \in hits : \A y \in hits : x =< y
  BY DEF FirstPass, Min
<1> HIDE DEF hits
<1>4. CASE p \in hits
  <2>1. \A y \in hits : p =< y
    BY <1>1
  <2>2. \A x \in hits : (\A y \in hits : x =< y) => x = p
    <3> SUFFICES ASSUME NEW x \in hits, \A y \in hits : x =< y PROVE x = p
      OBVIOUS
    <3>1. x =< p
      BY <1>4
    <3>2. x >= p /\ x \in 1 .. 3 /\ p \in 1 .. 3
      BY <1>1
    <3> QED BY <3>1, <3>2
  <2>3. (CHOOSE x \in hits : \A y \in hits : x =< y) = p
    BY <1>4, <2>1, <2>2
  <2> QED BY <1>3, <1>4, <2>3
<1> QED BY <1>2, <1>3, <1>4

(* While the index stays as it is, so does what is up to date.                   *)
LEMMA StillUpToDate ==
  ASSUME UNCHANGED life, \A x \in Clients : req'[x].calm => UpToDate(req'[x])
  PROVE  CalmInv'
<1>1. Rows' = Rows /\ Vectors' = Vectors
  BY DEF Rows, Vectors
<1>2. \A q : FirstPass(q)' = FirstPass(q)
  BY <1>1 DEF FirstPass
<1>3. \A q : AllTexts(q)' = AllTexts(q) /\ AllVectors(q)' = AllVectors(q)
  BY <1>1, <1>2 DEF AllTexts, AllVectors
<1> QED BY <1>1, <1>3 DEF CalmInv, UpToDate

(* A step that leaves the documents alone, and the others' requests.             *)
LEMMA CalmKept ==
  ASSUME RequestInv, CalmInv, NEW c \in Clients, NEW r, SetReq(c, r), UNCHANGED life,
         r.calm => UpToDate(r)
  PROVE  CalmInv'
<1>1. \A x \in Clients : req'[x] = IF x = c THEN r ELSE req[x]
  BY DEF RequestInv, SetReq
<1>2. \A x \in Clients : req'[x].calm => UpToDate(req'[x])
  BY <1>1 DEF CalmInv
<1> QED BY <1>2, StillUpToDate

(* Nothing is claimed of a request that is not reading.                          *)
LEMMA NotReading ==
  ASSUME NEW r, r.pc \notin {"text", "vectors", "fetch"}
  PROVE  UpToDate(r)
BY DEF UpToDate

(* A search begins with nothing read, in the current state of the index.        *)
LEMMA AskCalm ==
  ASSUME IInv, CalmInv, NEW c \in Clients, Ask(c)
  PROVE  CalmInv'
<1>1. PICK q \in Questions :
        SetReq(c, IF IsFresh(cache, CacheKey(q)) THEN Idle
                  ELSE [Asked(q) EXCEPT !.pc = IF Mode(q) = "vector_only" THEN "vectors" ELSE "text"])
  BY DEF Ask
<1> DEFINE r == [Asked(q) EXCEPT !.pc = IF Mode(q) = "vector_only" THEN "vectors" ELSE "text"]
<1>2. /\ r.q = q /\ r.lex = {} /\ r.vec = {} /\ r.pass = 1
      /\ r.pc = IF Mode(q) = "vector_only" THEN "vectors" ELSE "text"
  BY DEF Asked, Idle
<1> HIDE DEF r
<1>3. Mode(q) = "vector_only" => AllTexts(q) = {}
  BY DEF AllTexts
<1>4. Depth(q) \in Nat
  BY QuestionType
<1>5. UpToDate(r)
  BY <1>2, <1>3, <1>4, TopOfNone DEF UpToDate
<1>6. UpToDate(Idle)
  BY NotReading DEF Idle
<1>7. UNCHANGED life /\ RequestInv
  BY DEF Ask, IInv
<1>8. CASE SetReq(c, Idle)
  BY <1>6, <1>7, <1>8, CalmKept
<1>9. CASE SetReq(c, r)
  BY <1>5, <1>7, <1>9, CalmKept
<1> QED BY <1>1, <1>8, <1>9 DEF r

(* The last pass made, or the first that finds something, is the one that counts. *)
LEMMA ReadTextCalm ==
  ASSUME IInv, CalmInv, NEW c \in Clients, ReadText(c)
  PROVE  CalmInv'
<1> DEFINE r == req[c]
           H == Rows \cap Matches[r.pass] \cap Scope(r.q)
<1>1. /\ r \in Requests /\ r.q \in Questions /\ r.pass \in 1 .. 3 /\ Good(r) /\ r.pc = "text"
      /\ RequestInv /\ UNCHANGED life
  BY DEF IInv, RequestInv, Requests, ReadText
<1>2. PICK S \in kSubset(IF Cardinality(H) < Depth(r.q) THEN Cardinality(H) ELSE Depth(r.q), H) :
        /\ \A x \in S, y \in H \ S : LRank[x] >= LRank[y]
        /\ IF S = {} /\ r.pass < 3
           THEN SetReq(c, [r EXCEPT !.pass = @ + 1])
           ELSE SetReq(c, [r EXCEPT !.lex = S, !.pc = IF Mode(r.q) = "hybrid" THEN "vectors" ELSE "fetch"])
  BY DEF ReadText, Best
<1>3. H \in SUBSET Docs /\ Depth(r.q) \in Nat \ {0} /\ Mode(r.q) \in Modes
  BY <1>1, QuestionType DEF Rows, Depth
<1>4. TopOf(S, H, Depth(r.q), LRank)
  BY <1>2 DEF TopOf
<1>5. S = {} => H = {}
  <2>1. IsFiniteSet(H) /\ Cardinality(H) \in Nat
    BY <1>3, DocsFinite
  <2>2. SUFFICES ASSUME S = {} PROVE Cardinality(H) = 0
    BY <2>1, FS_EmptySet
  <2>3. Cardinality(S) = 0
    BY <2>2, FS_EmptySet
  <2> HIDE DEF H
  <2> QED BY <1>3, <2>1, <2>3 DEF kSubset
<1>6. r.calm => /\ Mode(r.q) # "vector_only" /\ r.vec = {}
                /\ \A p \in 1 .. r.pass - 1 : Rows \cap Matches[p] \cap Scope(r.q) = {}
  BY <1>1 DEF CalmInv, UpToDate
<1>7. CASE S = {} /\ r.pass < 3
  <2> DEFINE n == [r EXCEPT !.pass = @ + 1]
  <2>1. SetReq(c, n)
    BY <1>2, <1>7
  <2>2. /\ n.q = r.q /\ n.vec = r.vec /\ n.calm = r.calm /\ n.pc = "text" /\ n.pass = r.pass + 1
    BY <1>1 DEF Requests
  <2> HIDE DEF n
  <2>3. r.calm => \A p \in 1 .. n.pass - 1 : Rows \cap Matches[p] \cap Scope(r.q) = {}
    <3> SUFFICES ASSUME r.calm, NEW p \in 1 .. n.pass - 1
                 PROVE  Rows \cap Matches[p] \cap Scope(r.q) = {}
      OBVIOUS
    <3>1. p \in 1 .. r.pass - 1 \/ p = r.pass
      BY <1>1, <2>2
    <3> QED BY <1>5, <1>6, <1>7, <3>1
  <2>4. n.calm => UpToDate(n)
    BY <1>6, <2>2, <2>3 DEF UpToDate
  <2> QED BY <1>1, <2>1, <2>4, CalmKept
<1>8. CASE ~(S = {} /\ r.pass < 3)
  <2> DEFINE n == [r EXCEPT !.lex = S, !.pc = IF Mode(r.q) = "hybrid" THEN "vectors" ELSE "fetch"]
  <2>1. SetReq(c, n)
    BY <1>2, <1>8
  <2>2. /\ n.q = r.q /\ n.vec = r.vec /\ n.lex = S /\ n.calm = r.calm
        /\ n.pc = IF Mode(r.q) = "hybrid" THEN "vectors" ELSE "fetch"
    BY <1>1 DEF Requests
  <2> HIDE DEF n
  <2>3. r.calm => AllTexts(r.q) = H
    <3>1. H # {} \/ r.pass = 3
      <4>1. S # {} => H # {}
        BY <1>2 DEF kSubset
      <4> QED BY <1>1, <1>8, <4>1
    <3>2. r.calm => FirstPass(r.q) = r.pass
      BY <1>1, <1>6, <3>1, FirstPassIs
    <3> QED BY <1>6, <3>2 DEF AllTexts
  <2>4. n.pc = "fetch" /\ r.calm => AllVectors(r.q) = {}
    BY <1>3, <1>6, <2>2 DEF AllVectors, Modes
  <2> HIDE DEF H
  <2>5. n.pc = "fetch" /\ r.calm => TopOf(n.vec, AllVectors(r.q), Depth(r.q), VScore)
    BY <1>3, <1>6, <2>2, <2>4, TopOfNone
  <2>6. n.calm => UpToDate(n)
    BY <1>4, <2>2, <2>3, <2>5 DEF UpToDate
  <2> QED BY <1>1, <2>1, <2>6, CalmKept
<1> QED BY <1>7, <1>8

(* The vectors complete what the text search has read.                          *)
LEMMA ReadVectorsCalm ==
  ASSUME IInv, CalmInv, NEW c \in Clients, ReadVectors(c)
  PROVE  CalmInv'
<1> DEFINE r == req[c]
           H == Vectors \cap Scope(r.q)
<1>1. /\ r \in Requests /\ r.pc = "vectors" /\ RequestInv /\ UNCHANGED life
  BY DEF IInv, RequestInv, Requests, ReadVectors
<1>2. PICK S \in kSubset(IF Cardinality(H) < Depth(r.q) THEN Cardinality(H) ELSE Depth(r.q), H) :
        /\ \A x \in S, y \in H \ S : VScore[x] >= VScore[y]
        /\ SetReq(c, [r EXCEPT !.vec = S, !.pc = "fetch"])
  BY DEF ReadVectors, Best
<1>3. TopOf(S, H, Depth(r.q), VScore)
  BY <1>2 DEF TopOf
<1>4. r.calm => AllVectors(r.q) = H /\ TopOf(r.lex, AllTexts(r.q), Depth(r.q), LRank)
  BY <1>1 DEF CalmInv, UpToDate, AllVectors
<1> HIDE DEF H
<1> DEFINE n == [r EXCEPT !.vec = S, !.pc = "fetch"]
<1>5. /\ n.q = r.q /\ n.vec = S /\ n.lex = r.lex /\ n.calm = r.calm /\ n.pc = "fetch"
  BY <1>1 DEF Requests
<1>6. SetReq(c, n)
  BY <1>2
<1> HIDE DEF n
<1>7. n.calm => UpToDate(n)
  BY <1>3, <1>4, <1>5 DEF UpToDate
<1> QED BY <1>1, <1>6, <1>7, CalmKept

(* The steps after the last read end the reading of one request, or of several.  *)
LEMMA LaterCalm ==
  ASSUME IInv, CalmInv, UNCHANGED life,
         \A x \in Clients : \/ req'[x] = req[x]
                            \/ req'[x].pc \notin {"text", "vectors", "fetch"}
  PROVE  CalmInv'
<1>1. \A x \in Clients : req'[x].calm => UpToDate(req'[x])
  BY NotReading DEF CalmInv
<1> QED BY <1>1, StillUpToDate

(* No step of a search lets what it has read fall behind.                       *)
LEMMA StepCalm ==
  ASSUME IInv, CalmInv, NEW c \in Clients, Step(c)
  PROVE  CalmInv'
<1>1. req \in [Clients -> Requests]
  BY DEF IInv, RequestInv
<1>2. CASE Fetch(c)
  <2>1. PICK f : SetReq(c, [Asked(req[c].q) EXCEPT !.pc = "enrich", !.found = f, !.age = req[c].age])
    BY <1>2 DEF Fetch
  <2>2. \A x \in Clients : req'[x] = req[x] \/ req'[x].pc = "enrich"
    BY <1>1, <2>1 DEF SetReq, Asked, Idle
  <2> QED BY <1>2, <2>2, LaterCalm DEF Fetch
<1>3. CASE Enrich(c)
  BY <1>3, LaterCalm DEF Enrich
<1>4. CASE Enriched(c)
  <2>1. \A x \in Clients : req'[x] = req[x] \/ req'[x].pc = "store"
    BY <1>1, <1>4 DEF Enriched, SetReq, Requests
  <2> QED BY <1>4, <2>1, LaterCalm DEF Enriched
<1>5. CASE Store(c)
  <2>1. \A x \in Clients : req'[x] = req[x] \/ req'[x].pc = "idle"
    BY <1>1, <1>5 DEF Store, SetReq, Idle
  <2> QED BY <1>5, <2>1, LaterCalm DEF Store
<1> QED BY <1>2, <1>3, <1>4, <1>5, AskCalm, ReadTextCalm, ReadVectorsCalm DEF Step

(* Requests given up claim nothing.                                              *)
LEMMA AbandonedCalm ==
  ASSUME IInv, CalmInv, NEW cs, Abandoned(cs), UNCHANGED life
  PROVE  CalmInv'
<1>1. \A x \in Clients : req'[x] = req[x] \/ req'[x].pc = "idle"
  BY DEF Abandoned, Idle
<1> QED BY <1>1, LaterCalm

(* Time changes only the ages.                                                 *)
LEMMA TickCalm ==
  ASSUME IInv, CalmInv, Tick
  PROVE  CalmInv'
<1>1. UNCHANGED life /\ req \in [Clients -> Requests]
  BY DEF Tick, IInv, RequestInv
<1>2. ASSUME NEW x \in Clients, req'[x].calm PROVE UpToDate(req'[x])
  <2>1. /\ req'[x].q = req[x].q /\ req'[x].pc = req[x].pc /\ req'[x].pass = req[x].pass
        /\ req'[x].lex = req[x].lex /\ req'[x].vec = req[x].vec /\ req'[x].calm = req[x].calm
    BY <1>1 DEF Tick, Requests
  <2>2. UpToDate(req[x])
    BY <1>2, <2>1 DEF CalmInv
  <2> QED BY <2>1, <2>2 DEF UpToDate
<1> QED BY <1>1, <1>2, StillUpToDate

(* A write takes the calm of every request that is still reading.                *)
LEMMA WriteCalm ==
  ASSUME IInv, CalmInv, NEW d, WriteDocument(d)
  PROVE  CalmInv'
<1>1. \A x \in Clients : req'[x].calm => req'[x].pc \notin {"text", "vectors", "fetch"}
  BY DEF WriteDocument, Reading, IInv, RequestInv, Requests
<1> QED BY <1>1 DEF CalmInv, UpToDate

(* At the beginning nothing is being read.                                      *)
LEMMA CalmInit == Init => CalmInv
<1> SUFFICES ASSUME Init, NEW c \in Clients PROVE UpToDate(req[c])
  BY DEF CalmInv
<1> QED BY NotReading DEF Init, Idle

(* Every step keeps what the undisturbed searches have read up to date.         *)
LEMMA CalmStep == IInv /\ CalmInv /\ [Next]_vars => CalmInv'
<1> SUFFICES ASSUME IInv, CalmInv, [Next]_vars PROVE CalmInv'
  OBVIOUS
<1>1. ASSUME NEW c \in Clients, Step(c) PROVE CalmInv'
  BY <1>1, StepCalm
<1>2. ASSUME NEW c \in Clients, Fail(c) PROVE CalmInv'
  BY <1>2, AbandonedCalm DEF Fail
<1>3. ASSUME NEW d \in Writable, WriteDocument(d) PROVE CalmInv'
  BY <1>3, WriteCalm
<1>4. CASE Restart
  BY <1>4, AbandonedCalm DEF Restart
<1>5. CASE Tick
  BY <1>5, TickCalm
<1>6. CASE UNCHANGED vars
  BY <1>6, LaterCalm DEF vars
<1> QED BY <1>1, <1>2, <1>3, <1>4, <1>5, <1>6 DEF Next

(* So it is always up to date, for searches with no write since they began.     *)
LEMMA CalmAlways == Spec => [](IInv /\ CalmInv)
<1>1. IInv /\ CalmInv /\ [Next]_vars => (IInv /\ CalmInv)'
  BY StepInv, CalmStep
<1> QED BY <1>1, InitInv, CalmInit, PTL DEF Spec

-----------------------------------------------------------------------------
(* Only its own Fetch takes a search from reading to what it found.              *)
LEMMA OnlyFetchEnds ==
  ASSUME IInv, [Next]_vars, NEW c \in Clients, req[c].pc = "fetch", req'[c].pc = "enrich"
  PROVE  Fetch(c)
<1>1. req \in [Clients -> Requests]
  BY DEF IInv, RequestInv
<1>2. ASSUME NEW x \in Clients, Step(x) PROVE Fetch(c)
  <2>1. \/ x = c
        \/ Enrich(x) \/ \E r : SetReq(x, r)
    BY <1>2 DEF Step, Ask, ReadText, ReadVectors, Fetch, Enriched, Store
  <2>2. x = c
    BY <1>1, <2>1 DEF SetReq, Enrich
  <2> QED BY <1>2, <2>2 DEF Step, Ask, ReadText, ReadVectors, Enrich, Enriched, Store
<1>3. ASSUME NEW x \in Clients, Fail(x) PROVE FALSE
  BY <1>3 DEF Fail, Abandoned, Idle
<1>4. ASSUME NEW d \in Writable, WriteDocument(d) PROVE FALSE
  BY <1>1, <1>4 DEF WriteDocument, Requests
<1>5. CASE Restart
  BY <1>5 DEF Restart, Abandoned, Idle
<1>6. CASE Tick
  BY <1>1, <1>6 DEF Tick, Requests
<1>7. CASE UNCHANGED vars
  BY <1>7 DEF vars
<1> QED BY <1>2, <1>3, <1>4, <1>5, <1>6, <1>7 DEF Next

(* What a calm search has read, by mode: everything a hybrid one is to know, and *)
(* from one source alone what is then the answer.                                *)
LEMMA CalmRead ==
  ASSUME IInv, CalmInv, NEW c \in Clients, req[c].pc = "fetch", req[c].calm,
         NEW L, L = AllTexts(req[c].q), NEW V, V = AllVectors(req[c].q)
  PROVE  LET q == req[c].q IN
         /\ Mode(q) = "hybrid" /\ Cardinality(L) <= Depth(q) /\ Cardinality(V) <= Depth(q) =>
              req[c].lex = L /\ req[c].vec = V
         /\ Mode(q) = "vector_only" => L = {} /\ req[c].lex = {} /\ TopOf(req[c].vec, V, q.top_k, VScore)
         /\ Mode(q) = "lexical_only" =>
              V = {} /\ req[c].vec = {} /\ L \subseteq Rows /\ TopOf(req[c].lex, L, q.top_k, LRank)
<1> DEFINE q == req[c].q
<1>1. q \in Questions /\ Depth(q) \in Nat /\ L \in SUBSET Docs /\ V \in SUBSET Docs
  BY QuestionType, AllAreDocs DEF IInv, RequestInv, Requests
<1>2. TopOf(req[c].lex, L, Depth(q), LRank) /\ TopOf(req[c].vec, V, Depth(q), VScore)
  BY DEF CalmInv, UpToDate
<1>3. Mode(q) = "hybrid" /\ Cardinality(L) <= Depth(q) /\ Cardinality(V) <= Depth(q) =>
         req[c].lex = L /\ req[c].vec = V
  BY <1>1, <1>2, TopOfWhole
<1>4. \A T, f : TopOf(T, {}, Depth(q), f) => T = {}
  BY DEF TopOf, kSubset
<1>5. Mode(q) # "hybrid" => Depth(q) = q.top_k
  BY DEF Depth
<1>6. Mode(q) = "vector_only" => L = {}
  BY DEF AllTexts
<1>7. Mode(q) = "lexical_only" => V = {} /\ L \subseteq Rows
  BY DEF AllVectors, AllTexts
<1> QED BY <1>2, <1>3, <1>4, <1>5, <1>6, <1>7

(* The best of what was read is the best of what there is.                       *)
LEMMA FetchIsComplete ==
  ASSUME IInv, CalmInv, NEW c \in Clients, Fetch(c), req[c].calm,
         NEW L, L = AllTexts(req[c].q), NEW V, V = AllVectors(req[c].q),
         Mode(req[c].q) = "hybrid" =>
           Cardinality(L) <= Depth(req[c].q) /\ Cardinality(V) <= Depth(req[c].q),
         NEW m \in ((L \cup V) \cap Rows) \ req'[c].found,
         Score(req[c].q, m, L, V) >= req[c].q.min_score
  PROVE  LET q == req[c].q IN
         /\ \A d \in req'[c].found : Score(q, m, L, V) <= Score(q, d, L, V)
         /\ Cardinality(req'[c].found) + Cardinality((L \cup V) \ Rows) >= q.top_k
<1> DEFINE r == req[c]
           q == r.q
           H == L \cup V
           s == [d \in Docs |-> Score(q, d, L, V)]
<1>1. /\ q \in Questions /\ q.top_k \in Nat /\ q.min_score \in Nat /\ Mode(q) \in Modes
      /\ r.lex \in SUBSET Docs /\ r.vec \in SUBSET Docs
      /\ L \in SUBSET Docs /\ V \in SUBSET Docs /\ r.pc = "fetch" /\ req \in [Clients -> Requests]
  <2>1. q \in Questions /\ r.lex \in SUBSET Docs /\ r.vec \in SUBSET Docs
        /\ req \in [Clients -> Requests]
    BY DEF IInv, RequestInv, Requests
  <2>2. q.min_score \in Nat /\ q.top_k \in Nat
    BY <2>1, EngineAssumption DEF Question
  <2> QED BY <2>1, <2>2, QuestionType, AllAreDocs DEF Fetch
<1>0. /\ Mode(q) = "hybrid" => r.lex = L /\ r.vec = V
      /\ Mode(q) = "vector_only" => L = {} /\ r.lex = {} /\ TopOf(r.vec, V, q.top_k, VScore)
      /\ Mode(q) = "lexical_only" =>
           V = {} /\ r.vec = {} /\ L \subseteq Rows /\ TopOf(r.lex, L, q.top_k, LRank)
  <2>1. req[c].pc = "fetch"
    BY <1>1
  <2> QED BY <2>1, CalmRead, SMTT(60)
<1>2. PICK best \in kSubset(IF Cardinality(r.lex \cup r.vec) < q.top_k
                            THEN Cardinality(r.lex \cup r.vec) ELSE q.top_k, r.lex \cup r.vec) :
        /\ \A x \in best, y \in (r.lex \cup r.vec) \ best :
             Score(q, x, r.lex, r.vec) >= Score(q, y, r.lex, r.vec)
        /\ SetReq(c, [Asked(q) EXCEPT !.pc = "enrich",
             !.found = {d \in Fetched(q, best) :
                          q.min_score > 0 => Score(q, d, r.lex, r.vec) >= q.min_score},
             !.age = r.age])
  BY DEF Fetch, Best
<1>3. req'[c].found = {d \in Fetched(q, best) :
                         q.min_score > 0 => Score(q, d, r.lex, r.vec) >= q.min_score}
  BY <1>1, <1>2 DEF SetReq, Asked, Idle
<1>4. s \in [Docs -> Nat] /\ \A d \in Docs : s[d] = Score(q, d, L, V)
  <2> SUFFICES ASSUME NEW d \in Docs PROVE Score(q, d, L, V) \in Nat
    OBVIOUS
  <2>1. VScore[d] \in Nat /\ LRank[d] \in Nat /\ VWeight \in Nat /\ LWeight \in Nat
    BY EngineAssumption
  <2>2. VWeight * VScore[d] \in Nat /\ LWeight * LRank[d] \in Nat
    BY <2>1
  <2> QED BY <1>1, <2>1, <2>2 DEF Score, Modes
<1> HIDE DEF s
<1>5. TopOf(best, r.lex \cup r.vec, q.top_k, [d \in Docs |-> Score(q, d, r.lex, r.vec)])
  <2>1. best \subseteq r.lex \cup r.vec
    BY <1>2 DEF kSubset
  <2> QED BY <1>1, <1>2, <2>1 DEF TopOf
<1>6. /\ TopOf(best, H, q.top_k, s)
      /\ \A d \in best : Score(q, d, r.lex, r.vec) = s[d]
      /\ Fetched(q, best) = best \cap Rows
  <2>1. best \subseteq Docs
    BY <1>1, <1>2 DEF kSubset
  <2>2. CASE Mode(q) = "hybrid"
    <3>1. r.lex = L /\ r.vec = V
      BY <1>0, <2>2
    <3>2. TopOf(best, H, q.top_k, [d \in Docs |-> Score(q, d, L, V)])
      BY <1>5, <3>1
    <3> QED BY <1>4, <2>1, <2>2, <3>1, <3>2 DEF s, Fetched
  <2>3. CASE Mode(q) = "vector_only"
    <3>1. L = {} /\ r.lex = {} /\ TopOf(r.vec, V, q.top_k, VScore)
      BY <1>0, <2>3
    <3>2. best = r.vec
      BY <1>1, <1>5, <3>1, TopOfTop
    <3>3. \A A, B : \A d \in Docs : Score(q, d, A, B) = VScore[d]
      BY <2>3 DEF Score
    <3>4. \A d \in Docs : s[d] = VScore[d]
      BY <1>4, <3>3
    <3>5. TopOf(best, V, q.top_k, s)
      BY <1>1, <2>1, <3>1, <3>2, <3>4 DEF TopOf
    <3> QED BY <2>1, <2>3, <3>1, <3>3, <3>4, <3>5 DEF Fetched
  <2>4. CASE Mode(q) = "lexical_only"
    <3>1. V = {} /\ r.vec = {} /\ L \subseteq Rows /\ TopOf(r.lex, L, q.top_k, LRank)
      BY <1>0, <2>4
    <3>2. best = r.lex
      BY <1>1, <1>5, <3>1, TopOfTop
    <3>3. \A A, B : \A d \in Docs : Score(q, d, A, B) = LRank[d]
      BY <2>4 DEF Score
    <3>4. \A d \in Docs : s[d] = LRank[d]
      BY <1>4, <3>3
    <3>5. TopOf(best, L, q.top_k, s)
      BY <1>1, <2>1, <3>1, <3>2, <3>4 DEF TopOf
    <3>6. best \subseteq Rows
      BY <3>1, <3>5 DEF TopOf, kSubset
    <3> QED BY <2>1, <2>4, <3>1, <3>3, <3>4, <3>5, <3>6 DEF Fetched
  <2> QED BY <1>1, <2>2, <2>3, <2>4 DEF Modes
<1>7. req'[c].found = Named(best, s, q.min_score)
  BY <1>3, <1>6 DEF Named
<1>8. m \in H \cap Rows /\ m \in Docs /\ s[m] >= q.min_score /\ H \in SUBSET Docs
      /\ m \notin req'[c].found
  BY <1>1, <1>4
<1>9. /\ \A d \in req'[c].found : s[m] <= s[d]
      /\ Cardinality(req'[c].found) + Cardinality(H \ Rows) >= q.top_k
  <2> HIDE DEF H
  <2> QED BY <1>1, <1>4, <1>6, <1>7, <1>8, MissedIsNoBetter
<1>10. \A d \in req'[c].found : d \in Docs
  BY <1>7 DEF Named, Rows
<1> QED BY <1>4, <1>8, <1>9, <1>10

(* A search that no write disturbed, hybrid and unclipped or of one source,      *)
(* leaves out nothing better than what it names, whatever the scores, the        *)
(* weights, the texts that match and the other clients do: reading twice top_k   *)
(* of each source and fusing by the weighted sum loses no document.              *)
THEOREM CalmSearchComplete == Spec => CalmSearchIsComplete
<1> DEFINE Complete(c) ==
      req[c].pc = "fetch" /\ req'[c].pc = "enrich" =>
       LET q == req[c].q
           hits == AllTexts(q) \cup AllVectors(q)
           score(d) == Score(q, d, AllTexts(q), AllVectors(q))
           missed == {d \in (hits \cap Rows) \ req'[c].found : score(d) >= q.min_score}
           whole == \A S \in {AllTexts(q), AllVectors(q)} : Cardinality(S) <= Depth(q)
       IN (req[c].calm /\ (Mode(q) = "hybrid" => whole)) =>
            \A m \in missed :
              /\ \A d \in req'[c].found : score(m) <= score(d)
              /\ Cardinality(req'[c].found) + Cardinality(hits \ Rows) >= q.top_k
<1>1. ASSUME IInv, CalmInv, [Next]_vars, NEW c \in Clients PROVE Complete(c)
  <2> DEFINE q == req[c].q
             L == AllTexts(q)
             V == AllVectors(q)
  <2>1. SUFFICES ASSUME req[c].pc = "fetch", req'[c].pc = "enrich", req[c].calm,
                        Mode(q) = "hybrid" => \A S \in {L, V} : Cardinality(S) <= Depth(q),
                        NEW m \in ((L \cup V) \cap Rows) \ req'[c].found,
                        Score(q, m, L, V) >= q.min_score
                 PROVE  /\ \A d \in req'[c].found : Score(q, m, L, V) <= Score(q, d, L, V)
                        /\ Cardinality(req'[c].found) + Cardinality((L \cup V) \ Rows) >= q.top_k
    OBVIOUS
  <2>2. Fetch(c)
    BY <1>1, <2>1, OnlyFetchEnds
  <2>3. Mode(q) = "hybrid" => Cardinality(L) <= Depth(q) /\ Cardinality(V) <= Depth(q)
    BY <2>1
  <2>4. L = AllTexts(req[c].q) /\ V = AllVectors(req[c].q)
    OBVIOUS
  <2> HIDE DEF L, V
  <2> QED BY <1>1, <2>1, <2>2, <2>3, <2>4, FetchIsComplete
<1>2. IInv /\ CalmInv /\ [Next]_vars => [\A c \in Clients : Complete(c)]_vars
  BY <1>1
<1>3. [](IInv /\ CalmInv) /\ [][Next]_vars => [][\A c \in Clients : Complete(c)]_vars
  BY <1>2, PTL
<1> QED BY <1>3, CalmAlways, PTL DEF Spec, CalmSearchIsComplete
=============================================================================
