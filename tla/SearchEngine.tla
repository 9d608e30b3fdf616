----------------------------- MODULE SearchEngine -----------------------------
(***************************************************************************)
(* GET and POST /search: search/engine.py over the index, the cache and    *)
(* the tables, with documents written and purged meanwhile.                *)
(*                                                                         *)
(* Each await on another service is a step of its own.  An answer is the   *)
(* set of documents it names; the order in it is by score.                 *)
(***************************************************************************)
EXTENDS SearchCache, TabularQuery, FiniteSetsExt

CONSTANTS
  Questions,      \* what clients may ask, a set of records [mode, top_k, doc, min_score]
  AnyDoc,         \* document_id is not given
  FtsOnly,        \* registry.search_mode = "fts_only"
  Matches,        \* the documents that each of the three text queries matches
  VScore, LRank,  \* similarity and text rank of each document
  VWeight, LWeight,
  MaxDuration     \* ticks from question to answer, at most

VARIABLES
  cache, req,
  gone            \* ticks since the rows of a document went, up to GoneCap

vars == <<life, cache, req, tq, gone>>

Modes == {"hybrid", "vector_only", "lexical_only"}
Question == [mode : Modes, top_k : Nat \ {0}, doc : Docs \cup {AnyDoc}, min_score : Nat]

ASSUME EngineAssumption ==
  /\ AnyDoc \notin Docs /\ Questions # {} /\ Questions \subseteq Question /\ FtsOnly \in BOOLEAN
  /\ Matches \in [1 .. 3 -> SUBSET Docs]
  /\ VScore \in [Docs -> Nat] /\ LRank \in [Docs -> Nat]
  /\ VWeight \in Nat /\ LWeight \in Nat /\ MaxDuration \in Nat

\* How long an answer may name a document that is gone: the age of a cached answer
\* and the time it took.
GoneCap == MaxDuration + (IF CacheTtl > 0 THEN CacheTtl ELSE 1)

\* A request between its steps.  calm: no document was written since it began, and which
\* question an idle one holds has no meaning.
NoQuestion == CHOOSE q \in Questions : TRUE
Idle == [pc |-> "idle", q |-> NoQuestion, pass |-> 1, lex |-> {}, vec |-> {}, found |-> {},
         calm |-> TRUE, age |-> 0]
Asked(q) == [Idle EXCEPT !.q = q]

Pending == {c \in Clients : req[c].pc # "idle"}
Reading == {c \in Clients : req[c].pc \in {"text", "vectors", "fetch"}}

Requests == [pc : {"idle", "text", "vectors", "fetch", "enrich", "store"},
             q : Questions, pass : 1 .. 3,
             lex : SUBSET Docs, vec : SUBSET Docs, found : SUBSET Docs,
             calm : BOOLEAN, age : 0 .. MaxDuration]

TypeOK ==
  /\ life \in [Docs -> Life]
  /\ Cardinality(DOMAIN cache) <= CacheMax
  /\ \A k \in DOMAIN cache :
       /\ k \in {CacheKey(q) : q \in Questions}
       /\ cache[k].age \in 0 .. CacheTtl /\ cache[k].answer \subseteq Docs
  /\ req \in [Clients -> Requests]
  /\ tq \in [Clients -> [Tabular -> Query]]
  /\ gone \in [Docs -> 0 .. GoneCap]

Init ==
  /\ life = Stored
  /\ cache = EmptyCache
  /\ req = [c \in Clients |-> Idle]
  /\ tq = [c \in Clients |-> [d \in Tabular |-> NoQuery]]
  /\ gone = [d \in Docs |-> IF Stored[d] = "orphaned" THEN GoneCap ELSE 0]

-----------------------------------------------------------------------------
\* _resolve_mode.
Mode(q) == IF FtsOnly THEN "lexical_only" ELSE q.mode

Scope(q) == IF q.doc = AnyDoc THEN Docs ELSE {q.doc}

\* ORDER BY ... LIMIT n: any of the ways to take n of the best of S.
Best(S, n, score(_)) ==
  {T \in kSubset(IF Cardinality(S) < n THEN Cardinality(S) ELSE n, S) :
     \A x \in T, y \in S \ T : score(x) >= score(y)}

\* A hybrid search reads twice as much as it answers.
Depth(q) == IF Mode(q) = "hybrid" THEN 2 * q.top_k ELSE q.top_k

\* The score of d in a search that found lex in the text and vec in the vectors.
Score(q, d, lex, vec) ==
  CASE Mode(q) = "hybrid"       -> (IF d \in vec THEN VWeight * VScore[d] ELSE 0)
                                     + (IF d \in lex THEN LWeight * LRank[d] ELSE 0)
    [] Mode(q) = "vector_only"  -> VScore[d]
    [] Mode(q) = "lexical_only" -> LRank[d]

SetReq(c, r) == req' = [req EXCEPT ![c] = r]

-----------------------------------------------------------------------------
\* search: a fresh answer in the cache is sent at once; otherwise the first query of
\* the mode is next.
Ask(c) ==
  /\ req[c].pc = "idle"
  /\ \E q \in Questions :
       LET k == CacheKey(q) IN
       /\ cache' = AfterGet(cache, k)
       /\ SetReq(c, IF IsFresh(cache, k) THEN Idle
                    ELSE [Asked(q) EXCEPT !.pc = IF Mode(q) = "vector_only" THEN "vectors" ELSE "text"])
  /\ UNCHANGED <<life, tq, gone>>

\* A mutant: the text search of a hybrid search reads no more than it answers.
ShallowText(c) ==
  LET r == req[c] IN
  /\ r.pc = "text"
  /\ \E S \in Best(Rows \cap Matches[r.pass] \cap Scope(r.q), r.q.top_k, LAMBDA d : LRank[d]) :
       IF S = {} /\ r.pass < 3
       THEN SetReq(c, [r EXCEPT !.pass = @ + 1])
       ELSE SetReq(c, [r EXCEPT !.lex = S, !.pc = IF Mode(r.q) = "hybrid" THEN "vectors" ELSE "fetch"])
  /\ UNCHANGED <<life, cache, tq, gone>>

\* One pass of _run_fts; a pass without rows is followed by the next, looser one.
ReadText(c) ==
  LET r == req[c] IN
  /\ r.pc = "text"
  /\ \E S \in Best(Rows \cap Matches[r.pass] \cap Scope(r.q), Depth(r.q), LAMBDA d : LRank[d]) :
       IF S = {} /\ r.pass < 3
       THEN SetReq(c, [r EXCEPT !.pass = @ + 1])
       ELSE SetReq(c, [r EXCEPT !.lex = S, !.pc = IF Mode(r.q) = "hybrid" THEN "vectors" ELSE "fetch"])
  /\ UNCHANGED <<life, cache, tq, gone>>

\* The search of the vector store.
ReadVectors(c) ==
  LET r == req[c] IN
  /\ r.pc = "vectors"
  /\ \E S \in Best(Vectors \cap Scope(r.q), Depth(r.q), LAMBDA d : VScore[d]) :
       SetReq(c, [r EXCEPT !.vec = S, !.pc = "fetch"])
  /\ UNCHANGED <<life, cache, tq, gone>>

\* The rows of the best top_k: hits without a row are skipped, not replaced.  Text
\* rows came with the document and are not read again.
Fetched(q, best) == IF Mode(q) = "lexical_only" THEN best ELSE best \cap Rows

Fetch(c) ==
  LET r == req[c]
      score(d) == Score(r.q, d, r.lex, r.vec)
  IN /\ r.pc = "fetch"
     /\ \E best \in Best(r.lex \cup r.vec, r.q.top_k, score) :
          LET found == {d \in Fetched(r.q, best) : r.q.min_score > 0 => score(d) >= r.q.min_score} IN
          /\ SetReq(c, [Asked(r.q) EXCEPT !.pc = "enrich", !.found = found, !.age = r.age])
          /\ tq' = [tq EXCEPT ![c] = [d \in Tabular |-> IF d \in found THEN NewQuery ELSE NoQuery]]
     /\ UNCHANGED <<life, cache, gone>>

\* _enrich_tabular_results: the tables among the results are asked side by side.
Enrich(c) ==
  /\ req[c].pc = "enrich"
  /\ \E d \in Tabular : QueryStep(c, d)
  /\ UNCHANGED <<life, cache, req, gone>>

Enriched(c) ==
  /\ req[c].pc = "enrich"
  /\ \A d \in Tabular : tq[c][d].pc \in {"off", "done"}
  /\ SetReq(c, [req[c] EXCEPT !.pc = "store"])
  /\ tq' = [tq EXCEPT ![c] = [d \in Tabular |-> NoQuery]]
  /\ UNCHANGED <<life, cache, gone>>

\* The answer is cached, then sent.
Store(c) ==
  /\ req[c].pc = "store"
  /\ cache' \in AfterSet(cache, CacheKey(req[c].q), req[c].found)
  /\ SetReq(c, Idle)
  /\ UNCHANGED <<life, tq, gone>>

Abandoned(cs) ==
  /\ req' = [c \in Clients |-> IF c \in cs THEN Idle ELSE req[c]]
  /\ tq' = [c \in Clients |-> IF c \in cs THEN [d \in Tabular |-> NoQuery] ELSE tq[c]]

\* Any of the calls raises: the request is answered with status 500.
Fail(c) == c \in Pending /\ Abandoned({c}) /\ UNCHANGED <<life, cache, gone>>

Step(c) ==
  Ask(c) \/ ReadText(c) \/ ReadVectors(c) \/ Fetch(c) \/ Enrich(c) \/ Enriched(c) \/ Store(c)

\* The process restarts: requests and cache are lost.
Restart ==
  /\ cache # EmptyCache \/ Pending # {}
  /\ cache' = EmptyCache
  /\ Abandoned(Clients)
  /\ UNCHANGED <<life, gone>>

\* The workers write or purge a document.
WriteDocument(d) ==
  /\ WriteOnly(d)
  /\ req' = [c \in Clients |-> IF c \in Reading THEN [req[c] EXCEPT !.calm = FALSE] ELSE req[c]]
  /\ UNCHANGED <<cache, tq, gone>>

Tick ==
  /\ \A c \in Pending : req[c].age < MaxDuration
  /\ cache' = CacheAged(cache)
  /\ req' = [c \in Clients |-> IF c \in Pending THEN [req[c] EXCEPT !.age = @ + 1] ELSE req[c]]
  /\ gone' = [d \in Docs |-> IF d \in Gone /\ gone[d] < GoneCap
                             THEN gone[d] + 1 ELSE gone[d]]
  /\ UNCHANGED <<life, tq>>

Next ==
  \/ \E c \in Clients : Step(c) \/ Fail(c)
  \/ \E d \in Writable : WriteDocument(d)
  \/ Restart
  \/ Tick

\* A request that has begun goes on: nothing but its own calls keeps it waiting.
Fairness == \A c \in Clients : WF_vars(c \in Pending /\ Step(c))

Spec == Init /\ [][Next]_vars /\ Fairness

-----------------------------------------------------------------------------
\* The answers a client may get now: a fresh one from the cache, or the one that has
\* just been computed for it.
Answers == {[q |-> q, found |-> cache[CacheKey(q)].answer] :
              q \in {x \in Questions : IsFresh(cache, CacheKey(x))}}
           \cup {[q |-> req[c].q, found |-> req[c].found] : c \in {x \in Clients : req[x].pc = "store"}}

\* A client is answered the question it asked, also when the answer was computed
\* for another client: documents of the scope it gave, and no more than top_k.
AnswersTheQuestion ==
  \A a \in Answers : a.found \subseteq Scope(a.q) /\ Cardinality(a.found) <= a.q.top_k

\* A deleted document is named by answers for the TTL of the cache and the time of
\* one search, not longer: a slow search that stores its answer after a purge, or
\* over a newer answer, starts no new term.  Points left in the vector store by a
\* purge that overtook the embed worker are never named.
DeletedIsForgotten == \A a \in Answers : \A d \in a.found : d \in Rows \/ gone[d] < GoneCap

\* What a search could see if it read everything at once.
FirstPass(q) == LET hits == {p \in 1 .. 3 : Rows \cap Matches[p] \cap Scope(q) # {}}
                IN IF hits = {} THEN 3 ELSE Min(hits)
AllTexts(q)   == IF Mode(q) = "vector_only" THEN {}
                 ELSE Rows \cap Matches[FirstPass(q)] \cap Scope(q)
AllVectors(q) == IF Mode(q) = "lexical_only" THEN {} ELSE Vectors \cap Scope(q)

\* A search during which no document was written, and whose two halves were not cut
\* short, names the best documents there are: one that is missing is no better than
\* any that is named, and top_k are named, less the hits whose rows are gone.
CalmSearchIsComplete ==
  [][\A c \in Clients : req[c].pc = "fetch" /\ req'[c].pc = "enrich" =>
       LET q == req[c].q
           hits == AllTexts(q) \cup AllVectors(q)
           score(d) == Score(q, d, AllTexts(q), AllVectors(q))
           missed == {d \in (hits \cap Rows) \ req'[c].found : score(d) >= q.min_score}
           whole == \A S \in {AllTexts(q), AllVectors(q)} : Cardinality(S) <= Depth(q)
       IN (req[c].calm /\ (Mode(q) = "hybrid" => whole)) =>
            \A m \in missed :
              /\ \A d \in req'[c].found : score(m) <= score(d)
              /\ Cardinality(req'[c].found) + Cardinality(hits \ Rows) >= q.top_k]_vars

\* No statement runs that the check has not passed: neither the first one nor a
\* repaired one.
OnlyReadsRun ==
  \A c \in Clients, d \in Tabular : tq[c][d].pc = "execute" => tq[c][d].sql \in {"good", "bad"}

\* Every question is answered, or refused: the passes, the retries and the repairs
\* of all its tables come to an end.
SearchesEnd == \A c \in Clients : (c \in Pending) ~> (c \notin Pending)
=============================================================================
