---------------------------- MODULE DocumentIndex ----------------------------
(***************************************************************************)
(* What a search reads: the chunk rows with their full-text vectors in     *)
(* PostgreSQL, the vectors in the active store, the tables in MindsDB.     *)
(* Pipeline models in detail how the workers write them, and implements    *)
(* IndexSpec; here the rows of a document, and its vectors, are one thing. *)
(***************************************************************************)
EXTENDS Integers, FiniteSets

CONSTANTS
  Docs,
  Writable,   \* documents that change during a behaviour
  Tabular,    \* documents that are tables
  Stored      \* the stage of each document at the beginning

VARIABLE life

Life == {"absent", "chunked", "embedded", "purged", "orphaned"}

ASSUME IndexAssumption ==
  IsFiniteSet(Docs) /\ Tabular \subseteq Docs /\ Writable \subseteq Docs /\ Stored \in [Docs -> Life]

\* Chunks joined with documents.  A trigger gives a chunk its full-text vector when it
\* is inserted, so the text search sees it before the index worker has run, ...
Rows    == {d \in Docs : life[d] \in {"chunked", "embedded"}}
\* ... points of the collection, also those of a document that is gone, ...
Vectors == {d \in Docs : life[d] \in {"embedded", "orphaned"}}
\* ... and tables, which are there before the rows and may outlast them.
Tables  == {d \in Tabular : life[d] # "absent"}

Gone == {d \in Docs : life[d] \in {"purged", "orphaned"}}

-----------------------------------------------------------------------------
Becomes(d, from, to) == life[d] = from /\ life'[d] = to

\* The ingest and embed workers; the index worker changes nothing a search sees.  A
\* batch of vectors may arrive when the rows are gone, and then stays.
CutChunks(d)     == Becomes(d, "absent", "chunked")
UpsertVectors(d) == Becomes(d, "chunked", "embedded") \/ Becomes(d, "purged", "orphaned")

\* The purge worker deletes the vectors, or a collection of another dimension is
\* replaced; a document that is kept may get new ones.
DropVectors(d) == Becomes(d, "embedded", "chunked") \/ Becomes(d, "orphaned", "purged")

\* The purge worker deletes the rows last, whether or not it could delete the vectors.
PurgeRow(d) == \/ \E from \in {"absent", "chunked"} : Becomes(d, from, "purged")
               \/ Becomes(d, "embedded", "orphaned")

Write(d) == CutChunks(d) \/ UpsertVectors(d) \/ DropVectors(d) \/ PurgeRow(d)

\* One document changes.
WriteOnly(d) == (\E to \in Life : life' = [life EXCEPT ![d] = to]) /\ Write(d)

\* A collection goes with the vectors of many documents.
IndexNext == /\ life' \in [Docs -> Life]
             /\ \A d \in Docs : (d \in Writable /\ Write(d)) \/ life'[d] = life[d]

IndexSpec == life = Stored /\ [][IndexNext]_life
=============================================================================
