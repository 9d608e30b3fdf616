------------------------------- MODULE Store --------------------------------
(***************************************************************************)
(* What the API handlers and the workers share: the PostgreSQL tables      *)
(* documents, chunks, pipeline_stages and pipeline_jobs (db/models.py),    *)
(* the objects in MinIO, the files in MindsDB and the vector collection.   *)
(* Each operator is one statement, or one transaction, on them.            *)
(*                                                                         *)
(* Time is left to JobQueue: here a pending job may be claimed at once     *)
(* (BackoffUnit = 0) and every lock may have timed out (LockTimeout = 0).  *)
(***************************************************************************)
EXTENDS JobTable, Sequences, FiniteSets

CONSTANTS
  Docs,          \* document ids, 1 .. n, in the order of the uploads
  Contents,      \* what is uploaded, told apart by its checksum
  Names,         \* filenames
  Strategies,    \* parsing strategies
  Tabular,       \* contents that take the tabular path
  Blank,         \* contents whose parse yields no text
  Pieces,        \* how many chunks a strategy cuts a text into
  NoInfo,        \* "info" of an id that has no row yet
  FaultyParts,   \* stages, "api" or "mindsdb" (an upload to it), where calls may fail
  MaxFaults      \* bound: how often that happens in a behaviour

ASSUME StoreAssumption ==
  /\ IsFiniteSet(Docs) /\ Docs = 1 .. Cardinality(Docs)
  /\ Strategies # {}
  /\ Tabular \subseteq Contents
  /\ Blank \subseteq Contents
  /\ Pieces \in [Strategies -> Nat]
  /\ FaultyParts \subseteq {"ingest", "embed", "index", "purge", "api", "mindsdb"}
  /\ MaxFaults \in Nat

VARIABLES
  status,        \* Document.status; "absent" before the insert, "purged" after the delete
  info,          \* the other columns of the row: [content, name]
  stage,         \* PipelineStage.status per document and stage, "none" without a row
  chunks,        \* Chunk rows: [doc, index, by], "by" the strategy that cut the text
  jobs,          \* PipelineJob rows in the order of their insertion; of a deleted one
                 \* only properties read what it was for
  objects,       \* documents whose file is in MinIO
  tables,        \* documents whose file is in MindsDB
  vectors,       \* points of the collection: <<doc, index>>, the id of the chunk
  collection,    \* "right", or of the "wrong" dimension, or "missing"
  faults

rows    == <<status, info, stage, chunks, jobs>>
storage == <<objects, tables, vectors, collection>>
store   == <<rows, storage>>

StageNames == {"upload", "parse", "chunk", "embed", "index"}
JobStages  == {"ingest", "embed", "index", "purge"}

Failed    == {"error", "parse_failed", "chunk_failed", "embed_failed"}
Terminal  == Failed \cup {"indexed"}
DocStatus == Terminal \cup {"absent", "pending", "parsing", "chunked", "embedding",
                            "embedded", "deleting", "purged"}

Exists(d)      == status[d] \notin {"absent", "purged"}
ChunksOf(d)    == {c \in chunks : c.doc = d}
PointIds(cs)   == {<<c.doc, c.index>> : c \in cs}
JobIds         == DOMAIN jobs
JobsOf(d)      == {i \in JobIds : jobs[i].doc = d}
Live(i)        == jobs[i].row.status \in {"pending", "processing"}
LiveJobsOf(d)  == {i \in JobsOf(d) : Live(i)}

StoreInit ==
  /\ status = [d \in Docs |-> "absent"]
  /\ info = [d \in Docs |-> NoInfo]
  /\ stage = [d \in Docs |-> [s \in StageNames |-> "none"]]
  /\ chunks = {}
  /\ jobs = <<>>
  /\ objects = {}
  /\ tables = {}
  /\ vectors = {}
  /\ collection = "right"
  /\ faults = 0

\* A call raises, in a part of the system where that may happen.
MayFault(part) ==
  /\ part \in FaultyParts
  /\ faults < MaxFaults
  /\ faults' = faults + 1

-----------------------------------------------------------------------------
(* Statements.  An UPDATE of a deleted document matches no row.              *)

\* UPDATE documents SET status: it does not look at the status it replaces.
StatusAfter(d, s) == IF Exists(d) THEN [status EXCEPT ![d] = s] ELSE status
SetStatus(d, s)   == status' = StatusAfter(d, s)

\* A mutant: an insert that does nothing when the row is there.
SetStageOnce(d, st, s) ==
  stage' = IF Exists(d) /\ stage[d][st] = "none" THEN [stage EXCEPT ![d][st] = s] ELSE stage

\* update_stage: an upsert, silently dropped when the document is gone.
SetStage(d, st, s) == stage' = IF Exists(d) THEN [stage EXCEPT ![d][st] = s] ELSE stage

\* enqueue, silently dropped when the document is gone.
NewJob(st, d, by)  == [stage |-> st, doc |-> d, by |-> by, row |-> NewRow]
\* A mutant: no second job of a stage while one is live.
EnqueueOnce(st, d, by) ==
  jobs' = IF Exists(d) /\ \A i \in LiveJobsOf(d) : jobs[i].stage # st
            THEN Append(jobs, NewJob(st, d, by)) ELSE jobs

Enqueue(st, d, by) == jobs' = IF Exists(d) THEN Append(jobs, NewJob(st, d, by)) ELSE jobs

\* INSERT INTO documents.
InsertDoc(d, c, n) ==
  /\ status' = [status EXCEPT ![d] = "pending"]
  /\ info' = [info EXCEPT ![d] = [content |-> c, name |-> n]]

\* INSERT INTO chunks ... ON CONFLICT (document_id, chunk_index) DO NOTHING.
CutChunks(d, by) ==
  LET n == IF info[d].content \in Tabular THEN 1 ELSE Pieces[by]
  IN  {[doc |-> d, index |-> k, by |-> by] : k \in 1 .. n}

MergeChunks(new) == chunks \cup {c \in new : \A old \in chunks : <<old.doc, old.index>> # <<c.doc, c.index>>}

\* DELETE FROM documents, which cascades to chunks, stages and jobs.
DeleteDoc(d) ==
  IF Exists(d)
    THEN /\ status' = [status EXCEPT ![d] = "purged"]
         /\ stage' = [stage EXCEPT ![d] = [s \in StageNames |-> "none"]]
         /\ chunks' = chunks \ ChunksOf(d)
         /\ jobs' = [i \in JobIds |-> IF jobs[i].doc = d THEN [jobs[i] EXCEPT !.row = RemovedRow]
                                      ELSE jobs[i]]
         /\ UNCHANGED info
    ELSE UNCHANGED rows
-----------------------------------------------------------------------------
StoreTypeOK ==
  /\ status \in [Docs -> DocStatus]
  /\ info \in [Docs -> [content : Contents, name : Names] \cup {NoInfo}]
  /\ stage \in [Docs -> [StageNames -> {"none", "pending", "processing", "done", "failed"}]]
  /\ chunks \subseteq [doc : Docs, index : Nat, by : Strategies]
  /\ jobs \in Seq([stage : JobStages, doc : Docs, by : Strategies, row : Row])
  /\ objects \subseteq Docs
  /\ tables \subseteq Docs
  /\ vectors \subseteq Docs \X Nat
  /\ collection \in {"right", "wrong", "missing"}
  /\ faults \in 0 .. MaxFaults
=============================================================================
