----------------------------- MODULE EmbedWorker ----------------------------
(***************************************************************************)
(* workers/embed_worker.py: embed the chunks of a document, put their      *)
(* vectors into the collection, then enqueue the indexing.                 *)
(***************************************************************************)
EXTENDS Handlers

\* A mutant: a document that is embedded already is skipped.
GuardSkipsEmbedded(w) ==
  /\ pc[w] = "guard"
  /\ Goto(w, IF Exists(DocOf(w)) /\ status[DocOf(w)] \notin {"embedded", "indexed"}
             THEN "embed" ELSE "embed_ack")
  /\ UNCHANGED <<store, faults>>

\* The guard looks for a status nobody sets ("deleted"), so only a document
\* whose row is gone is skipped.
Guard(w) ==
  /\ pc[w] = "guard"
  /\ Goto(w, IF Exists(DocOf(w)) THEN "embed" ELSE "embed_ack")
  /\ UNCHANGED <<store, faults>>

LoadChunks(w) ==
  /\ pc[w] = "load"
  /\ loaded' = [loaded EXCEPT ![w] = ChunksOf(DocOf(w))]
  /\ pc' = [pc EXCEPT ![w] = IF ChunksOf(DocOf(w)) = {} THEN "nothing" ELSE "upsert"]
  /\ UNCHANGED <<job, store, faults>>

\* Mutants: the old vectors of a document are deleted before the new ones are
\* written; a failed batch is swallowed.
UpsertAfterDelete(w) ==
  /\ pc[w] = "upsert"
  /\ vectors' = {v \in vectors : v[1] # DocOf(w)}
  /\ Goto(w, "retry")
  /\ UNCHANGED <<rows, objects, tables, collection, faults>>

UpsertPartCommits(w) ==
  /\ pc[w] = "upsert"
  /\ MayFault("embed")
  /\ \E part \in SUBSET PointIds(loaded[w]) : vectors' = vectors \cup part
  /\ Goto(w, "commit")
  /\ UNCHANGED <<rows, objects, tables, collection>>

\* upsert_batch raises on a collection of another dimension and on a missing one.
Upsert(w) ==
  /\ pc[w] = "upsert"
  /\ vectors' = IF collection = "right" THEN vectors \cup PointIds(loaded[w]) ELSE vectors
  /\ CASE collection = "right"   -> Goto(w, "commit")
       [] collection = "wrong"   -> Goto(w, "heal")
       [] collection = "missing" -> Except(w)
  /\ UNCHANGED <<rows, objects, tables, collection, faults>>

\* It may also fail between two of its batches.
UpsertPart(w) ==
  /\ pc[w] = "upsert"
  /\ collection = "right"
  /\ MayFault("embed")
  /\ \E part \in SUBSET PointIds(loaded[w]) : vectors' = vectors \cup part
  /\ Except(w)
  /\ UNCHANGED <<rows, objects, tables, collection>>

\* The dimension error: delete_collection, with the vectors of every document, ...
DropCollection(w) ==
  /\ pc[w] = "heal"
  /\ vectors' = {}
  /\ collection' = "missing"
  /\ Goto(w, "create")
  /\ UNCHANGED <<rows, objects, tables, faults>>

\* ... create_collection, an error if another worker or instance was faster, which
\* leaves the collection as that one made it, ...
CreateCollection(w) ==
  /\ pc[w] = "create"
  /\ IF collection = "missing"
       THEN collection' = "right" /\ Goto(w, "retry")
       ELSE Except(w) /\ UNCHANGED collection
  /\ UNCHANGED <<rows, objects, tables, vectors, faults>>

\* ... and the upsert once more.
RetryUpsert(w) ==
  /\ pc[w] = "retry"
  /\ IF collection = "right"
       THEN vectors' = vectors \cup PointIds(loaded[w]) /\ Goto(w, "commit")
       ELSE Except(w) /\ UNCHANGED vectors
  /\ UNCHANGED <<rows, objects, tables, collection, faults>>

\* One transaction: vector_id of the chunks and the status.  When chunks have
\* gone meanwhile it raises StaleDataError, and the job is acked as it is.
CommitEmbedded(w) ==
  /\ pc[w] = "commit"
  /\ IF loaded[w] \subseteq chunks
       THEN SetStatus(DocOf(w), "embedded") /\ Goto(w, "embedded")
       ELSE Goto(w, "embed_ack") /\ UNCHANGED status
  /\ UNCHANGED <<info, stage, chunks, jobs, storage, faults>>

EmbedBody == {"guard", "embed", "embedding", "load", "nothing", "nothing_failed", "upsert",
              "heal", "create", "retry", "commit", "embedded", "to_index", "embed_ack"}

EmbedExcept == {"embed_failed", "embed_error", "embed_nack"}

\* _process_embed_job.
EmbedStep(w) ==
  \/ Guard(w)
  \/ WriteStage(w, "embed", "embed", "processing", "embedding")
  \/ WriteStatus(w, "embedding", "embedding", "load")
  \/ LoadChunks(w)
  \/ WriteStage(w, "nothing", "embed", "failed", "nothing_failed")
  \/ WriteStatus(w, "nothing_failed", "embed_failed", "embed_ack")
  \/ Upsert(w) \/ DropCollection(w) \/ CreateCollection(w) \/ RetryUpsert(w)
  \/ CommitEmbedded(w)
  \/ WriteStage(w, "embedded", "embed", "done", "to_index")
  \/ EnqueueNext(w, "to_index", "index", "embed_ack")
  \/ AckJob(w, "embed_ack")
  \/ WriteStage(w, "embed_failed", "embed", "failed", "embed_error")
  \/ WriteStatus(w, "embed_error", "embed_failed", "embed_nack")
  \/ NackJob(w, "embed_nack")

EmbedFault(w) == UpsertPart(w) \/ Raise(w, EmbedBody) \/ Abandon(w, EmbedExcept)
=============================================================================
