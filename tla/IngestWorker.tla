---------------------------- MODULE IngestWorker ----------------------------
(***************************************************************************)
(* workers/ingest_worker.py: download, parse and chunk a document, then    *)
(* enqueue its embedding.  The tabular path makes the same moves with one  *)
(* summary chunk and an upload to MindsDB in between.                      *)
(***************************************************************************)
EXTENDS Handlers

LOCAL ContentOf(w) == info[DocOf(w)].content

\* A mutant: a file without text ends the handler early, without a status.
FetchOrReturn(w) ==
  /\ pc[w] = "fetch"
  /\ Goto(w, IF ContentOf(w) \in Blank THEN "ingest_ack"
             ELSE IF ContentOf(w) \in Tabular THEN "mindsdb" ELSE "parsed")
  /\ UNCHANGED <<store, faults>>

\* download_file and parse_document (or profile_tabular): what comes back
\* depends on the file.  Without the object the download raises.
FetchAndParse(w) ==
  /\ pc[w] = "fetch"
  /\ \/ /\ DocOf(w) \notin objects
        /\ Except(w)
     \/ /\ DocOf(w) \in objects
        /\ Goto(w, IF ContentOf(w) \in Tabular THEN "mindsdb"
                   ELSE IF ContentOf(w) \in Blank THEN "no_text" ELSE "parsed")
  /\ UNCHANGED <<store, faults>>

\* mdb.upload_file: a failure is logged and forgotten.
UploadTable(w) ==
  /\ pc[w] = "mindsdb"
  /\ \/ tables' = tables \cup {DocOf(w)} /\ UNCHANGED faults
     \/ MayFault("mindsdb") /\ UNCHANGED tables
  /\ Goto(w, "parsed")
  /\ UNCHANGED <<rows, objects, vectors, collection>>

\* chunk_document: some strategies cut nothing from a text.
Cut(w) ==
  /\ pc[w] = "cut"
  /\ Goto(w, IF CutChunks(DocOf(w), jobs[job[w]].by) = {} THEN "no_chunks" ELSE "insert")
  /\ UNCHANGED <<store, faults>>

\* A mutant: the document is not looked for when its chunks are inserted.
InsertChunksAnyway(w) ==
  /\ pc[w] = "insert"
  /\ chunks' = MergeChunks(CutChunks(DocOf(w), jobs[job[w]].by))
  /\ SetStatus(DocOf(w), "chunked")
  /\ Goto(w, "chunked")
  /\ UNCHANGED <<info, stage, jobs, storage, faults>>

\* One transaction: the chunk rows and the status.  The rows' foreign key makes
\* it raise when the document is gone.
InsertChunks(w) ==
  /\ pc[w] = "insert"
  /\ IF Exists(DocOf(w))
       THEN /\ chunks' = MergeChunks(CutChunks(DocOf(w), jobs[job[w]].by))
            /\ SetStatus(DocOf(w), "chunked")
            /\ Goto(w, "chunked")
       ELSE Except(w) /\ UNCHANGED <<chunks, status>>
  /\ UNCHANGED <<info, stage, jobs, storage, faults>>

IngestBody == {"parse", "parsing", "fetch", "parsed", "chunk", "insert", "chunked", "next",
               "ingest_ack", "no_text", "parse_failed", "no_chunks", "chunk_failed"}

IngestExcept == {"ingest_failed", "ingest_error", "ingest_nack"}

\* _process_ingest_job and _process_tabular_job.
IngestStep(w) ==
  \/ WriteStage(w, "parse", "parse", "processing", "parsing")
  \/ WriteStatus(w, "parsing", "parsing", "fetch")
  \/ FetchAndParse(w)
  \/ UploadTable(w)
  \/ WriteStage(w, "no_text", "parse", "failed", "parse_failed")
  \/ WriteStatus(w, "parse_failed", "parse_failed", "ingest_ack")
  \/ WriteStage(w, "parsed", "parse", "done", "chunk")
  \/ WriteStage(w, "chunk", "chunk", "processing", "cut")
  \/ Cut(w)
  \/ WriteStage(w, "no_chunks", "chunk", "failed", "chunk_failed")
  \/ WriteStatus(w, "chunk_failed", "chunk_failed", "ingest_ack")
  \/ InsertChunks(w)
  \/ WriteStage(w, "chunked", "chunk", "done", "next")
  \/ EnqueueNext(w, "next", "embed", "ingest_ack")
  \/ AckJob(w, "ingest_ack")
  \/ WriteStage(w, "ingest_failed", "parse", "failed", "ingest_error")
  \/ WriteStatus(w, "ingest_error", "error", "ingest_nack")
  \/ NackJob(w, "ingest_nack")

IngestFault(w) == Raise(w, IngestBody) \/ Abandon(w, IngestExcept)
=============================================================================
