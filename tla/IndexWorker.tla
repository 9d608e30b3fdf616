----------------------------- MODULE IndexWorker ----------------------------
(* workers/index_worker.py: the last stage, full-text vectors and the status. *)
EXTENDS Handlers

IndexBody   == {"index", "fts", "indexed", "index_ack"}
IndexExcept == {"index_failed", "index_nack"}

\* _process_index_job.  "fts" is one transaction; the full-text vectors it
\* recomputes are a function of the chunk rows.  The except branch leaves the
\* status of the document alone.
IndexStep(w) ==
  \/ WriteStage(w, "index", "index", "processing", "fts")
  \/ WriteStatus(w, "fts", "indexed", "indexed")
  \/ WriteStage(w, "indexed", "index", "done", "index_ack")
  \/ AckJob(w, "index_ack")
  \/ WriteStage(w, "index_failed", "index", "failed", "index_nack")
  \/ NackJob(w, "index_nack")

IndexFault(w) == Raise(w, IndexBody) \/ Abandon(w, IndexExcept)
=============================================================================
