----------------------------- MODULE PurgeWorker ----------------------------
(***************************************************************************)
(* workers/purge_worker.py: remove a document from the vector store,       *)
(* MindsDB, MinIO and PostgreSQL, in this order.                           *)
(***************************************************************************)
EXTENDS Handlers

\* A deletion in a store outside PostgreSQL that fails is logged and skipped.
PurgeVectors(w) ==
  /\ pc[w] = "vectors"
  /\ \/ vectors' = {v \in vectors : v[1] # DocOf(w)} /\ UNCHANGED faults
     \/ MayFault("purge") /\ UNCHANGED vectors
  /\ Goto(w, "table")
  /\ UNCHANGED <<rows, objects, tables, collection>>

PurgeTable(w) ==
  /\ pc[w] = "table"
  /\ \/ tables' = tables \ {DocOf(w)} /\ UNCHANGED faults
     \/ MayFault("purge") /\ UNCHANGED tables
  /\ Goto(w, "object")
  /\ UNCHANGED <<rows, objects, vectors, collection>>

PurgeObject(w) ==
  /\ pc[w] = "object"
  /\ \/ objects' = objects \ {DocOf(w)} /\ UNCHANGED faults
     \/ MayFault("purge") /\ UNCHANGED objects
  /\ Goto(w, "row")
  /\ UNCHANGED <<rows, tables, vectors, collection>>

\* A mutant: the row is deleted only while it still says so.
PurgeRowIfMarked(w) ==
  /\ pc[w] = "row"
  /\ IF status[DocOf(w)] = "deleting"
       THEN DeleteDoc(DocOf(w))
       ELSE /\ jobs' = [jobs EXCEPT ![job[w]].row = AckedRow(@)]
            /\ UNCHANGED <<status, info, stage, chunks>>
  /\ Return(w)
  /\ UNCHANGED <<storage, faults>>

\* The document row goes last and takes this job with it: there is no ack.
PurgeRow(w) ==
  /\ pc[w] = "row"
  /\ DeleteDoc(DocOf(w))
  /\ Return(w)
  /\ UNCHANGED <<storage, faults>>

\* The except branch tries to set the status and swallows a failure of that.
MarkPurgeError(w) ==
  /\ pc[w] = "purge_failed"
  /\ \/ SetStatus(DocOf(w), "error") /\ UNCHANGED faults
     \/ MayFault("purge") /\ UNCHANGED status
  /\ Goto(w, "purge_nack")
  /\ UNCHANGED <<info, stage, chunks, jobs, storage>>

\* _process_purge_job.
PurgeStep(w) ==
  \/ PurgeVectors(w) \/ PurgeTable(w) \/ PurgeObject(w) \/ PurgeRow(w)
  \/ MarkPurgeError(w)
  \/ NackJob(w, "purge_nack")

PurgeFault(w) == Raise(w, {"row"}) \/ Abandon(w, {"purge_nack"})
=============================================================================
