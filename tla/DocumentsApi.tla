---------------------------- MODULE DocumentsApi ----------------------------
(* api/routes/documents.py: delete_document.                                 *)
EXTENDS Requests

StartDelete(c) ==
  /\ Issue("delete", MaxDeletes)
  /\ \E d \in Docs : /\ MayAsk(d)
                     /\ Begin(c, [Idle EXCEPT !.at = "delete", !.doc = d])
  /\ UNCHANGED <<store, faults>>

\* A mutant: the request deletes the file before anything is enqueued.
MarkAndDeleteFile(c) ==
  /\ req[c].at = "delete"
  /\ SetStatus(req[c].doc, "deleting")
  /\ objects' = objects \ {req[c].doc}
  /\ IF Exists(req[c].doc) THEN Proceed(c, "purge") ELSE Reply(c, "not_found", req[c].doc)
  /\ UNCHANGED <<info, stage, chunks, jobs, tables, vectors, collection, faults>>

\* One transaction: SELECT and UPDATE.
MarkDeleting(c) ==
  /\ req[c].at = "delete"
  /\ SetStatus(req[c].doc, "deleting")
  /\ IF Exists(req[c].doc) THEN Proceed(c, "purge") ELSE Reply(c, "not_found", req[c].doc)
  /\ UNCHANGED <<info, stage, chunks, jobs, storage, faults>>

EnqueuePurge(c) ==
  /\ req[c].at = "purge"
  /\ Enqueue("purge", req[c].doc, CHOOSE by \in Strategies : TRUE)
  /\ Reply(c, "deleting", req[c].doc)
  /\ UNCHANGED <<status, info, stage, chunks, storage, faults>>

DeleteStep(c) == StartDelete(c) \/ MarkDeleting(c) \/ EnqueuePurge(c)
=============================================================================
