------------------------------ MODULE IngestApi -----------------------------
(* api/routes/ingest.py: upload_document and reprocess_document.             *)
EXTENDS Requests

\* An upload: the id of the document it may create is fixed here.
StartUpload(c) ==
  /\ Issue("upload", Cardinality(Docs))
  /\ \E content \in Contents, name \in Names, by \in Strategies :
       Begin(c, [Idle EXCEPT !.at = "find", !.doc = issued.upload + 1, !.content = content,
                             !.name = name, !.by = by])
  /\ UNCHANGED <<store, faults>>

\* A mutant: only a finished document is a duplicate.
SameFinishedContent(r) ==
  {d \in Docs : Exists(d) /\ info[d].content = r.content /\ status[d] \in Terminal}

SameContent(r) == {d \in Docs : Exists(d) /\ info[d].content = r.content}
SameName(r)    == {d \in Docs : Exists(d) /\ info[d].name = r.name /\ status[d] # "deleting"}

\* Duplicate detection; scalar_one_or_none raises when two rows match.
Find(c) ==
  LET r == req[c] IN
  /\ r.at = "find"
  /\ \/ SameContent(r) = {} /\ Proceed(c, "name")
     \/ Cardinality(SameContent(r)) > 1 /\ Reply(c, "error", r.doc)
     \/ \E d \in SameContent(r) :
          /\ SameContent(r) = {d}
          /\ \/ status[d] = "indexed" /\ Reply(c, "already_indexed", d)
             \/ /\ status[d] \in Failed
                /\ req' = [req EXCEPT ![c].at = "requeue", ![c].doc = d]
                /\ UNCHANGED issued
             \/ /\ status[d] \notin Terminal
                /\ Reply(c, "being_processed", d)
  /\ UNCHANGED <<store, faults>>

\* A failed duplicate is run again from the stored file.
Requeue(c) ==
  /\ req[c].at = "requeue"
  /\ SetStatus(req[c].doc, "pending")
  /\ Proceed(c, "reset")
  /\ UNCHANGED <<info, stage, chunks, jobs, storage, faults>>

\* The stages are set back one by one.
ResetOrder == <<"parse", "chunk", "embed", "index">>

ResetStage(c) ==
  /\ req[c].at = "reset"
  /\ SetStage(req[c].doc, ResetOrder[req[c].reset + 1], "pending")
  /\ req' = [req EXCEPT ![c].reset = @ + 1,
                        ![c].at = IF req[c].reset + 1 = Len(ResetOrder) THEN "enqueue" ELSE "reset"]
  /\ UNCHANGED <<issued, status, info, chunks, jobs, storage, faults>>

\* The same filename with another content replaces the old document.
FindName(c) ==
  LET r == req[c] IN
  /\ r.at = "name"
  /\ \/ Cardinality(SameName(r)) > 1 /\ Reply(c, "error", r.doc)
     \/ /\ \A d \in SameName(r) : info[d].content = r.content
        /\ Cardinality(SameName(r)) <= 1
        /\ Proceed(c, "put")
     \/ \E d \in SameName(r) :
          /\ SameName(r) = {d}
          /\ info[d].content # r.content
          /\ req' = [req EXCEPT ![c].at = "replace", ![c].old = d]
          /\ UNCHANGED issued
  /\ UNCHANGED <<store, faults>>

\* A mutant: the replaced document is marked and never purged.
ReplaceOnly(c) ==
  /\ req[c].at = "replace"
  /\ SetStatus(req[c].old, "deleting")
  /\ Proceed(c, "put")
  /\ UNCHANGED <<info, stage, chunks, jobs, storage, faults>>

Replace(c) ==
  /\ req[c].at = "replace"
  /\ SetStatus(req[c].old, "deleting")
  /\ Proceed(c, "purge_old")
  /\ UNCHANGED <<info, stage, chunks, jobs, storage, faults>>

PurgeOld(c) ==
  /\ req[c].at = "purge_old"
  /\ Enqueue("purge", req[c].old, req[c].by)
  /\ Proceed(c, "put")
  /\ UNCHANGED <<status, info, stage, chunks, storage, faults>>

PutObject(c) ==
  /\ req[c].at = "put"
  /\ objects' = objects \cup {req[c].doc}
  /\ Proceed(c, "insert")
  /\ UNCHANGED <<rows, tables, vectors, collection, faults>>

InsertDocument(c) ==
  /\ req[c].at = "insert"
  /\ InsertDoc(req[c].doc, req[c].content, req[c].name)
  /\ Proceed(c, "uploaded")
  /\ UNCHANGED <<stage, chunks, jobs, storage, faults>>

StageUploaded(c) ==
  /\ req[c].at = "uploaded"
  /\ SetStage(req[c].doc, "upload", "done")
  /\ Proceed(c, "enqueue")
  /\ UNCHANGED <<status, info, chunks, jobs, storage, faults>>

\* The last step of a new upload, of a repeated one and of a reprocess request.
EnqueueIngest(c) ==
  /\ req[c].at = "enqueue"
  /\ Enqueue("ingest", req[c].doc, req[c].by)
  /\ Reply(c, "pending", req[c].doc)
  /\ UNCHANGED <<status, info, stage, chunks, storage, faults>>

\* reprocess_document: whatever the status is, "deleting" and "indexed" included.
StartReprocess(c) ==
  /\ Issue("reprocess", MaxReprocess)
  /\ \E d \in Docs, by \in Strategies :
       /\ MayAsk(d)
       /\ Begin(c, [Idle EXCEPT !.at = "reprocess", !.doc = d, !.by = by])
  /\ UNCHANGED <<store, faults>>

Reprocess(c) ==
  /\ req[c].at = "reprocess"
  /\ SetStatus(req[c].doc, "pending")
  /\ IF Exists(req[c].doc) THEN Proceed(c, "reset") ELSE Reply(c, "not_found", req[c].doc)
  /\ UNCHANGED <<info, stage, chunks, jobs, storage, faults>>

UploadStep(c) ==
  \/ StartUpload(c) \/ Find(c) \/ Requeue(c) \/ FindName(c) \/ Replace(c) \/ PurgeOld(c)
  \/ PutObject(c) \/ InsertDocument(c) \/ StageUploaded(c)

ReprocessStep(c) == StartReprocess(c) \/ Reprocess(c) \/ ResetStage(c) \/ EnqueueIngest(c)
=============================================================================
