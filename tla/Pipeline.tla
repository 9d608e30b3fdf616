------------------------------ MODULE Pipeline ------------------------------
(***************************************************************************)
(* The document pipeline: requests, the four worker stages, the stores     *)
(* they share, and restarts of the one instance they all run in.           *)
(***************************************************************************)
EXTENDS IngestWorker, EmbedWorker, IndexWorker, PurgeWorker, IngestApi, DocumentsApi

CONSTANTS
  MaxRestarts,   \* bounds on the restarts of the instance, and on the starts of
  MaxForeign     \* an instance with another embedding model on the same collection

ASSUME PipelineAssumption == MaxRestarts \in Nat /\ MaxForeign \in Nat

VARIABLES restarts, foreign

handlers == <<pc, job, loaded>>
vars     == <<store, faults, handlers, req, issued, restarts, foreign>>

Init ==
  /\ StoreInit
  /\ HandlersInit
  /\ RequestsInit
  /\ restarts = 0
  /\ foreign = 0

\* One step of a handler, whichever stage the worker polls.
Step(w)  == IngestStep(w) \/ EmbedStep(w) \/ IndexStep(w) \/ PurgeStep(w)
Fault(w) == IngestFault(w) \/ EmbedFault(w) \/ IndexFault(w) \/ PurgeFault(w)

WorkerNext ==
  /\ \E w \in Workers : Claim(w) \/ Step(w) \/ Fault(w)
  /\ UNCHANGED <<req, issued, restarts, foreign>>

RequestNext ==
  /\ \E c \in Clients : UploadStep(c) \/ ReprocessStep(c) \/ DeleteStep(c) \/ RequestFault(c)
  /\ UNCHANGED <<handlers, restarts, foreign>>

\* _probe_qdrant keeps a collection of the right dimension.
ProbedVectors == IF collection = "right" THEN vectors ELSE {}

\* recover_stale_jobs, for the jobs whose lock is old enough.
Recovered(old) == [i \in JobIds |-> IF i \in old THEN [jobs[i] EXCEPT !.row = RecoveredRow(@)]
                                   ELSE jobs[i]]

\* cleanup_old_jobs: the finished ones among the first rows, which are the oldest.
Cleaned(js, last) ==
  [i \in DOMAIN js |-> IF i <= last /\ js[i].row.status \in Final
                      THEN [js[i] EXCEPT !.row = RemovedRow] ELSE js[i]]

\* The instance dies, with its handlers and requests, and starts again: a missing
\* collection or one of another dimension is made anew, the processing jobs whose
\* lock is old enough go back to pending, and old finished ones are deleted.
Restart ==
  /\ restarts < MaxRestarts
  /\ restarts' = restarts + 1
  /\ pc' = [w \in Workers |-> "idle"]
  /\ job' = [w \in Workers |-> 0]
  /\ loaded' = [w \in Workers |-> {}]
  /\ req' = [c \in Clients |-> Idle]
  /\ \E old \in SUBSET {i \in JobIds : IsStale(jobs[i].row)} :
       \E last \in 0 .. Len(jobs) : jobs' = Cleaned(Recovered(old), last)
  /\ collection' = "right"
  /\ vectors' = ProbedVectors
  /\ UNCHANGED <<status, info, stage, chunks, objects, tables, faults, issued, foreign>>

\* Another instance, whose embedding model has another dimension, starts on the
\* same collection: its probe deletes and recreates it.
ForeignStart ==
  /\ foreign < MaxForeign
  /\ foreign' = foreign + 1
  /\ collection' = "wrong"
  /\ vectors' = {}
  /\ UNCHANGED <<rows, objects, tables, faults, handlers, req, issued, restarts>>

Next == WorkerNext \/ RequestNext \/ Restart \/ ForeignStart

Spec == Init /\ [][Next]_vars

\* Workers poll, handlers and requests go on; nobody has to send a request, and
\* nothing has to fail.
Idling == UNCHANGED <<req, issued, restarts, foreign>>

WorkerFairness ==
  \A w \in Workers : WF_vars(Claim(w) /\ Idling) /\ WF_vars(Step(w) /\ Idling)

RequestGoesOn(c) ==
  /\ req[c].at # "idle"
  /\ UploadStep(c) \/ ReprocessStep(c) \/ DeleteStep(c)
  /\ UNCHANGED <<handlers, restarts, foreign>>

FairSpec == Spec /\ WorkerFairness /\ \A c \in Clients : WF_vars(RequestGoesOn(c))
-----------------------------------------------------------------------------
TypeOK ==
  /\ StoreTypeOK
  /\ HandlersTypeOK
  /\ \A c \in Clients : req[c].doc \in Docs \cup {0} /\ req[c].old \in Docs \cup {0}
  /\ restarts \in 0 .. MaxRestarts
  /\ foreign \in 0 .. MaxForeign

ToBePurged(d) == \E i \in JobsOf(d) : jobs[i].stage = "purge"

\* Every request cut the document in the same way.
CutOnce(d) == \A i, k \in JobsOf(d) : jobs[i].by = jobs[k].by

\* "indexed" is a promise to search: every chunk row of the document has its
\* vector in the collection, whatever failed, was retried or ran twice before,
\* and also while a reprocess request runs a second pipeline next to the first.
\* A document that is being purged may lose its vectors first.
IndexedIsSearchable ==
  \A d \in Docs :
    status[d] = "indexed" /\ ~ToBePurged(d) /\ CutOnce(d)
      => ChunksOf(d) # {} /\ PointIds(ChunksOf(d)) \subseteq vectors

\* The same once a document's work is over, when a request cut it anew: the
\* chunks that a second strategy adds may wait for their vectors while the first
\* pipeline already says "indexed", but not forever.
SettledIsSearchable ==
  \A d \in Docs :
    status[d] = "indexed" /\ Settled(d) => PointIds(ChunksOf(d)) \subseteq vectors

\* No job of the document failed for good (or may have, before its row was deleted),
\* or found nothing to cut.  One may, although the document gets indexed: a stage
\* that enqueued the next one and could not ack is run again, next to the one it
\* enqueued, and so is a second request.
NoneFailed(d) ==
  \A i \in JobsOf(d) : /\ jobs[i].row.status \notin {"failed", "removed"}
                       /\ CutChunks(d, jobs[i].by) # {}

\* The status and the stage rows are written by different transactions, in any
\* order when two pipelines run, and may disagree for a while.  Once nobody works
\* on a document they agree: indexed means that all its stages are done
\* (scripts/queue_integration_test.py:390-396), whatever was retried.
SettledStagesDone ==
  \A d \in Docs :
    status[d] = "indexed" /\ Settled(d) /\ NoneFailed(d)
      => \A st \in StageNames : stage[d][st] = "done"

\* When no job of a document is live and no request is at work on it, its status
\* says how the pipeline ended (_TERMINAL_STATUSES, ingest.py:57), so that a new
\* upload of it knows whether to run it again.  Two pipelines of one document
\* overwrite each other's status, but the last to end has the last word.
QuietIsTerminal ==
  \A d \in Docs : Exists(d) /\ Settled(d) => status[d] \in Terminal

\* A document's purge takes everything of it away, in all four stores, when the
\* delete came after the pipeline had ended.
PurgeLeavesNothing ==
  \A d \in Docs :
    status[d] = "purged" =>
      /\ d \notin objects \cup tables
      /\ \A v \in vectors : v[1] # d

\* A document that nobody works on has its file in MinIO, so that it can be
\* processed again: a purge that took the file takes the row as well, and a request
\* that ended half-way has left both.  (A purge that fails in its last step breaks it:
\* the row stays, with the status "error", and a repeated upload is requeued from
\* the file that is gone, ingest.py:112-121.)
SettledHasFile == \A d \in Docs : Exists(d) /\ Settled(d) => d \in objects

\* Duplicate detection looks and inserts in two transactions (ingest.py:99, 194),
\* so overlapping uploads of one file may all insert it.  Nothing else adds a row
\* with a checksum that is there: there are never more than could overlap, and one
\* client that uploads, replaces and deletes in any order never makes a second.
DuplicatesBound ==
  \A content \in Contents :
    Cardinality({d \in Docs : Exists(d) /\ info[d].content = content}) <= Cardinality(Clients)

\* What a search sees of a document.
HasVectors(d) == \E v \in vectors : v[1] = d
IndexLife ==
  [d \in Docs |-> IF ChunksOf(d) # {}          THEN IF HasVectors(d) THEN "embedded" ELSE "chunked"
                  ELSE IF HasVectors(d)        THEN "orphaned"
                  ELSE IF status[d] = "purged" THEN "purged" ELSE "absent"]

SearchIndex == INSTANCE DocumentIndex WITH
  life <- IndexLife, Writable <- Docs, Tabular <- {}, Stored <- [d \in Docs |-> "absent"]

\* The pipeline changes what a search reads in the ways SearchEngine is checked
\* for, whatever requests, workers and purges overtake each other: no vectors
\* without rows before them, and rows that go once, with their document, and are
\* not brought back by a worker that still runs.
FeedsSearch == SearchIndex!IndexSpec

\* Every document that is uploaded ends: indexed, failed or deleted.
UploadsEnd ==
  \A d \in Docs : status[d] = "pending" ~> status[d] \in Terminal \cup {"purged"}

\* Every deletion is carried out, even when a worker puts another status over
\* "deleting".
DeletionsEnd ==
  \A d \in Docs : status[d] = "deleting" ~> status[d] = "purged"
=============================================================================
