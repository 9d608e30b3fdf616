# A TLA+ model of the CortexKB knowledge base

This directory holds a formal model of the program in this repository: a
service that takes uploaded documents through a pipeline of background stages
(ingest, embed, index), keeps them in four stores (PostgreSQL, MinIO, MindsDB,
a vector collection), deletes them again through a fourth stage (purge), and
shows its progress to clients as a stream of events, and answers searches over the
documents, those that are tables with SQL written by a language model.  The code
is ordinary asyncio Python; what makes it hard is that every handler is a
sequence of separate transactions and external calls, that any of them may fail,
and that requests, workers and restarts interleave between any two of them.

All paths below are relative to the repository's root (`app/...`).

## 1. The system

### Components, their state, their operations

| Component | Code | State | Operations that change it |
|---|---|---|---|
| Durable job queue | `app/workers/db_queue.py`, `PipelineJob` in `app/db/models.py` | rows of `pipeline_jobs`: status, attempt, scheduled_at, locked_at | `enqueue`, `claim` (polled by `wait_for_job`), `ack`, `nack`, `recover_stale_jobs`, `cleanup_old_jobs`, cascade from the document |
| Worker loops, life cycle | `app/workers/*_worker.py` (`run_*`), `app/workers/queue.py`, `app/main.py` | one coroutine per worker and the job it runs | start-up (recover, clean up, launch), shutdown, crash |
| Ingest worker | `app/workers/ingest_worker.py` | document status, chunk rows, stage rows, MindsDB | `_process_ingest_job`, `_process_tabular_job` |
| Embed worker | `app/workers/embed_worker.py` | vectors, the collection itself, document status | `_process_embed_job` with the recreation of a collection of another dimension |
| Index worker | `app/workers/index_worker.py` | full-text vectors, document status | `_process_index_job` |
| Purge worker | `app/workers/purge_worker.py` | all four stores | `_process_purge_job` |
| Upload and reprocess API | `app/api/routes/ingest.py` | documents, stages, jobs, objects | `upload_document`, `reprocess_document` |
| Documents API | `app/api/routes/documents.py` | document status, jobs | `delete_document` |
| Stage rows, event bus | `app/core/pipeline.py` | `pipeline_stages`, one queue per open stream | `update_stage`, `_broadcast`, `subscribe`, `unsubscribe` |
| Event streams | `app/api/routes/status.py` | where a stream is, what its client has been told | `_sse_generator` |
| Chunker | `app/ingestion/chunker.py` | loop counters, chunks | `chunk_document` |
| Start-up, choice of backends | `app/main.py` (`lifespan`), `app/core/startup.py`, `registry.py`, `app/vectorstore/__init__.py` | the registry, the active vector store, the Qdrant collection | `run_startup_probes`, `_probe_qdrant`, `_init_chroma`, `freeze`, `init_vector_store` |
| Search engine | `app/search/engine.py`, `app/api/routes/search.py` | a TTL cache in memory, the searches in flight | `search`, `_cache_get`, `_cache_set`, `_run_fts`, `_hybrid_search`, `_enrich_tabular_results` |
| Tabular query engine | `app/search/tabular_engine.py` | the query of one table in one search | `_generate_sql`, `_validate_sql`, execution, `_fix_sql` |
| Access | `app/api/deps.py`, `app/api/routes/bootstrap.py`, `admin.py`, `scripts/manage.py` | tenants, API keys, who knows which key | `bootstrap`, `create_tenant`, `create_key`, `revoke_key`, `recover_admin_key`, the command line |
| Storage adapters | `app/storage/`, `app/vectorstore/` | objects, tables, collections and points | puts, deletes, upserts, searches |
| Tabular profiler, parsers, embedder | `app/ingestion/tabular_profiler.py`, `app/parsers/`, `app/embedding/` | none | pure functions and calls into libraries |
| Health, config, sessions, migrations | `app/api/routes/health.py`, `app/core/config.py`, `app/db/` | none of their own | - |

### How they interact

* An API handler writes a document row and enqueues a job; a worker claims it,
  writes the document's status and stage rows as it goes, enqueues the job of the
  next stage and only then acks its own.  The only channel between stages is the
  job table; the only shared memory is the database and the stores.
* Nothing is locked across two statements.  Every status write is
  `UPDATE documents SET status = ... WHERE id = ...` without a look at the status
  it replaces, so an upload, a reprocess request, a deletion and a worker may
  overwrite each other.
* Deleting the document row cascades to its chunks, stages and jobs - also to
  jobs that are being run, whose `ack` and `nack` then match no row.  `enqueue` and
  `update_stage` swallow the foreign-key violation of a deleted document.
* A stage update is first committed and then put into the queue of every open
  stream, which drops it when it is full.
* A search reads what the workers write - rows with their full-text vectors, which a
  database trigger fills at insert (`app/db/migrate.py`), vectors, tables - one store
  after the other, so each store may have changed when the next one is read.  Its
  answer goes into a cache that no upload and no deletion ever clears.
* The start-up chooses the vector store for the life of the process; workers and
  searches use it without asking again.  Another start may choose the other one.

### What is hard

Interleavings of handlers that each consist of ten or more separate steps; a job
that runs twice (recovery, retry, reprocess, an ack that failed); a crash between
any two statements; a deletion at any point; failures that are swallowed; retries of
what was half done; searches that read while documents come and go, and answers that
outlive them; a restart in the middle of a start-up that replaces a collection; keys counted
before they are inserted; and loops and formulas at the limits of their parameters.
`PROJECT.json` lists each of these hazards at its line in the code, with the
properties that would catch it going wrong, or the reason why none does.

### What makes each component correct

* Queue: a job runs once at a time unless it was taken away; it ends, and stays
  ended; its attempts are bounded; a deleted job does not come back.
* Pipeline: "indexed" means searchable; a document nobody works on has a status
  that says how it ended, and stage rows that agree; its file is there, so
  that it can be processed again; every upload ends, every deletion is carried out
  and leaves nothing; there are not more rows of one content than there were
  concurrent uploads.
* Chunker: no text is lost, chunks are within the model's limit, neighbours
  overlap, the loop ends.
* Event streams: what a client is shown is what the database says.
* Search: an answer, cached or not, fits the question it is sent for; a deleted document
  is forgotten after a known time; a search that nothing disturbs misses nothing that its
  limits let in; every search ends.
* Tabular queries: no statement runs that the check (`_validate_sql`) has not passed, whatever the model answers.
* Start-up: the collection served from fits the vectors written to it; restarts do not
  lose vectors; what a purge leaves behind has one of three known reasons.
* Access: bootstrap is no back door, however often it is called and whatever is revoked.

## 2. The modules

```
TaskLifecycle       what a task queue promises, abstractly
JobTable            rows of pipeline_jobs, one operator per SQL statement
  JobQueue          the queue with workers, instances, clock       -> MCJobQueue
    JobQueueProofs
      JobQueueRefinement   JobQueue implements TaskLifecycle
  Store             all tables and stores, one operator per statement
    Handlers        worker loops, the moves handlers are made of
      IngestWorker  EmbedWorker  IndexWorker  PurgeWorker
    Requests        API requests in flight
      IngestApi  DocumentsApi
        Pipeline    the composition                                 -> MCPipeline
          PipelineProofs       types, the stored files, duplicates, what a search reads
            PipelineOutcomes   what "indexed", "over" and "purged" mean
Chunker             the sliding window                              -> MCChunker
  ChunkerProofs
PipelineEvents      stage updates and event streams                 -> MCPipelineEvents
  EventsProofs
DocumentIndex       what a search reads, and how it changes
  TabularQuery      one question to one table
    SearchEngine    searches in flight, with SearchCache            -> MCSearchEngine
      SearchProofs
Startup             the lifespan, the stores over restarts
Access              tenants and keys
  Deployment        both together                                   -> MCDeployment
    DeploymentProofs
```

**JobTable** has the row type and what each statement of `db_queue.py` does to one
row (`ClaimedRow`, `AckedRow`, `NackedRow`, `RecoveredRow`, ...).  Both the queue and
the pipeline are built on it.  Time is relative: `due` is `scheduled_at - now` and
`age` is `now - locked_at`, in ticks.

**JobQueue** is the queue in detail and the handlers in none: a worker that has
claimed a job acks, purges its document, nacks (a SELECT and an UPDATE, two
steps) or dies outside both.  `Stop` is a crash and also `shutdown_workers`: a
cancelled handler does not nack, because `CancelledError` is no `Exception`.  A start
is two steps, `Recover` and `Launch`, so another instance may act in between.
`Selectable` is `ORDER BY scheduled_at LIMIT 1 FOR UPDATE SKIP LOCKED`: an older row
is passed over only when another poller may have it locked.

**TaskLifecycle** knows nothing of tables, clocks, attempts or instances: a task is absent, pending,
processing, done, failed or removed, and has a set of agents that run it.  `Begin` asks for a task nobody runs and an
agent that runs nothing; `End` for the one agent that runs it; `Reissue`, the recovery, for a task whose agent is gone.
JobQueue implements it with `state` = the status column and `runners` = the workers that hold the job
(`Lifecycle`, `ExclusiveLifecycle`) - when there is one instance, as `docker-compose.yml` and the `Dockerfile` have it.  With two the
promise is broken by a steal, and `HoldersBound` says by how much.

**Store** has the shared state and one operator per statement or transaction on it.
A document id is "absent" before its insert and "purged" after its delete.
A chunk is known by its document, its index and the strategy that cut it; its
vector by document and index, as the chunk row's id, which is the point's id, is
fixed by the first insert (`ON CONFLICT DO NOTHING`).

**Handlers** and the four workers: a handler is a program over labels; each label is
one statement or external call of the code, in the code's order, and one atomic
step.  `Raise` takes any step inside the `try` to the `except` branch without its effect;
`Abandon` is a failure inside the `except` branch, caught by the loop of the worker,
after which the job stays "processing".  Failures the code swallows (MindsDB on
upload, three of the four stores on purge) are alternatives of the step itself.
`nack` is one step here, its two statements apart are JobQueue's business.

**Requests**, **IngestApi**, **DocumentsApi**: a request is a program over labels too, one per
transaction; what it read at one label may be stale at the next.

**Pipeline** composes them, with `Restart` (the instance dies between any two steps
and starts again; any processing job may or may not have timed out, which is what `Recovered`
chooses, and `Cleaned` is `cleanup_old_jobs`, which deletes the finished jobs of any first part of the table) and
`ForeignStart` (an instance whose embedding model has another dimension recreates the
shared collection).  The properties that ask what a document's jobs did (`NoneFailed`, `ToBePurged`) therefore
see only those that have not been cleaned up.

**Chunker** is the double loop of `chunker.py` over pages of tokens.  The text, and
the mapping of tokens to characters, are abstracted away: a chunk is a range of
token positions.

**PipelineEvents** has the commit and the broadcast of a stage update as two steps, and a stream
that subscribes, reads its snapshot, and then delivers events.  `processing` and `done`
stand for the five statuses: the code treats all alike here.  The stream of one document reads its snapshot from that
document, a stream of everything (`Lists`) from the newest `SnapshotLimit` documents (50 in the code), those of one moment
in any order.  The documents of the model are there from the beginning; a document beyond the limit is "unknown" to
the client until its first event.  `listed` is history: what the snapshot held.  Uploads after a snapshot are not
modelled: what the client learns of such a document are events, as of one beyond the limit.

**DocumentIndex** is the pipeline as a search sees it: a document is absent, chunked (its rows and its
table are there), embedded, gone - or gone with vectors left behind ("orphaned": the
purge overtook the embed worker, or its deletion failed).  Vectors may be lost and come again, rows never.  Its `IndexSpec` is the
abstract specification that Pipeline implements (`FeedsSearch`, with the mapping `IndexLife`), so that what a search is checked against
is what the workers do.

**SearchCache** has the two operations of the cache, each a step under its lock.  `_cache_set` evicts an oldest entry of a full cache
also when the key is there already.  **TabularQuery** is the loop of `query_tabular` against a
language model that may answer anything: a statement that runs, one that fails, one that writes, nothing, an exception.
**SearchEngine** puts them together: a request is a record that goes through `text` (three passes, each looser than the
one before), `vectors`, `fetch` (merge, cut to `top_k`, read the rows, apply `min_score`), `enrich` (all tables among the
results side by side) and `store`; every await on another service is a step, `Best` leaves ties open.  `gone` is the time
since the rows of a document went; it is history, the code has no such clock.

**Startup** is the lifespan of `main.py` probe by probe, with every outcome of each: Ollama or sentence-transformers (with
another dimension), Qdrant found, created, deleted and created again, or away, then Chroma.  Of the workers it has the steps that touch
the vectors: the embed worker loads, upserts and commits, a request marks the document, the purge worker deletes the vectors and
then the rows, so that either may overtake the other and a crash may come between any two steps.  `home`, `steady`
and `served` are history, and so is "overtaken", which marks a purge that an embed worker was at work beside.

**Access** has the read and the write of each call as separate steps, and the reply that tells the key as a third one.  **Deployment** lets calls happen only while an instance serves and loses
them when it ends; the command line of `scripts/manage.py` works on the database at any time.

`PROJECT.json` maps every definition to its lines.  Definitions preceded by "A
mutant" are not part of any specification: each is a plausible bug, and the
property it is listed with is violated when it takes the place of the definition
it is a mutant of.

## 3. Runs

| Run | What it asks | Distinct states |
|---|---|---|
| QueueOne | one instance, two jobs and a purge, three workers, two stops, fast restarts, a dying handler: `TypeOK`, `SoleInstanceNeverSteals`, `RemovedForGood`, and the refinement `ExclusiveLifecycle` | 342,700 |
| QueueTwo | a second instance whose start may steal jobs of the first: `HoldersBound`, `AttemptBound`, `EndedUnlessStolen`, and `JobEnds` under fairness | 60,202 |
| QueueFastRestart | *violated*: `StartupRecovers` | - |
| PipeFaults | one document, up to two failures anywhere in ingest and embed (a job is retried, fails for good, or is left behind), a deletion at any time: `TypeOK`, `IndexedIsSearchable`, `QuietIsTerminal`, `SettledStagesDone`, `SettledHasFile` | 878,397 |
| PipeReprocess | a reprocess request at any time with any strategy, two ingest and two embed workers: two pipelines of one document at once: `IndexedIsSearchable`, `SettledIsSearchable`, `QuietIsTerminal`, `SettledStagesDone` | 420,702 |
| PipeUploads | three uploads of two contents under one name by two clients, failed parses, requeued duplicates, replacements: `DuplicatesBound` | 870,421 |
| PipeStores | the deletion of a finished spreadsheet, with a failing batch, request or MindsDB upload, a restart that cleans up old jobs, and a foreign instance: `PurgeLeavesNothing`, `SettledHasFile` | 1,032,126 |
| PipeLive | two uploads, the second replaces the first at any stage, one failure in any step of a purge: `UploadsEnd`, `DeletionsEnd` under fairness, and the refinement `FeedsSearch` | 70,453 |
| Chunking | all documents of up to two pages with lengths around every limit, eight chunk sizes: `EveryTokenHeld`, `WithinLimits`, `NeighboursOverlap`, `Terminates` | 49,767 |
| Events | two pipelines, a stream of one document and one of everything whose snapshot has room for one of the two, overflow, deletion, reconnection: `TypeOK`, `CaughtUpIsCurrent`, `ViewsSettle` | 356,168 |
| Serving | two clients ask two questions, about a table, a memo and a note that is uploaded and purged meanwhile, with failing calls, restarts and a ticking cache: `TypeOK`, `OnlyReadsRun`, `AnswersTheQuestion`, `DeletedIsForgotten`, `CalmSearchIsComplete`, and `SearchesEnd` under fairness | 194,505 |
| Deployment | starts that end anywhere, Ollama and Qdrant that come and go, a document embedded and purged, also at once, under one choice or another, with crashes between any two steps of the workers; two callers and an operator at the keys, with lost replies: `ServingStoreFits`, `SteadyKeepsVectors`, `OrphansExplained`, `BootstrapOnce` | 2,581,832 |

### Bounds, and why they are enough

* Queue: `MaxAttempts = 2` has a first, a last and a retried attempt; `LockTimeout = 1` and
  `BackoffUnit = 1` tick tell "not yet" from "now"; three workers let one claim while another
  holds and a third purges.  `Horizon` bounds how far into the past `scheduled_at` is told apart,
  which matters only for the order of two due jobs.  The theorems of section 5 show
  the safety properties without these bounds.
* Pipeline: in it a job may be claimed at once (`BackoffUnit = 0`) and every lock may have
  timed out (`LockTimeout = 0`), which allows more behaviours than any back-off.  Two faults and two attempts let a job
  be retried, fail for good, or be left behind by a failing `except` branch; TLC found a divergence with two that
  one does not show (below).  Longer chains of failures are not checked.  "fast" cuts one chunk and "ocr" two, so that strategies differ; "none" cuts nothing.
  The interactions of two documents go through the filename and the checksum only, so
  three uploads by two clients meet each of them.  Each run switches on the actors its question is
  about and leaves out the others: all at once are beyond TLC.
* Chunking: sizes 1, 8, 15 (no chunk possible), 16, 32, 59 (gap possible), 60 (the first size
  without one), 96; lengths around the shortest chunk and the ends of the windows.
* Serving: one hybrid question of everything with `top_k = 1`, so that each half reads more than is answered and the merge decides
  (the memo wins by text, the table by vector, and their sums differ from both); one vector question of the note
  alone with a threshold.  The strict text passes find the note only, so that the passes are taken or not as it comes and goes.  A cache
  of one entry evicts at the second question; TTL and `MaxDuration` of one tick let an entry expire and a search be slow.
  One repair of a failing statement instead of two.  Lexical questions, other sizes, more repairs: the theorems of section 5 cover them for all
  properties but `SearchesEnd`.
* Deployment: one document is enough, as documents share nothing but the collections; two keys and two tenants are what two
  callers can create at once; of the roles there is only "admin", as `require_admin` refuses all others.  Two dimensions
  are needed, one of which is that of an unfilled registry (384, `registry.py:23`): 768 is what both default models have
  (`app/core/config.py`), 384 what a configured one may have.
* Events: `Capacity = 2` and three updates fill and overflow a queue (200 in the code); `SnapshotLimit = 1` leaves one of two documents out
  of a snapshot (50 in the code).

`CHECK_DEADLOCK FALSE` stands where the system may really stop: the pipeline when all requests have been made
(clients are bounded), the chunker at its end, the streams when nobody updates.  The queue never
stops, as its clock ticks.

### Fairness

`JobQueue!Fairness`: a poller that finds a due job claims one, a handler ends in some way, the
UPDATE of a nack follows its SELECT, an instance that is down comes back
(`restart: unless-stopped` in `docker-compose.yml`) and boots, the clock runs.  All are weak: asyncio runs every
coroutine that can go on, and PostgreSQL answers.  Nothing forces a job to be enqueued, an instance to
stop, or a handler to die.  `JobEnds` needs two conditions besides, and is false without either: no handler dies outside ack
and nack (`MaxFaults = 0`), and an instance does not come back before the locks it left have
timed out (`FastRestart = FALSE`).

`Pipeline!WorkerFairness`: every worker that can claim or take its next step does; a request that is in flight
goes on.  No request has to be made, nothing has to fail.

`SearchEngine!Fairness`: a request that has begun goes on with its own next call.  No request has to be made, no clock
has to tick, and the language model may answer badly for ever.

`PipelineEvents!Fairness`: broadcasts, snapshots and deliveries happen; nobody has to connect, update or leave.

## 4. What the violated run shows

* `StartupRecovers` - "Recover jobs that were 'processing' when the last instance died"
  (`app/main.py:50`): only jobs whose lock is older than five minutes are recovered, and only at the start.
  An instance that restarts sooner leaves its interrupted jobs in "processing" until a start that comes later.

### Known divergences without a run of their own

TLC reproduced most of these while the models were written, the others are read off the code; the properties above are
stated so that they hold in spite of them, and say so in their comments.

* A document is "indexed" before its stage row says "done", and for good if that write fails after it
  (`index_worker.py:37-42`); `SettledStagesDone` speaks of documents nobody works on.
* A stage that has enqueued the next one and then fails to ack is run again next to it.  If the second run fails for
  good the document is indexed with a stage in "failed", or "embed_failed" although it is searchable
  (`embed_worker.py:154-161`); likewise when a reprocess request finds no text to cut next to a pipeline that does.
  `SettledStagesDone` excepts both (`NoneFailed`).
* Every status write of a worker overwrites "deleting" (`ingest_worker.py:38`); `DeletionsEnd` shows that
  the purge happens all the same.
* Reprocessing with another strategy keeps the chunks of the first (`ingest_worker.py:199`, `ON CONFLICT DO NOTHING`;
  old chunks are never deleted).
* Concurrent uploads of one file make several rows of it, after which every further upload of it
  fails in `scalar_one_or_none` (`ingest.py:101-107`); `DuplicatesBound` bounds how many.
* When the index stage fails for good the document stays "embedded" (`index_worker.py:46-49`; `index_failed`, listed in
  `ingest.py:56`, is set nowhere).  `QuietIsTerminal` is checked with failures in the other stages.
* A purge that fails in its last step, the deletion of the row, sets the status "error" (`purge_worker.py:68-78`), which the upload handler
  takes for a failed ingestion ("reprocess from stored MinIO file", `ingest.py:112-121`).  The file is gone by then, and every
  attempt of the requeued document fails.  `SettledHasFile` is what remains true: it is checked and proved without failures in the purge.
* "Recreate collection with correct dim" (`embed_worker.py:95`): a worker whose upsert has failed deletes the collection without another look at it
  (line 118).  With two embed workers (`worker_concurrency` is 4 by default) both see the mismatch, the first makes the collection anew and writes its
  vectors, and the second drops it with them: the vectors of an indexed document are lost.  PipeStores has the healing with one embed worker,
  and no property claims more.
* When the recreation of a collection fails after its deletion, the collection is missing, every upsert of every document fails,
  and only the next start makes it anew (`embed_worker.py:118-119`).
* Two bootstrap requests may both count no keys and both make an administrator (`bootstrap.py:27-42`; "first run only",
  the repository's `README.md:26`): `BootstrapOnce` speaks of each caller by himself.
* Two pipelines of one document may broadcast in another order than they committed, and a stream then keeps the older
  status; `CaughtUpIsCurrent` asks for a `SoleWriter`.
* A stream of everything shows nothing of a document beyond the newest 50 until its next event (`status.py:100`).
* For `EMBEDDING_MAX_TOKENS` below 60 the last tokens of a page may be in no chunk (`chunker.py:143`); 60 is the
  least size at which the short last window always lies in the overlap.  A page shorter than the least chunk is
  dropped for every size.  (The docstring gives 96 as the default size, `app/core/config.py` has 500.)
* Vectors written after a purge are "orphaned until next cleanup sweep" (`embed_worker.py:141-142`): there is no sweep.  A search
  never names them (`DeletedIsForgotten`), but they take places in `top_k` (`CalmSearchIsComplete` allows for it).
* "Document is already being processed" (`ingest.py:157`) is also said of a document that only waits for its purge; the
  upload is dropped and the document then deleted.
* The key of the search cache leaves out `min_score` (`engine.py:30`): a search with a threshold is answered with what another one
  found without.  `AnswersTheQuestion` states what the key does keep apart.
* "The original summary text is kept as fallback" (`engine.py:390`): `query_tabular` returns its failure as text and never raises,
  so the failure replaces the summary, and is cached.
* "SQL execution failed after 2 retries" (`tabular_engine.py:292`) is also said when the first repair failed and nothing was retried.
* With `search_cache_max = 0` every search fails after its work is done (`engine.py:51`).
* `_probe_qdrant` replaces a collection of another dimension; the Chroma collection is kept whatever its dimension
  (`startup.py:144`), and every upsert and vector search then fails.
* Without Ollama and Qdrant the search mode is still "hybrid", as Chroma always is there: "fts_only" (`startup.py:202`) and with it
  the keyword search of `engine.py:228` are never reached at run time.
* `recover-key` takes `SELECT ... LIMIT 1` without an order (`admin.py:136`): with several tenants the key is for any of them.
* `mdb.delete_file` never raises, so the warning at `purge_worker.py:39` is never logged; a table that stays behind is not noticed.

## 5. Theorems

tlapm checks `JobQueueProofs`, `JobQueueRefinement`, `PipelineProofs`, `PipelineOutcomes`, `EventsProofs`, `ChunkerProofs`, `SearchProofs`
and `DeploymentProofs`; the constants are arbitrary but for the assumptions named in the modules that declare them, which TLC evaluates in
every run.  Every invariant and every action property that a passing run checks is a theorem, in some cases under a hypothesis about what may fail, given below.

**JobQueue**, from `TableAssumption`, `BackoffAssumption` and `QueueAssumption`, for any number of jobs, workers, instances, stops and faults:

* `TypeCorrect`: `Spec => []TypeOK`.  `TypeOK` has `LoopsOK` in it (a worker holds a job exactly while it runs one, and is off
  exactly while its instance is not up), without which no other property is inductive.
* `HoldersBounded`: `Spec => []HoldersBound`, a job has at most one worker, plus one per steal.  It is inductive together with
  `TypeOK` because it counts more than it needs to: a row that is not processing may have no holder but by a steal
  (`HolderLimit`).  A claim adds a holder and makes the row processing; a recovery makes it pending again and, if it had a holder, counts a
  steal; everything else lets holders go.  The lemmas `HoldersOnClaim`, `HoldersOnRelease`, `HoldersOnStop` do the counting.
* `SoleInstance`: with one instance nothing is ever stolen: when it recovers, all its workers are off.
* `EndedStays`: `Spec => EndedUnlessStolen`; by `HoldersBound` an ended job that was never stolen has no holder left, so nobody
  can write to its row.
* `AttemptsBounded`: `Spec => []AttemptBound`.  The strengthening `AttemptInv` counts `Retriers`, workers that are about to write
  a row back to pending with an attempt count they read below the maximum: each may give the job one more start, each
  needs a steal and hence a recovery to exist next to another.
* `RemovedStays`: `Spec => RemovedForGood`, directly from the step: every statement is by id, and none inserts.

* `LifecycleImplemented` (JobQueueRefinement): with one instance, `Spec => ExclusiveLifecycle`: JobQueue implements TaskLifecycle.  By
  `SoleInstance` there are no steals, so that by `HoldersBounded` a job has at most one holder (`HolderAlone`); every statement then is a step of the
  life of the job it is about and leaves every other job as it is.

**Pipeline**, for any documents, contents, names, strategies, workers of any stage, clients, requests, failures, restarts and starts of a foreign
instance, from `StoreAssumption` (documents are numbered in the order of their uploads and there is a strategy),
`HandlersAssumption`, `RequestsAssumption` (finitely many clients) and `PipelineAssumption`; TLC has checked each candidate for an invariant on a run
before its proof.  In `PipelineProofs`:

* `PipelineBase`: `Spec => []BaseInv`, what every other proof begins with.  It says of each label what may be relied on there: a
  worker is at a label of its stage's handler (`WorkersOK`) and runs a job of this stage that is processing or removed and that nobody
  else runs (`HeldOK`: with one instance, and a recovery only at its start); jobs are of documents that have been inserted, go with these when they
  are purged, and before that only when they are finished and a start cleans them up (`JobsOK`, `RestartRows`); a request carries what its label needs (`RequestsOK`), and the id of an upload is its own until its row is
  there (`FreshOK`).  Each step also goes `Forward`: documents are inserted once and deleted once, a job keeps its document, stage and strategy.
* `PipelineTypes` (`TypeOK`) follows from it.
* `DuplicatesAreBounded` (`DuplicatesBound`), with `AdmitInv`, which counts more than the property: documents of one content *and* uploads of it
  that have found none (`Admitted`).  An upload is admitted only when there is no row of the content, so that at that moment it is counted with other
  clients alone; afterwards it only turns into the row it inserts.
* `PipelineFeedsSearch` (`FeedsSearch`): Pipeline implements DocumentIndex.  `SearchInv` has the reason: what a handler holds, and what has
  a vector, is of a document that has or had rows (`Seen`), so that vectors never come before rows; `LifeEvolves` maps every step to one
  of the document's life, `Evolves`, or to a stutter.

In `PipelineOutcomes`, whose first part says by which step a worker comes to a label, a job, a status or a stage row to what it is:

* `IndexedSearchable` (`IndexedIsSearchable`), if no foreign instance starts, which deletes vectors of indexed documents.  `SearchableInv`
  carries the promise along the pipeline: chunk rows are what the document's jobs cut, an embed job has rows, an embed worker past its read
  holds all of them, and from its commit on all have vectors, as has the document of every index job.
* `QuietDocumentsHaveEnded` (`QuietIsTerminal`), if nothing fails in index, purge and requests and the instance does not restart: the except branches of
  index and purge leave the status alone, and a request that dies between its status write and its enqueue leaves a document pending with no job.
  `QuietInv`: the status is a last one, or somebody is still `Owed`: a live job whose handler has not come to its ending, or a request that has promised one.
* `SettledSearchable` (`SettledIsSearchable`), for any strategies, if nothing fails in ingest, embed and purge and no foreign instance starts.  The chunks of two
  strategies mix, and only the job that inserted some is sure to embed them.  `VectorInv` follows each single chunk: it has a vector,
  or a job `WillEmbed` it.  An embed worker that has read the table before the insert does not count, hence the condition on `loaded`; a failure may end the last job
  that would.  `KnowledgeInv` says which documents have nothing to cut.
* `IndexedStagesDone` (`SettledStagesDone`), if no request fails and the instance does not restart, which may both leave the stages half reset; workers may fail
  anywhere.  `StagesInv`: a stage row that is not done has somebody who `WillDo` it, a request that prepares the document or a job whose handler is
  not past it; so the order in which status and stages are written, which differs between two pipelines, does not matter in the end.
* `SettledFileKept` (`SettledHasFile`), if nothing fails in the purge, with any restarts, foreign starts and failures of the rest.  An upload puts its file
  before it inserts its row, and only a purge deletes it (`SourceIsKept`, a lemma of PipelineProofs); a purge that
  cannot fail goes on until the row is gone, across every restart, so that a document with a purge job is not settled (`PurgesGoOn`).
* `PurgedLeavesNothing` (`PurgeLeavesNothing`), if nothing fails in the purge and one client, who waits until a document's work is over, uploads one content
  (`OneAtATime`), with any restarts, foreign starts and failures of the rest.  `PurgeInv`: the purge is then the only live job of
  its document and no request is at work on it (`PurgedAlone`), so that what the purge worker has deleted stays deleted (`HasRemoved`) until the row goes.  An
  upload with the same name and another content replaces a document that is still processed, and a second client may delete or reprocess what the
  first is working on: in both cases a worker may write after the purge, and the property is false.

**PipelineEvents**, for any documents, streams, writers and capacities:

* `EventsTypes` (`TypeOK`), with the bound on the queues.
* `CaughtUp` (`CaughtUpIsCurrent`): with `SendingInv` (what a sole writer is about to broadcast is what the row says), `ClosedInv`, and `ViewInv`: for a stage that
  nobody is about to broadcast, the last event of it in a stream's queue is what the row says, and without one the client has been shown that
  already or the snapshot will show it - unless the queue has overflowed, or the document was not in the snapshot (`HasTold`).  The limit
  of the snapshot is a parameter: a stage of a document beyond it, of which no event has come, is the one thing a stream has not told.

**Chunker**, for all sizes, pages and lengths:

* `ChunksWithinLimits`, `ChunksOverlap`, `NoTokenLost`, from the inductive `IInv`: the three properties, `LastChunk` (where the last chunk of the current
  page ends relative to `i`), and `PageHeld` (every token before `i` is held, and the overlap after it).  The arithmetic is in
  `SizeFacts`: from 60 on `MIN_CHUNK_TOKENS <= CHUNK_OVERLAP + 1`, so that a window too short to be cut lies in the overlap.

**SearchEngine**, for any documents, questions, clients, replies, sizes and terms of the cache:

* `SearchTypes` (`TypeOK`, with the bound on the cache), `OnlyReads`, `AnswersFit`, `DeletedForgotten`, all from the inductive
  `IInv == IndexInv /\ CacheInv /\ RequestInv /\ QueryInv`.
* The heart is `Remembered(S, n)`: every document of `S` has rows or lost them at most `n` ticks ago.  It holds for what a request has found with the age of the
  request, as everything found was seen as a row after the request began (a vector hit only counts when its row is
  fetched; a lexical search reads no vectors), and so for a cached answer with `MaxDuration` plus the age of the entry.  A write
  resets nothing and starts the clock of a purged document at zero; a tick makes all ages one greater; `GoneCap`
  stops the clock only where nothing is asked any more.
* An answer stays within `document_id` and `top_k` of every question with its key: scope and size are part of the key.
* The cache is bounded because a full one evicts first (`AfterSetWell`); cardinalities come from FiniteSetTheorems.
* `CalmSearchComplete` (`CalmSearchIsComplete`, an action property), for any scores, weights, texts that match and limits, from `CalmInv`: while no
  document is written, what a search has read is up to date (`UpToDate`): the passes behind it found nothing, and what it keeps are
  the best `Depth` of the first pass that finds anything (`FirstPassIs`), and of the vectors.  A write to any document takes the calm of all searches that still
  read.  At the end, a hybrid search of two lists that were not cut short has read all there is (`TopOfWhole`), and one of a single source is not cut a
  second time (`TopOfTop`); what the fusion then leaves out scores no better, and something is left out only if `top_k` were taken
  (`MissedIsNoBetter`), of which those without a row are skipped and not replaced.  Where a list of a hybrid search was cut short, a document in the
  middle of both can be missed although its sum is the highest; the property says nothing of that case.
* What the regular expression accepts is an input: what runs is "good" or "bad" (`Sound`), as both the generated and the repaired statement are checked, and what is repaired has a repair left.

**Deployment**, for any documents, dimensions, callers, keys and tenants:

* `DeploymentTypes` (type correctness, which only the theorem states; no run repeats it), `QdrantFits`: with `PhaseInv`, which says what each phase of a start-up knows: the dimension is that of a model
  from the embedding probe on, the collection is gone in `recreate`, and fits once the registry names Qdrant.
* `VectorsKept`: with `SteadyInv`, by which a probe that finds the dimension of a steady document does not replace its collection.
* `OrphansAreExplained` (`OrphansExplained`): with `OrphanInv`, for any interleaving of embed worker, purge worker, crashes and starts: vectors
  are only in stores that have served; from the step in which a purge deletes them until the rows are gone, and after that, there are none in the
  active store unless an embed worker had loaded the document's chunks; so what else stays behind is in the other store.
* `OneBootstrapEach`: with `BootstrapInv`: a caller that has counted no keys has none that its bootstrap made; a row
  once inserted is never deleted, so that the count of a caller that has one is never zero again.

Only model-checked: the liveness properties (`JobEnds`, `UploadsEnd`, `DeletionsEnd`, `Terminates`, `ViewsSettle`, `SearchesEnd`), which are out of this prover's reach.  The cases that the hypotheses above leave out are
model-checked where a run has them: a foreign start in PipeStores.

## 6. Not modelled

* `_build_char_offsets` (bytes to characters), MIME detection, SQL and prompt texts, Markdown, the tabular profiler: formatting and parsing.
  Results carry documents and scores, not texts.
* Parsers and embedder: calls into libraries.  What they return, and that they fail, are inputs.  Two losses there are listed as
  hazards: elements without a page number (`parsers/unstructured.py:45`) and special tokens in a text (`chunker.py:40`).
* A commit that succeeds although its caller is told that it failed (a connection lost at that moment): a step of a handler either
  happens or raises.
* Documents of several chunks in a search: a chunk is a hit like any other, and nothing groups them.
* Tenants: every query is restricted to one; the models of pipeline and search are of one tenant.
* Health probes, listings and status handlers only read.  Configuration, sessions and migrations are values and DDL; the
  trigger that fills the full-text vectors is in DocumentIndex.
* The audit log, logging, the parser's process pool, labels of keys and the time of their last use.

## 7. Plan

Done: the queue, its abstract specification and its proofs; the pipeline with all workers and the requests that change it, with
proofs of all its safety properties and of the refinement of DocumentIndex; the chunker and its proofs; the event streams and theirs; search, cache and tabular queries with proofs; start-up, stores over
restarts and keys with proofs.

Left:

1. `SettledSearchable` with failures in ingest that are retried: a job that fails and goes back to pending is still owed.
2. The character offsets of the chunker.
