-------------------------- MODULE PipelineOutcomes --------------------------
(***************************************************************************)
(* Theorems about what the pipeline's outcomes mean: an indexed document   *)
(* is searchable, one that nobody works on has ended, all its stages are   *)
(* done, and nothing is left of one that has been purged.                  *)
(*                                                                         *)
(* The first part says where a step may have come from: which step takes   *)
(* a worker to a label, adds a job, writes a status.                       *)
(***************************************************************************)
EXTENDS PipelineProofs

(* A step of a worker moves that worker alone. *)
LEMMA Moved ==
  ASSUME BaseInv, NEW w \in Workers, Claim(w) \/ Step(w) \/ Fault(w)
  PROVE  /\ \E l : pc' = [pc EXCEPT ![w] = l]
         /\ \E i : job' = [job EXCEPT ![w] = i]
         /\ \E cs : loaded' = [loaded EXCEPT ![w] = cs]
         /\ \/ Claim(w) /\ loaded' = loaded
            \/ pc[w] # "idle" /\ job' = job /\ (loaded' = loaded \/ LoadChunks(w))
            \/ pc[w] # "idle" /\ pc'[w] = "idle" /\ loaded'[w] = {}
<1> USE DEF WriteStage, WriteStatus, EnqueueNext, AckJob, NackJob, Raise, Abandon, Except, Goto, Return
<1>0. /\ job' = job => \E i : job' = [job EXCEPT ![w] = i]
      /\ loaded' = loaded => \E cs : loaded' = [loaded EXCEPT ![w] = cs]
  <2>1. job = [job EXCEPT ![w] = job[w]] /\ loaded = [loaded EXCEPT ![w] = loaded[w]]
    BY DEF BaseInv, WorkersOK
  <2> QED BY <2>1
<1>1. Return(w) => pc'[w] = "idle" /\ loaded'[w] = {}
  BY DEF BaseInv, WorkersOK
<1>2. CASE Claim(w)
  BY <1>0, <1>2 DEF Claim
<1>3. CASE IngestStep(w) \/ IngestFault(w)
  <2>1. \/ Return(w) /\ pc[w] # "idle"
        \/ (\E l : pc' = [pc EXCEPT ![w] = l]) /\ UNCHANGED <<job, loaded>> /\ pc[w] # "idle"
    BY <1>3 DEF IngestStep, IngestFault, FetchAndParse, UploadTable, Cut, InsertChunks, IngestBody, IngestExcept
  <2> QED BY <1>0, <1>1, <2>1
<1>4. CASE EmbedStep(w) \/ EmbedFault(w)
  <2>1. CASE Upsert(w)
    <3>1. (\E l : pc' = [pc EXCEPT ![w] = l]) /\ UNCHANGED <<job, loaded>> /\ pc[w] # "idle"
      BY <2>1 DEF Upsert, BaseInv, StoreTypeOK
    <3> QED BY <1>0, <3>1
  <2>2. CASE LoadChunks(w)
    BY <1>0, <2>2 DEF LoadChunks
  <2>3. CASE ~Upsert(w) /\ ~LoadChunks(w)
    <3>1. \/ Return(w) /\ pc[w] # "idle"
          \/ (\E l : pc' = [pc EXCEPT ![w] = l]) /\ UNCHANGED <<job, loaded>> /\ pc[w] # "idle"
      BY <1>4, <2>3 DEF EmbedStep, EmbedFault, Guard, UpsertPart, DropCollection, CreateCollection,
             RetryUpsert, CommitEmbedded, EmbedBody, EmbedExcept
    <3> QED BY <1>0, <1>1, <3>1
  <2> QED BY <2>1, <2>2, <2>3
<1>5. CASE IndexStep(w) \/ IndexFault(w)
  <2>1. \/ Return(w) /\ pc[w] # "idle"
        \/ (\E l : pc' = [pc EXCEPT ![w] = l]) /\ UNCHANGED <<job, loaded>> /\ pc[w] # "idle"
    BY <1>5 DEF IndexStep, IndexFault, IndexBody, IndexExcept
  <2> QED BY <1>0, <1>1, <2>1
<1>6. CASE PurgeStep(w) \/ PurgeFault(w)
  <2>1. \/ Return(w) /\ pc[w] # "idle"
        \/ (\E l : pc' = [pc EXCEPT ![w] = l]) /\ UNCHANGED <<job, loaded>> /\ pc[w] # "idle"
    BY <1>6 DEF PurgeStep, PurgeFault, PurgeVectors, PurgeTable, PurgeObject, PurgeRow, MarkPurgeError
  <2> QED BY <1>0, <1>1, <2>1
<1> QED BY <1>2, <1>3, <1>4, <1>5, <1>6 DEF Step, Fault

\* What a step of the system may do to a worker that runs a job after it.
Stays(w) == pc'[w] = pc[w] /\ job'[w] = job[w] /\ loaded'[w] = loaded[w]

(* A worker that runs a job after a step has stayed, claimed it, or gone on with it. *)
LEMMA WorkerMoves ==
  ASSUME BaseInv, [Next]_vars, NEW w \in Workers, pc'[w] # "idle"
  PROVE  \/ Stays(w)
         \/ Claim(w) /\ loaded' = loaded
         \/ /\ Step(w) \/ Fault(w)
            /\ job'[w] = job[w] /\ pc[w] # "idle" /\ (loaded' = loaded \/ LoadChunks(w))
<1>1. CASE UNCHANGED handlers
  BY <1>1 DEF handlers, Stays
<1>2. CASE Restart
  BY <1>2 DEF Restart
<1>3. CASE WorkerNext
  <2>1. PICK v \in Workers : Claim(v) \/ Step(v) \/ Fault(v)
    BY <1>3 DEF WorkerNext
  <2>2. CASE v = w
    <3>1. Claim(w) \/ Step(w) \/ Fault(w)
      BY <2>1, <2>2
    <3>2. \/ Claim(w) /\ loaded' = loaded
          \/ pc[w] # "idle" /\ job' = job /\ (loaded' = loaded \/ LoadChunks(w))
      BY <3>1, Moved
    <3> QED BY <3>1, <3>2 DEF Claim
  <2>3. CASE v # w
    <3>1. PICK l, i, cs : /\ pc' = [pc EXCEPT ![v] = l]
                          /\ job' = [job EXCEPT ![v] = i]
                          /\ loaded' = [loaded EXCEPT ![v] = cs]
      BY <2>1, Moved
    <3> QED BY <2>3, <3>1 DEF BaseInv, WorkersOK, Stays
  <2> QED BY <2>2, <2>3
<1> QED BY <1>1, <1>2, <1>3 DEF Next, RequestNext, ForeignStart, vars

(* A job that is run after a step is of the same document and strategy before it. *)
LEMMA SameRun ==
  ASSUME BaseInv, [Next]_vars, NEW w \in Workers, pc[w] # "idle", job'[w] = job[w]
  PROVE  /\ DocOf(w) \in Docs /\ DocOf(w)' = DocOf(w) /\ jobs[job[w]].by \in Strategies
         /\ jobs'[job'[w]].by = jobs[job[w]].by /\ jobs'[job'[w]].stage = jobs[job[w]].stage
         /\ job[w] \in JobIds /\ job[w] \in JobsOf(DocOf(w))
         /\ jobs[job[w]].stage = LabelStage(pc[w])
BY RunFacts, BaseStep DEF Forward, DocOf, JobsOf

(* Which steps take a worker to a label. *)
LEMMA Arrivals ==
  ASSUME BaseInv, NEW w \in Workers, Step(w) \/ Fault(w)
  PROVE  /\ pc'[w] = "insert" => Cut(w)
         /\ pc'[w] = "chunked" => InsertChunks(w)
         /\ pc'[w] = "next" => WriteStage(w, "chunked", "chunk", "done", "next")
         /\ pc'[w] = "upsert" => LoadChunks(w)
         /\ pc'[w] = "commit" => Upsert(w) \/ RetryUpsert(w)
         /\ pc'[w] = "embedded" => CommitEmbedded(w)
         /\ pc'[w] = "to_index" => WriteStage(w, "embedded", "embed", "done", "to_index")
         /\ pc'[w] = "heal" => Upsert(w)
         /\ pc'[w] = "create" => DropCollection(w)
         /\ pc'[w] = "retry" => CreateCollection(w)
<1> DEFINE L == {"insert", "chunked", "next", "upsert", "commit", "embedded", "to_index",
                 "heal", "create", "retry"}
<1>1. \A l : pc' = [pc EXCEPT ![w] = l] => pc'[w] = l
  BY DEF BaseInv, WorkersOK
<1>2. ASSUME Except(w) PROVE pc'[w] \notin L
  <2>1. pc'[w] = Handler[WorkerStage[w]] /\ WorkerStage[w] \in JobStages
    BY <1>1, <1>2, HandlersAssumption DEF Except, Goto
  <2>2. \A s \in JobStages : Handler[s] \notin L
    BY DEF Handler, JobStages
  <2> QED BY <2>1, <2>2
<1>3. ASSUME Return(w) PROVE pc'[w] \notin L
  BY <1>1, <1>3 DEF Return
<1>4. ASSUME NEW here, NEW st, NEW s, NEW next, WriteStage(w, here, st, s, next) PROVE pc'[w] = next
  BY <1>1, <1>4 DEF WriteStage, Goto
<1>5. ASSUME NEW here, NEW s, NEW next, WriteStatus(w, here, s, next) PROVE pc'[w] = next
  BY <1>1, <1>5 DEF WriteStatus, Goto
<1>6. ASSUME NEW here, NEW st, NEW next, EnqueueNext(w, here, st, next) PROVE pc'[w] = next
  BY <1>1, <1>6 DEF EnqueueNext, Goto
<1>7. ASSUME NEW body, Raise(w, body) \/ Abandon(w, body) \/ AckJob(w, body) \/ NackJob(w, body)
      PROVE  pc'[w] \notin L
  BY <1>2, <1>3, <1>7 DEF Raise, Abandon, AckJob, NackJob
<1> HIDE DEF L
<1>8. CASE IngestStep(w) \/ IngestFault(w)
  <2>1. CASE FetchAndParse(w) \/ UploadTable(w) \/ Cut(w) \/ InsertChunks(w)
    BY <1>1, <1>2, <2>1 DEF FetchAndParse, UploadTable, Cut, InsertChunks, Goto, L
  <2> QED BY <1>4, <1>5, <1>6, <1>7, <1>8, <2>1 DEF IngestStep, IngestFault, L
<1>9. CASE EmbedStep(w) \/ EmbedFault(w)
  <2>1. CASE Upsert(w)
    BY <1>1, <1>2, <2>1 DEF Upsert, Goto, L, BaseInv, StoreTypeOK
  <2>2. CASE Guard(w) \/ LoadChunks(w) \/ UpsertPart(w) \/ DropCollection(w)
             \/ CreateCollection(w) \/ RetryUpsert(w) \/ CommitEmbedded(w)
    BY <1>1, <1>2, <2>2 DEF Guard, LoadChunks, UpsertPart, DropCollection, CreateCollection, RetryUpsert,
           CommitEmbedded, Goto, L
  <2> QED BY <1>4, <1>5, <1>6, <1>7, <1>9, <2>1, <2>2 DEF EmbedStep, EmbedFault, L
<1>10. CASE IndexStep(w) \/ IndexFault(w)
  BY <1>4, <1>5, <1>6, <1>7, <1>10 DEF IndexStep, IndexFault, L
<1>11. CASE PurgeStep(w) \/ PurgeFault(w)
  <2>1. CASE PurgeVectors(w) \/ PurgeTable(w) \/ PurgeObject(w) \/ PurgeRow(w) \/ MarkPurgeError(w)
    BY <1>1, <1>3, <2>1 DEF PurgeVectors, PurgeTable, PurgeObject, PurgeRow, MarkPurgeError, Goto, L
  <2> QED BY <1>7, <1>11, <2>1 DEF PurgeStep, PurgeFault, L
<1> QED BY <1>8, <1>9, <1>10, <1>11 DEF Step, Fault

Acks  == {"ingest_ack", "embed_ack", "index_ack"}
Nacks == {"ingest_nack", "embed_nack", "index_nack", "purge_nack"}

(* Which steps write to the table of jobs. *)
LEMMA JobsOfWorkers ==
  ASSUME NEW w \in Workers, Claim(w) \/ Step(w) \/ Fault(w)
  PROVE  \/ jobs' = jobs \/ Claim(w) \/ PurgeRow(w)
         \/ EnqueueNext(w, "next", "embed", "ingest_ack") \/ EnqueueNext(w, "to_index", "index", "embed_ack")
         \/ (\E l \in Acks : AckJob(w, l)) \/ (\E l \in Nacks : NackJob(w, l))
<1> USE DEF WriteStage, WriteStatus, Raise, Abandon, store, rows, Acks, Nacks
<1>1. CASE IngestStep(w) \/ IngestFault(w)
  BY <1>1 DEF IngestStep, IngestFault, FetchAndParse, UploadTable, Cut, InsertChunks
<1>2. CASE EmbedStep(w) \/ EmbedFault(w)
  BY <1>2 DEF EmbedStep, EmbedFault, Guard, LoadChunks, Upsert, UpsertPart, DropCollection,
         CreateCollection, RetryUpsert, CommitEmbedded
<1>3. CASE IndexStep(w) \/ IndexFault(w)
  BY <1>3 DEF IndexStep, IndexFault
<1>4. CASE PurgeStep(w) \/ PurgeFault(w)
  BY <1>4 DEF PurgeStep, PurgeFault, PurgeVectors, PurgeTable, PurgeObject, MarkPurgeError
<1> QED BY <1>1, <1>2, <1>3, <1>4 DEF Step, Fault

(* A request writes to it by enqueueing. *)
LEMMA JobsOfRequests ==
  ASSUME NEW c \in Clients, UploadStep(c) \/ ReprocessStep(c) \/ DeleteStep(c) \/ RequestFault(c)
  PROVE  jobs' = jobs \/ EnqueueIngest(c) \/ PurgeOld(c) \/ EnqueuePurge(c)
<1>1. CASE StartUpload(c) \/ Find(c) \/ FindName(c) \/ StartReprocess(c) \/ StartDelete(c) \/ RequestFault(c)
  BY <1>1, Zenon DEF StartUpload, Find, FindName, StartReprocess, StartDelete, RequestFault, store, rows
<1>2. CASE Requeue(c) \/ Replace(c) \/ PutObject(c) \/ InsertDocument(c) \/ StageUploaded(c)
           \/ ResetStage(c) \/ Reprocess(c) \/ MarkDeleting(c)
  BY <1>2 DEF Requeue, Replace, PutObject, InsertDocument, StageUploaded, ResetStage, Reprocess,
         MarkDeleting, rows
<1> QED BY <1>1, <1>2 DEF UploadStep, ReprocessStep, DeleteStep

(* Which steps add a job: a request, an ingest worker that is done, an embed worker that is. *)
LEMMA NewJobs ==
  ASSUME BaseInv, [Next]_vars, NEW i \in JobIds' \ JobIds
  PROVE  /\ Exists(jobs'[i].doc) /\ jobs'[i].row = NewRow /\ jobs'[i].doc \in Docs
         /\ \/ \E c \in Clients : /\ EnqueueIngest(c) /\ req[c].by \in Strategies
                                  /\ jobs'[i] = NewJob("ingest", req[c].doc, req[c].by)
            \/ /\ jobs'[i].stage = "purge"
               /\ \E c \in Clients : \/ EnqueuePurge(c) /\ jobs'[i].doc = req[c].doc
                                     \/ PurgeOld(c) /\ jobs'[i].doc = req[c].old
            \/ \E w \in Workers : /\ EnqueueNext(w, "next", "embed", "ingest_ack")
                                  /\ jobs'[i] = NewJob("embed", DocOf(w), jobs[job[w]].by)
            \/ \E w \in Workers : /\ EnqueueNext(w, "to_index", "index", "embed_ack")
                                  /\ jobs'[i] = NewJob("index", DocOf(w), jobs[job[w]].by)
<1>1. DOMAIN jobs' # DOMAIN jobs
  BY DEF JobIds
<1>2. ASSUME NEW st \in JobStages, NEW d \in Docs, NEW by \in Strategies, Enqueue(st, d, by)
      PROVE  /\ Exists(jobs'[i].doc) /\ jobs'[i].row = NewRow
             /\ jobs'[i] = NewJob(st, d, by) /\ jobs'[i].stage = st /\ jobs'[i].doc = d
  <2>1. JobsAdded /\ jobs'[i] = NewJob(st, d, by)
    BY <1>2, JobEnqueued DEF BaseInv
  <2> QED BY <2>1 DEF JobsAdded, NewJob
<1>3. CASE WorkerNext
  <2>1. PICK w \in Workers : Claim(w) \/ Step(w) \/ Fault(w)
    BY <1>3 DEF WorkerNext
  <2>2. EnqueueNext(w, "next", "embed", "ingest_ack") \/ EnqueueNext(w, "to_index", "index", "embed_ack")
    BY <1>1, <2>1, JobsOfWorkers DEF Claim, AckJob, NackJob, PurgeRow, DeleteDoc, JobIds, rows
  <2>3. DocOf(w) \in Docs /\ jobs[job[w]].by \in Strategies
    BY <2>2, RunFacts DEF EnqueueNext
  <2>4. CASE EnqueueNext(w, "next", "embed", "ingest_ack")
    BY <1>2, <2>3, <2>4 DEF EnqueueNext, JobStages
  <2>5. CASE EnqueueNext(w, "to_index", "index", "embed_ack")
    BY <1>2, <2>3, <2>5 DEF EnqueueNext, JobStages
  <2> QED BY <2>2, <2>4, <2>5
<1>4. CASE RequestNext
  <2>1. PICK c \in Clients : UploadStep(c) \/ ReprocessStep(c) \/ DeleteStep(c) \/ RequestFault(c)
    BY <1>4 DEF RequestNext
  <2>2. EnqueueIngest(c) \/ PurgeOld(c) \/ EnqueuePurge(c)
    BY <1>1, <2>1, JobsOfRequests
  <2>3. Carries(req[c])
    BY RequestCarries
  <2>4. CASE EnqueueIngest(c)
    <3>1. req[c].doc \in Docs /\ req[c].by \in Strategies
      BY <2>3, <2>4 DEF EnqueueIngest, Carries, Fresh, Early
    <3> QED BY <1>2, <2>4, <3>1 DEF EnqueueIngest, JobStages
  <2>5. CASE PurgeOld(c)
    <3>1. req[c].old \in Docs /\ req[c].by \in Strategies
      BY <2>3, <2>5 DEF PurgeOld, Carries, Fresh, Early
    <3> QED BY <1>2, <2>5, <3>1 DEF PurgeOld, JobStages
  <2>6. CASE EnqueuePurge(c)
    <3>1. req[c].doc \in Docs
      BY <2>3, <2>6 DEF EnqueuePurge, Carries
    <3>2. PICK by \in Strategies : by = CHOOSE b \in Strategies : TRUE
      BY StoreAssumption
    <3>3. Enqueue("purge", req[c].doc, by)
      BY <2>6, <3>2 DEF EnqueuePurge
    <3> QED BY <1>2, <2>6, <3>1, <3>3 DEF JobStages
  <2> QED BY <2>2, <2>4, <2>5, <2>6
<1>5. CASE Restart \/ ForeignStart \/ UNCHANGED vars
  <2>1. CASE Restart
    BY <1>1, <2>1, RestartRows
  <2> QED BY <1>1, <1>5, <2>1 DEF ForeignStart, vars, store, rows, JobIds
<1> QED BY <1>3, <1>4, <1>5 DEF Next
-----------------------------------------------------------------------------
(* An indexed document is searchable.                                        *)

\* What the property speaks of: a document that is not being purged and that all
\* requests cut in the same way.
Clean(d) == ~ToBePurged(d) /\ CutOnce(d)

Covered(d) == ChunksOf(d) # {} /\ PointIds(ChunksOf(d)) \subseteq vectors

CutByItsJobs(d) == ChunksOf(d) = {} \/ \E i \in JobsOf(d) : ChunksOf(d) = CutChunks(d, jobs[i].by)

\* A job is there when the stage before it has done its work, ...
JobReady(i) ==
  /\ jobs[i].stage = "embed" => ChunksOf(jobs[i].doc) # {}
  /\ jobs[i].stage = "index" => Covered(jobs[i].doc)

\* ... and so is a worker at a label; an embed worker holds the chunks there are.
WorkerReady(w) ==
  /\ pc[w] = "insert" => CutChunks(DocOf(w), jobs[job[w]].by) # {}
  /\ pc[w] \in {"chunked", "next"} => ChunksOf(DocOf(w)) # {}
  /\ pc[w] \in {"upsert", "commit"} => loaded[w] = ChunksOf(DocOf(w))
  /\ pc[w] = "commit" => PointIds(loaded[w]) \subseteq vectors
  /\ pc[w] \in {"embedded", "to_index"} => Covered(DocOf(w))

\* Without an instance of another model the collection is never healed.
NoHealing ==
  /\ collection = "right"
  /\ \A w \in Workers : pc[w] \notin {"heal", "create", "retry"}

DocumentReady(d) ==
  /\ CutByItsJobs(d)
  /\ status[d] = "indexed" => Covered(d)
  /\ \A i \in JobsOf(d) : JobReady(i)

SearchableInv ==
  /\ NoHealing
  /\ \A d \in Docs : Clean(d) => DocumentReady(d)
  /\ \A w \in Workers : pc[w] # "idle" /\ Clean(DocOf(w)) => WorkerReady(w)

(* Without a foreign instance the collection is never replaced. *)
LEMMA NoHealingStep ==
  ASSUME MaxForeign = 0, BaseInv, TypeOK, NoHealing, [Next]_vars
  PROVE  NoHealing'
<1>1. ~ForeignStart
  BY DEF ForeignStart, TypeOK
<1>2. \A w \in Workers : ~DropCollection(w) /\ ~CreateCollection(w) /\ ~RetryUpsert(w)
  BY DEF NoHealing, DropCollection, CreateCollection, RetryUpsert
<1>3. collection' = "right"
  BY <1>1, <1>2, CollectionStep DEF NoHealing, Restart
<1>4. ASSUME NEW w \in Workers, pc'[w] \in {"heal", "create", "retry"} PROVE FALSE
  <2>1. CASE Stays(w)
    BY <1>4, <2>1 DEF Stays, NoHealing
  <2>2. CASE Claim(w)
    <3>1. pc'[w] = Entry[WorkerStage[w]]
      BY <2>2 DEF Claim, BaseInv, WorkersOK
    <3>2. \A s \in JobStages : Entry[s] \notin {"heal", "create", "retry"}
      BY DEF Entry, JobStages
    <3> QED BY <1>4, <3>1, <3>2, HandlersAssumption
  <2>3. CASE Step(w) \/ Fault(w)
    <3>1. Upsert(w) /\ pc'[w] = "heal"
      BY <1>2, <1>4, <2>3, Arrivals
    <3>2. Goto(w, "commit")
      BY <3>1 DEF Upsert, NoHealing
    <3> QED BY <3>1, <3>2 DEF Goto, BaseInv, WorkersOK
  <2> QED BY <1>4, <2>1, <2>2, <2>3, WorkerMoves
<1> QED BY <1>3, <1>4 DEF NoHealing

(* A document that is clean after a step was so before. *)
LEMMA CleanBefore ==
  ASSUME BaseInv, [Next]_vars, NEW d \in Docs, Clean(d)'
  PROVE  Clean(d)
<1>1. Forward
  BY BaseStep
<1>2. ~ToBePurged(d)
  BY <1>1, PurgeStays DEF Clean
<1>3. CutOnce(d)
  BY <1>1 DEF Clean, CutOnce, JobsOf, Forward
<1> QED BY <1>2, <1>3 DEF Clean

(* The content of a document that has jobs, and with it how it is cut, does not change. *)
LEMMA SameCut ==
  ASSUME BaseInv, [Next]_vars, NEW d \in Docs, status[d] # "absent"
  PROVE  info'[d] = info[d] /\ \A by \in Strategies : CutChunks(d, by)' = CutChunks(d, by)
<1>1. info'[d] = info[d]
  <2>1. CASE \E c \in Clients : InsertDocument(c)
    <3>1. PICK c \in Clients : InsertDocument(c)
      BY <2>1
    <3>2. d # req[c].doc
      BY <3>1 DEF InsertDocument, BaseInv, FreshOK, Fresh
    <3> QED BY <3>1, <3>2 DEF InsertDocument, InsertDoc, BaseInv, StoreTypeOK
  <2> QED BY <2>1, StepLeaves
<1> QED BY <1>1 DEF CutChunks

(* A job has a document and a strategy. *)
LEMMA JobFacts ==
  ASSUME BaseInv, NEW d \in Docs, NEW i \in JobsOf(d)
  PROVE  /\ i \in JobIds /\ jobs[i].doc = d /\ jobs[i].by \in Strategies /\ jobs[i].stage \in JobStages
         /\ status[d] # "absent"
<1>1. jobs \in Seq(JobRow) /\ i \in DOMAIN jobs /\ jobs[i].doc = d
  BY DEF JobsOf, JobIds, BaseInv, StoreTypeOK, JobRow
<1>2. jobs[i] \in JobRow
  BY <1>1, JobsAreRows
<1> QED BY <1>1, <1>2 DEF JobRow, BaseInv, JobsOK, JobIds

(* The rows of a clean document are written once, and its vectors stay. *)
LEMMA CleanRows ==
  ASSUME BaseInv, [Next]_vars, NEW d \in Docs, Clean(d), CutByItsJobs(d)
  PROVE  \/ ChunksOf(d)' = ChunksOf(d)
         \/ \E w \in Workers : /\ ChunksOf(d) = {} /\ InsertChunks(w) /\ DocOf(w) = d
                               /\ ChunksOf(d)' = CutChunks(d, jobs[job[w]].by)
<1>1. CASE chunks' = chunks
  BY <1>1 DEF ChunksOf
<1>2. ASSUME NEW w \in Workers, InsertChunks(w)
      PROVE  \/ ChunksOf(d)' = ChunksOf(d)
             \/ /\ ChunksOf(d) = {} /\ DocOf(w) = d
                /\ ChunksOf(d)' = CutChunks(d, jobs[job[w]].by)
  <2> DEFINE new == CutChunks(DocOf(w), jobs[job[w]].by)
  <2>1. pc[w] # "idle"
    BY <1>2 DEF InsertChunks
  <2>2. DocOf(w) \in Docs /\ jobs[job[w]].by \in Strategies /\ job[w] \in JobsOf(DocOf(w))
    BY <2>1, RunFacts DEF JobsOf, DocOf
  <2>3. \A c \in new : c.doc = DocOf(w)
    BY <2>2, CutTyped
  <2>4. chunks' = chunks \/ chunks' = MergeChunks(new)
    BY <1>2 DEF InsertChunks
  <2> HIDE DEF new
  <2>5. CASE DocOf(w) # d
    BY <2>3, <2>4, <2>5 DEF MergeChunks, ChunksOf
  <2>6. CASE DocOf(w) = d /\ ChunksOf(d) = {} /\ chunks' = MergeChunks(new)
    <3>1. \A c \in new : \A old \in chunks : <<old.doc, old.index>> # <<c.doc, c.index>>
      BY <2>3, <2>6 DEF ChunksOf
    <3>2. ChunksOf(d)' = new
      BY <2>3, <2>6, <3>1 DEF MergeChunks, ChunksOf
    <3> QED BY <2>6, <3>2 DEF new
  <2>7. CASE DocOf(w) = d /\ ChunksOf(d) # {} /\ chunks' = MergeChunks(new)
    <3>1. PICK i \in JobsOf(d) : ChunksOf(d) = CutChunks(d, jobs[i].by)
      BY <2>7 DEF CutByItsJobs
    <3>2. jobs[i].by = jobs[job[w]].by
      BY <2>2, <2>7, <3>1 DEF Clean, CutOnce
    <3>3. new = ChunksOf(d)
      BY <2>7, <3>1, <3>2 DEF new
    <3>4. chunks' = chunks
      BY <2>7, <3>3 DEF MergeChunks, ChunksOf
    <3> QED BY <3>4 DEF ChunksOf
  <2>8. CASE chunks' = chunks
    BY <2>8 DEF ChunksOf
  <2> QED BY <2>4, <2>5, <2>6, <2>7, <2>8
<1>3. ASSUME NEW w \in Workers, PurgeRow(w) PROVE ChunksOf(d)' = ChunksOf(d)
  <2>1. ToBePurged(DocOf(w))
    BY <1>3, PurgeWorkerPurges DEF PurgeRow, PurgeLabels
  <2>2. DocOf(w) # d
    BY <2>1 DEF Clean
  <2> QED BY <1>3, <2>2 DEF PurgeRow, DeleteDoc, rows, ChunksOf
<1> QED BY <1>1, <1>2, <1>3, SearchChanges DEF VectorsChange, RowsChange

(* The vectors of a clean document stay. *)
LEMMA VectorsStay ==
  ASSUME MaxForeign = 0, BaseInv, TypeOK, NoHealing, [Next]_vars, NEW d \in Docs, ~ToBePurged(d),
         NEW v \in vectors, v[1] = d
  PROVE  v \in vectors'
<1>1. CASE Restart
  BY <1>1 DEF Restart, ProbedVectors, NoHealing
<1>2. CASE ForeignStart
  BY <1>2 DEF ForeignStart, TypeOK
<1>3. CASE RequestNext
  BY <1>3, RequestLeaves DEF RequestNext
<1>4. CASE WorkerNext
  <2>1. PICK w \in Workers : Claim(w) \/ Step(w) \/ Fault(w)
    BY <1>4 DEF WorkerNext
  <2>2. CASE Claim(w)
    BY <2>2 DEF Claim, storage
  <2>3. CASE EmbedStep(w) \/ EmbedFault(w)
    <3>1. ~DropCollection(w)
      BY DEF DropCollection, NoHealing
    <3>2. vectors \subseteq vectors'
      BY <2>3, <3>1 DEF EmbedStep, EmbedFault, Guard, LoadChunks, Upsert, UpsertPart, CreateCollection,
             RetryUpsert, CommitEmbedded, WriteStage, WriteStatus, EnqueueNext, AckJob, NackJob, Raise,
             Abandon, store, storage
    <3> QED BY <3>2
  <2>4. CASE PurgeStep(w) \/ PurgeFault(w)
    <3>1. CASE PurgeVectors(w)
      <4>1. ToBePurged(DocOf(w))
        BY <3>1, PurgeWorkerPurges DEF PurgeVectors, PurgeLabels
      <4>2. DocOf(w) # d
        BY <4>1
      <4> QED BY <3>1, <4>2 DEF PurgeVectors
    <3>2. CASE ~PurgeVectors(w)
      BY <2>4, <3>2 DEF PurgeStep, PurgeFault, PurgeTable, PurgeObject, PurgeRow, MarkPurgeError, NackJob,
             Raise, Abandon, store, storage
    <3> QED BY <3>1, <3>2
  <2> QED BY <2>1, <2>2, <2>3, <2>4, IngestLeaves, IndexLeaves DEF Step, Fault, storage
<1>5. CASE UNCHANGED vars
  BY <1>5 DEF vars, store, storage
<1> QED BY <1>1, <1>2, <1>3, <1>4, <1>5 DEF Next

(* A document whose chunks have their vectors keeps both. *)
LEMMA CoveredStays ==
  ASSUME MaxForeign = 0, BaseInv, TypeOK, NoHealing, [Next]_vars, NEW d \in Docs, Clean(d), CutByItsJobs(d)
  PROVE  /\ ChunksOf(d) # {} => ChunksOf(d)' = ChunksOf(d)
         /\ \A cs : cs \subseteq ChunksOf(d) /\ PointIds(cs) \subseteq vectors => PointIds(cs) \subseteq vectors'
         /\ Covered(d) => Covered(d)'
<1>1. ChunksOf(d) # {} => ChunksOf(d)' = ChunksOf(d)
  BY CleanRows
<1>2. ASSUME NEW cs, cs \subseteq ChunksOf(d), PointIds(cs) \subseteq vectors
      PROVE  PointIds(cs) \subseteq vectors'
  <2> SUFFICES ASSUME NEW v \in PointIds(cs) PROVE v \in vectors'
    OBVIOUS
  <2>1. v \in vectors /\ v[1] = d
    BY <1>2, PointsOf DEF ChunksOf
  <2> QED BY <2>1, VectorsStay DEF Clean
<1>3. Covered(d) => Covered(d)'
  BY <1>1, <1>2 DEF Covered
<1> QED BY <1>1, <1>2, <1>3

(* After the insert of chunks the document has some. *)
LEMMA Inserted ==
  ASSUME NEW d \in Docs, NEW by \in Strategies, CutChunks(d, by) # {},
         chunks' = MergeChunks(CutChunks(d, by))
  PROVE  ChunksOf(d)' # {}
<1>1. PICK c \in CutChunks(d, by) : c.doc = d
  BY CutTyped
<1>2. CASE c \in chunks'
  BY <1>1, <1>2 DEF ChunksOf
<1>3. CASE c \notin chunks'
  <2>1. PICK old \in chunks : <<old.doc, old.index>> = <<c.doc, c.index>>
    BY <1>1, <1>3 DEF MergeChunks
  <2>2. old.doc = d /\ old \in chunks'
    BY <1>1, <2>1 DEF MergeChunks
  <2> QED BY <2>2 DEF ChunksOf
<1> QED BY <1>2, <1>3

(* A worker comes to its next label with the work of the last one done. *)
LEMMA WorkerReadyStep ==
  ASSUME MaxForeign = 0, BaseInv, TypeOK, SearchableInv, [Next]_vars,
         NEW w \in Workers, pc'[w] # "idle", Clean(DocOf(w))'
  PROVE  WorkerReady(w)'
<1>1. NoHealing /\ NoHealing'
  BY NoHealingStep DEF SearchableInv
<1>2. CASE Claim(w)
  <2>1. pc'[w] = Entry[WorkerStage[w]]
    BY <1>2 DEF Claim, BaseInv, WorkersOK
  <2>2. \A s \in JobStages : Entry[s] \notin {"insert", "chunked", "next", "upsert", "commit", "embedded", "to_index"}
    BY DEF Entry, JobStages
  <2> QED BY <2>1, <2>2, HandlersAssumption DEF WorkerReady
<1>3. ASSUME pc[w] # "idle", job'[w] = job[w], Stays(w) \/ Step(w) \/ Fault(w)
      PROVE  WorkerReady(w)'
  <2>0. PICK d \in Docs, by \in Strategies : d = DocOf(w) /\ by = jobs[job[w]].by
    BY <1>3, SameRun
  <2>1. /\ DocOf(w) = d /\ DocOf(w)' = d /\ jobs[job[w]].by = by /\ jobs'[job'[w]].by = by
        /\ job[w] \in JobsOf(d) /\ jobs[job[w]].stage = LabelStage(pc[w])
    BY <1>3, <2>0, SameRun
  <2>2. Clean(d)' /\ Clean(d)
    <3>1. Clean(d)'
      BY <2>1 DEF Clean, ToBePurged, CutOnce, JobsOf
    <3> QED BY <2>1, <3>1, CleanBefore
  <2>3. DocumentReady(d) /\ WorkerReady(w) /\ CutByItsJobs(d)
    BY <1>3, <2>1, <2>2 DEF SearchableInv, DocumentReady
  <2>4. status[d] # "absent"
    BY <2>1, JobFacts
  <2>5. CutChunks(d, by)' = CutChunks(d, by)
    BY <2>1, <2>4, SameCut
  <2>6. /\ ChunksOf(d) # {} => ChunksOf(d)' = ChunksOf(d)
        /\ \A cs : cs \subseteq ChunksOf(d) /\ PointIds(cs) \subseteq vectors => PointIds(cs) \subseteq vectors'
        /\ Covered(d) => Covered(d)'
    BY <1>1, <2>1, <2>2, <2>3, CoveredStays
  <2>7. /\ ChunksOf(DocOf(w))' = ChunksOf(d)' /\ Covered(DocOf(w))' = Covered(d)'
        /\ CutChunks(DocOf(w), jobs[job[w]].by)' = CutChunks(d, by)'
    BY <2>1 DEF ChunksOf, Covered, CutChunks
  <2>8. pc[w] \in EmbedLabels => ChunksOf(d) # {}
    <3> SUFFICES ASSUME pc[w] \in EmbedLabels PROVE ChunksOf(d) # {}
      OBVIOUS
    <3>1. jobs[job[w]].stage = "embed" /\ JobReady(job[w]) /\ jobs[job[w]].doc = d
      BY <2>1, <2>3, LabelFacts DEF DocumentReady, DocOf
    <3> QED BY <3>1 DEF JobReady
  <2>9. CASE Stays(w)
    <3>1. pc[w] \in {"upsert", "commit"} => loaded'[w] = ChunksOf(d)'
      BY <2>1, <2>3, <2>6, <2>8, <2>9 DEF WorkerReady, Stays, EmbedLabels, EmbedBody
    <3>2. pc[w] = "commit" => PointIds(loaded[w])' \subseteq vectors'
      <4> SUFFICES ASSUME pc[w] = "commit" PROVE PointIds(loaded[w])' \subseteq vectors'
        OBVIOUS
      <4>1. PointIds(loaded[w]) \subseteq vectors /\ loaded[w] = ChunksOf(d)
        BY <2>1, <2>3 DEF WorkerReady
      <4>2. PointIds(loaded[w])' = PointIds(loaded[w])
        BY <2>9 DEF Stays, PointIds
      <4> QED BY <2>6, <4>1, <4>2
    <3> QED BY <2>1, <2>3, <2>5, <2>6, <2>7, <2>9, <3>1, <3>2 DEF WorkerReady, Stays
  <2>10. CASE Step(w) \/ Fault(w)
    <3>1. pc'[w] = "insert" => CutChunks(d, by)' # {}
      BY <2>1, <2>5, <2>10, Arrivals DEF Cut, Goto, BaseInv, WorkersOK
    <3>2. pc'[w] = "chunked" => ChunksOf(d)' # {}
      <4> SUFFICES ASSUME pc'[w] = "chunked" PROVE ChunksOf(d)' # {}
        OBVIOUS
      <4>1. InsertChunks(w) /\ ~Except(w)
        <5>1. InsertChunks(w)
          BY <2>10, Arrivals
        <5>2. \A s \in JobStages : Handler[s] # "chunked"
          BY DEF Handler, JobStages
        <5>3. ~Except(w)
          BY <5>2, HandlersAssumption DEF Except, Goto, BaseInv, WorkersOK
        <5> QED BY <5>1, <5>3
      <4>2. chunks' = MergeChunks(CutChunks(d, by)) /\ CutChunks(d, by) # {}
        BY <2>1, <2>3, <4>1 DEF InsertChunks, WorkerReady
      <4> QED BY <2>1, <4>2, Inserted
    <3>3. pc'[w] = "next" => ChunksOf(d)' # {}
      BY <2>1, <2>3, <2>6, <2>10, Arrivals DEF WriteStage, WorkerReady
    <3>4. pc'[w] = "upsert" => loaded'[w] = ChunksOf(d)'
      <4> SUFFICES ASSUME pc'[w] = "upsert" PROVE loaded'[w] = ChunksOf(d)'
        OBVIOUS
      <4>1. LoadChunks(w)
        BY <2>10, Arrivals
      <4>2. loaded'[w] = ChunksOf(d)
        BY <2>1, <4>1 DEF LoadChunks, BaseInv, WorkersOK
      <4> QED BY <4>1, <4>2 DEF LoadChunks, store, rows, ChunksOf
    <3>5. pc'[w] = "commit" => loaded'[w] = ChunksOf(d)' /\ PointIds(loaded[w])' \subseteq vectors'
      <4> SUFFICES ASSUME pc'[w] = "commit"
                   PROVE  loaded'[w] = ChunksOf(d)' /\ PointIds(loaded[w])' \subseteq vectors'
        OBVIOUS
      <4>1. Upsert(w)
        BY <1>1, <2>10, Arrivals DEF RetryUpsert, NoHealing
      <4>2. /\ loaded' = loaded /\ vectors' = vectors \cup PointIds(loaded[w])
            /\ chunks' = chunks /\ pc[w] = "upsert"
        BY <1>1, <4>1 DEF Upsert, NoHealing, Goto, rows
      <4>3. PointIds(loaded[w])' = PointIds(loaded[w])
        BY <4>2 DEF PointIds
      <4> QED BY <2>1, <2>3, <4>2, <4>3 DEF WorkerReady, ChunksOf
    <3>6. pc'[w] = "embedded" => Covered(d)'
      <4> SUFFICES ASSUME pc'[w] = "embedded" PROVE Covered(d)
        BY <2>6
      <4>1. pc[w] = "commit"
        BY <2>10, Arrivals DEF CommitEmbedded
      <4> QED BY <2>1, <2>3, <2>8, <4>1 DEF WorkerReady, Covered, EmbedLabels, EmbedBody
    <3>7. pc'[w] = "to_index" => Covered(d)'
      BY <2>1, <2>3, <2>6, <2>10, Arrivals DEF WriteStage, WorkerReady
    <3> QED BY <2>1, <2>7, <3>1, <3>2, <3>3, <3>4, <3>5, <3>6, <3>7 DEF WorkerReady
  <2> QED BY <1>3, <2>9, <2>10
<1>4. CASE Stays(w)
  BY <1>3, <1>4 DEF Stays
<1> QED BY <1>2, <1>3, <1>4, WorkerMoves

(* Which steps write the status of a document. *)
StatusWrittenByWorker(w, d) ==
  /\ pc[w] # "idle" /\ DocOf(w) = d /\ Exists(d) /\ job' = job
  /\ status'[d] = "indexed" => pc[w] = "fts"
  /\ status'[d] \in Terminal \/ pc'[w] \in {"fetch", "chunked", "load", "embedded"}

StatusWrittenByRequest(c, d) ==
  \/ (InsertDocument(c) \/ Requeue(c) \/ Reprocess(c)) /\ req[c].doc = d /\ status'[d] = "pending"
  \/ Replace(c) /\ req[c].old = d /\ status'[d] = "deleting"
  \/ MarkDeleting(c) /\ req[c].doc = d /\ status'[d] = "deleting"

(* By which step a status comes to be another one. *)
LEMMA StatusFrom ==
  ASSUME BaseInv, [Next]_vars, NEW d \in Docs, status'[d] # status[d]
  PROVE  \/ \E c \in Clients : StatusWrittenByRequest(c, d)
         \/ \E w \in Workers : PurgeRow(w) /\ DocOf(w) = d
         \/ \E w \in Workers : (Step(w) \/ Fault(w)) /\ StatusWrittenByWorker(w, d)
<1>1. ASSUME NEW e, NEW s, SetStatus(e, s) PROVE e = d /\ Exists(d) /\ status'[d] = s
  BY <1>1 DEF SetStatus, StatusAfter, BaseInv, StoreTypeOK
<1>2. CASE RequestNext
  <2>1. PICK c \in Clients : UploadStep(c) \/ ReprocessStep(c) \/ DeleteStep(c) \/ RequestFault(c)
    BY <1>2 DEF RequestNext
  <2>2. /\ ~StartUpload(c) /\ ~Find(c) /\ ~FindName(c) /\ ~StartReprocess(c) /\ ~StartDelete(c)
        /\ ~RequestFault(c)
    BY Zenon DEF StartUpload, Find, FindName, StartReprocess, StartDelete, RequestFault, store, rows
  <2>3. /\ ~PurgeOld(c) /\ ~PutObject(c) /\ ~StageUploaded(c) /\ ~ResetStage(c) /\ ~EnqueueIngest(c)
        /\ ~EnqueuePurge(c)
    BY DEF PurgeOld, PutObject, StageUploaded, ResetStage, EnqueueIngest, EnqueuePurge, rows
  <2>4. InsertDocument(c) => d = req[c].doc /\ status'[d] = "pending"
    BY DEF InsertDocument, InsertDoc, BaseInv, StoreTypeOK
  <2>5. StatusWrittenByRequest(c, d)
    BY <1>1, <2>1, <2>2, <2>3, <2>4 DEF UploadStep, ReprocessStep, DeleteStep, Requeue, Replace, Reprocess,
           MarkDeleting, StatusWrittenByRequest
  <2> QED BY <2>5
<1>3. CASE WorkerNext
  <2>1. PICK w \in Workers : Claim(w) \/ Step(w) \/ Fault(w)
    BY <1>3 DEF WorkerNext
  <2>2. \A l : Goto(w, l) => pc'[w] = l /\ job' = job
    BY DEF Goto, BaseInv, WorkersOK
  <2>3. ASSUME NEW here, NEW s, NEW next, here # "idle", WriteStatus(w, here, s, next),
               s \in Terminal \/ next \in {"fetch", "load"}, s = "indexed" => here = "fts"
        PROVE  StatusWrittenByWorker(w, d)
    BY <1>1, <2>2, <2>3 DEF WriteStatus, StatusWrittenByWorker
  <2>4. ASSUME NEW here, NEW st, NEW s, NEW next,
               WriteStage(w, here, st, s, next) \/ EnqueueNext(w, here, st, next)
        PROVE  FALSE
    BY <2>4 DEF WriteStage, EnqueueNext
  <2>5. ASSUME NEW b, AckJob(w, b) \/ NackJob(w, b) \/ Raise(w, b) \/ Abandon(w, b) PROVE FALSE
    BY <2>5 DEF AckJob, NackJob, Raise, Abandon, store, rows
  <2>6. ~Claim(w)
    BY DEF Claim
  <2>7. CASE IngestStep(w) \/ IngestFault(w)
    <3>1. ~FetchAndParse(w) /\ ~UploadTable(w) /\ ~Cut(w)
      BY DEF FetchAndParse, UploadTable, Cut, store, rows
    <3>2. InsertChunks(w) => StatusWrittenByWorker(w, d)
      BY <1>1, <2>2 DEF InsertChunks, StatusWrittenByWorker
    <3> QED BY <2>3, <2>4, <2>5, <2>7, <3>1, <3>2 DEF IngestStep, IngestFault, Terminal, Failed, Step, Fault
  <2>8. CASE EmbedStep(w) \/ EmbedFault(w)
    <3>1. /\ ~Guard(w) /\ ~LoadChunks(w) /\ ~Upsert(w) /\ ~UpsertPart(w) /\ ~DropCollection(w)
          /\ ~CreateCollection(w) /\ ~RetryUpsert(w)
      BY DEF Guard, LoadChunks, Upsert, UpsertPart, DropCollection, CreateCollection, RetryUpsert, store, rows
    <3>2. CommitEmbedded(w) => StatusWrittenByWorker(w, d)
      BY <1>1, <2>2 DEF CommitEmbedded, StatusWrittenByWorker
    <3> QED BY <2>3, <2>4, <2>5, <2>8, <3>1, <3>2 DEF EmbedStep, EmbedFault, Terminal, Failed, Step, Fault
  <2>9. CASE IndexStep(w) \/ IndexFault(w)
    BY <2>3, <2>4, <2>5, <2>9 DEF IndexStep, IndexFault, Terminal, Step, Fault
  <2>10. CASE PurgeStep(w) \/ PurgeFault(w)
    <3>1. ~PurgeVectors(w) /\ ~PurgeTable(w) /\ ~PurgeObject(w)
      BY DEF PurgeVectors, PurgeTable, PurgeObject, rows
    <3>2. MarkPurgeError(w) => StatusWrittenByWorker(w, d)
      BY <1>1, <2>2 DEF MarkPurgeError, StatusWrittenByWorker, Terminal, Failed
    <3>3. PurgeRow(w) => DocOf(w) = d
      BY DEF PurgeRow, DeleteDoc, rows, BaseInv, StoreTypeOK
    <3> QED BY <2>5, <2>10, <3>1, <3>2, <3>3 DEF PurgeStep, PurgeFault, Step, Fault
  <2> QED BY <2>1, <2>6, <2>7, <2>8, <2>9, <2>10 DEF Step, Fault
<1>4. CASE Restart \/ ForeignStart \/ UNCHANGED vars
  BY <1>4 DEF Restart, ForeignStart, vars, store, rows
<1> QED BY <1>2, <1>3, <1>4 DEF Next

(* An indexed or embedded document has its vectors. *)
LEMMA DocumentReadyStep ==
  ASSUME MaxForeign = 0, BaseInv, TypeOK, SearchableInv, [Next]_vars, NEW d \in Docs, Clean(d)'
  PROVE  DocumentReady(d)'
<1>1. Clean(d) /\ DocumentReady(d) /\ CutByItsJobs(d) /\ NoHealing
  BY CleanBefore DEF SearchableInv, DocumentReady
<1>2. /\ ChunksOf(d) # {} => ChunksOf(d)' = ChunksOf(d)
      /\ Covered(d) => Covered(d)'
  BY <1>1, CoveredStays
<1>3. /\ \A i \in JobsOf(d) : /\ i \in JobsOf(d)' /\ jobs'[i].by = jobs[i].by
                              /\ jobs'[i].stage = jobs[i].stage /\ jobs'[i].doc = d /\ jobs[i].doc = d
      /\ \A i \in JobsOf(d)' : i \in JobsOf(d) \/ i \in JobIds' \ JobIds
  BY BaseStep DEF Forward, JobsOf
<1>4. CutByItsJobs(d)'
  <2>1. \A i \in JobsOf(d) : CutChunks(d, jobs[i].by)' = CutChunks(d, jobs[i].by)
    <3> SUFFICES ASSUME NEW i \in JobsOf(d) PROVE CutChunks(d, jobs[i].by)' = CutChunks(d, jobs[i].by)
      OBVIOUS
    <3>1. info'[d] = info[d] /\ jobs'[i].by = jobs[i].by
      BY <1>3, JobFacts, SameCut
    <3> QED BY <3>1 DEF CutChunks
  <2>2. CASE ChunksOf(d)' = ChunksOf(d)
    BY <1>1, <1>3, <2>1, <2>2 DEF CutByItsJobs
  <2>3. ASSUME NEW w \in Workers, InsertChunks(w), DocOf(w) = d,
               ChunksOf(d)' = CutChunks(d, jobs[job[w]].by)
        PROVE  CutByItsJobs(d)'
    <3>1. job[w] \in JobsOf(d)
      BY <2>3, RunFacts DEF InsertChunks, DocOf, JobsOf
    <3>2. PICK i \in JobsOf(d) : i = job[w]
      BY <3>1
    <3>3. ChunksOf(d)' = CutChunks(d, jobs[i].by)' /\ i \in JobsOf(d)'
      BY <1>3, <2>1, <2>3, <3>2
    <3> QED BY <3>3 DEF CutByItsJobs
  <2> QED BY <1>1, <2>2, <2>3, CleanRows
<1>5. ASSUME status'[d] = "indexed" PROVE Covered(d)'
  <2>1. CASE status[d] = "indexed"
    BY <1>1, <1>2, <2>1 DEF DocumentReady
  <2>2. ASSUME NEW w \in Workers, StatusWrittenByWorker(w, d) PROVE Covered(d)
    <3>1. pc[w] = "fts" /\ DocOf(w) = d
      BY <1>5, <2>2 DEF StatusWrittenByWorker
    <3>2. job[w] \in JobsOf(d) /\ jobs[job[w]].stage = "index"
      BY <3>1, RunFacts, LabelFacts DEF DocOf, JobsOf, IndexLabels, IndexBody
    <3> QED BY <1>1, <3>1, <3>2 DEF DocumentReady, JobReady, DocOf
  <2>3. ASSUME NEW w \in Workers, PurgeRow(w), DocOf(w) = d PROVE FALSE
    <3>1. ToBePurged(d)
      BY <2>3, PurgeWorkerPurges DEF PurgeRow, PurgeLabels
    <3> QED BY <1>1, <3>1 DEF Clean
  <2> QED BY <1>2, <1>5, <2>1, <2>2, <2>3, StatusFrom DEF StatusWrittenByRequest
<1>6. ASSUME NEW i \in JobsOf(d)' PROVE JobReady(i)'
  <2>1. CASE i \in JobsOf(d)
    <3>1. JobReady(i) /\ jobs'[i].doc = d /\ jobs[i].doc = d /\ jobs'[i].stage = jobs[i].stage
      BY <1>1, <1>3, <2>1 DEF DocumentReady
    <3>2. ChunksOf(jobs[i].doc)' = ChunksOf(d)' /\ Covered(jobs[i].doc)' = Covered(d)'
      BY <3>1 DEF ChunksOf, Covered
    <3> QED BY <1>2, <3>1, <3>2 DEF JobReady
  <2>2. CASE i \in JobIds' \ JobIds
    <3>0. jobs'[i].doc = d
      BY DEF JobsOf
    <3>1. ChunksOf(jobs[i].doc)' = ChunksOf(d)' /\ Covered(jobs[i].doc)' = Covered(d)'
      BY <3>0 DEF ChunksOf, Covered
    <3>2. ASSUME NEW w \in Workers, EnqueueNext(w, "next", "embed", "ingest_ack"),
                 jobs'[i] = NewJob("embed", DocOf(w), jobs[job[w]].by)
          PROVE  JobReady(i)'
      <4>1. DocOf(w) = d /\ pc[w] = "next" /\ jobs'[i].stage = "embed"
        BY <3>0, <3>2 DEF NewJob, EnqueueNext
      <4>2. ChunksOf(d) # {}
        BY <1>1, <4>1 DEF SearchableInv, WorkerReady
      <4> QED BY <1>2, <3>1, <4>1, <4>2 DEF JobReady
    <3>3. ASSUME NEW w \in Workers, EnqueueNext(w, "to_index", "index", "embed_ack"),
                 jobs'[i] = NewJob("index", DocOf(w), jobs[job[w]].by)
          PROVE  JobReady(i)'
      <4>1. DocOf(w) = d /\ pc[w] = "to_index" /\ jobs'[i].stage = "index"
        BY <3>0, <3>3 DEF NewJob, EnqueueNext
      <4>2. Covered(d)
        BY <1>1, <4>1 DEF SearchableInv, WorkerReady
      <4> QED BY <1>2, <3>1, <4>1, <4>2 DEF JobReady
    <3>4. jobs'[i].stage \in {"ingest", "purge"} => JobReady(i)'
      BY DEF JobReady
    <3>5. (\E c \in Clients : jobs'[i] = NewJob("ingest", req[c].doc, req[c].by)) => JobReady(i)'
      BY <3>4 DEF NewJob
    <3> QED BY <2>2, <3>2, <3>3, <3>4, <3>5, NewJobs
  <2> QED BY <1>3, <2>1, <2>2
<1> QED BY <1>4, <1>5, <1>6 DEF DocumentReady

(* Every step keeps the invariant. *)
LEMMA SearchableStep ==
  ASSUME MaxForeign = 0, BaseInv, TypeOK, SearchableInv, [Next]_vars
  PROVE  SearchableInv'
<1>1. NoHealing'
  BY NoHealingStep DEF SearchableInv
<1>2. \A d \in Docs : Clean(d)' => DocumentReady(d)'
  BY DocumentReadyStep
<1>3. \A w \in Workers : pc'[w] # "idle" /\ Clean(DocOf(w))' => WorkerReady(w)'
  BY WorkerReadyStep
<1> QED BY <1>1, <1>2, <1>3 DEF SearchableInv

(* It holds at first. *)
LEMMA SearchableInit == Init => SearchableInv
<1> SUFFICES ASSUME Init PROVE SearchableInv
  OBVIOUS
<1>1. JobIds = {} /\ chunks = {} /\ \A d \in Docs : status[d] = "absent"
  BY DEF Init, StoreInit, JobIds
<1>2. NoHealing
  BY DEF Init, StoreInit, HandlersInit, NoHealing
<1>3. \A d \in Docs : DocumentReady(d)
  BY <1>1 DEF DocumentReady, CutByItsJobs, ChunksOf, JobsOf
<1> QED BY <1>2, <1>3 DEF SearchableInv, Init, HandlersInit

\* As long as no instance of another model starts on the collection, an indexed
\* document that is not being purged has all its chunks in the collection, for any
\* failures, retries, restarts, and requests that run it again in the same way.
THEOREM IndexedSearchable == MaxForeign = 0 => (Spec => []IndexedIsSearchable)
<1> SUFFICES ASSUME MaxForeign = 0 PROVE Spec => []IndexedIsSearchable
  OBVIOUS
<1>1. BaseInv /\ TypeOK /\ SearchableInv /\ [Next]_vars => SearchableInv'
  BY SearchableStep
<1>2. SearchableInv => IndexedIsSearchable
  BY DEF SearchableInv, DocumentReady, Clean, Covered, IndexedIsSearchable
<1> QED BY <1>1, <1>2, SearchableInit, PipelineBase, PipelineTypes, PTL DEF Spec
-----------------------------------------------------------------------------
(* Work that is owed: jobs that are live and not yet at their end.           *)

(* A job that is live stays so until the ack or the last nack of its worker, or a purge. *)
LEMMA LiveStays ==
  ASSUME BaseInv, [Next]_vars, NEW i \in JobIds, Live(i), Exists(jobs[i].doc)'
  PROVE  \/ Live(i)'
         \/ \E w \in Workers : /\ job[w] = i /\ pc[w] \in Acks \cup Nacks
                               /\ pc[w] \in Nacks => jobs'[i].row.status = "failed"
<1> DEFINE Ends == \E w \in Workers : /\ job[w] = i /\ pc[w] \in Acks \cup Nacks
                                      /\ pc[w] \in Nacks => jobs'[i].row.status = "failed"
<1> SUFFICES Live(i)' \/ Ends
  OBVIOUS
<1> HIDE DEF Ends
<1>0. jobs \in Seq(JobRow) /\ i \in DOMAIN jobs
  BY DEF BaseInv, StoreTypeOK, JobRow, JobIds
<1>1. jobs[i] \in JobRow /\ jobs[i].doc \in Docs /\ jobs[i].row \in Row
  BY <1>0, JobsAreRows
<1>2. jobs'[i].row.status = jobs[i].row.status => Live(i)'
  BY DEF Live
<1>3. JobsAdded => Live(i)'
  BY <1>2 DEF JobsAdded
<1>4. ASSUME NEW st \in JobStages, NEW d \in Docs, NEW by \in Strategies, Enqueue(st, d, by)
      PROVE  Live(i)'
  BY <1>3, <1>4, JobEnqueued DEF BaseInv
<1>5. CASE WorkerNext
  <2>1. PICK w \in Workers : Claim(w) \/ Step(w) \/ Fault(w)
    BY <1>5 DEF WorkerNext
  <2>2. UNCHANGED <<req, issued>>
    BY <1>5 DEF WorkerNext
  <2>3. CASE Claim(w)
    <3>1. PICK k \in JobIds : RowOnly(k, ClaimedRow(jobs[k].row))
      BY <2>2, <2>3, ClaimKeeps
    <3>2. CASE k = i
      BY <1>1, <3>1, <3>2, RowFacts DEF RowOnly, Live
    <3>3. CASE k # i
      BY <1>2, <3>1, <3>3 DEF RowOnly
    <3> QED BY <3>2, <3>3
  <2>4. CASE EnqueueNext(w, "next", "embed", "ingest_ack") \/ EnqueueNext(w, "to_index", "index", "embed_ack")
    <3>1. DocOf(w) \in Docs /\ jobs[job[w]].by \in Strategies
      BY <2>4, RunFacts DEF EnqueueNext
    <3> QED BY <1>4, <2>4, <3>1 DEF EnqueueNext, JobStages
  <2>5. ASSUME NEW l \in Acks, AckJob(w, l)
        PROVE  Live(i)' \/ Ends
    <3>1. l \in Labels
      BY LabelFacts DEF Acks, IngestLabels, IngestBody, EmbedLabels, EmbedBody, IndexLabels, IndexBody
    <3>2. RowOnly(job[w], AckedRow(RowOf(w)))
      BY <2>2, <2>5, <3>1, AckJobKeeps
    <3>3. pc[w] \in Acks /\ pc[w] \notin Nacks
      BY <2>5 DEF AckJob, Acks, Nacks
    <3>4. job[w] = i => Ends
      BY <3>3 DEF Ends
    <3> QED BY <1>2, <3>2, <3>4 DEF RowOnly
  <2>6. ASSUME NEW l \in Nacks, NackJob(w, l)
        PROVE  Live(i)' \/ Ends
    <3>1. l \in Labels
      BY LabelFacts DEF Nacks, IngestLabels, IngestExcept, EmbedLabels, EmbedExcept, IndexLabels,
             IndexExcept, PurgeLabels
    <3>2. RowOnly(job[w], NackedRow(RowOf(w), RowOf(w).attempt))
      BY <2>2, <2>6, <3>1, NackJobKeeps
    <3>3. CASE job[w] = i
      <4>1. RowOf(w) = jobs[i].row /\ jobs[i].row.attempt \in Nat /\ jobs[i].row.status \notin Gone
        BY <1>1, <3>3 DEF RowOf, Row, Live, Gone
      <4>2. jobs'[i].row.status \in {"pending", "failed"}
        <5> DEFINE r == NackedRow(RowOf(w), RowOf(w).attempt)
        <5>1. r.status \in {"pending", "failed"}
          BY <1>1, <4>1, NackedFacts
        <5> HIDE DEF r
        <5>2. jobs'[i].row = r
          BY <3>2, <3>3 DEF RowOnly, r
        <5> QED BY <5>1, <5>2
      <4> QED BY <2>6, <3>3, <4>2 DEF NackJob, Live, Ends
    <3>4. CASE job[w] # i
      BY <1>2, <3>2, <3>4 DEF RowOnly
    <3> QED BY <3>3, <3>4
  <2>7. CASE PurgeRow(w)
    <3>1. CASE Exists(DocOf(w))
      <4>1. jobs[i].doc # DocOf(w)
        <5> SUFFICES ASSUME jobs[i].doc = DocOf(w) PROVE FALSE
          OBVIOUS
        <5>1. status'[DocOf(w)] = "purged"
          BY <1>1, <2>7, <3>1 DEF PurgeRow, DeleteDoc, BaseInv, StoreTypeOK
        <5>2. jobs'[i].doc = jobs[i].doc
          BY BaseStep DEF Forward
        <5> QED BY <5>1, <5>2 DEF Exists
      <4>2. jobs'[i] = jobs[i]
        BY <2>7, <3>1, <4>1 DEF PurgeRow, DeleteDoc
      <4> QED BY <1>2, <4>2
    <3>2. CASE ~Exists(DocOf(w))
      BY <1>2, <2>7, <3>2 DEF PurgeRow, DeleteDoc, rows
    <3> QED BY <3>1, <3>2
  <2>8. CASE jobs' = jobs
    BY <1>2, <2>8
  <2>9. \/ jobs' = jobs \/ Claim(w) \/ PurgeRow(w)
        \/ EnqueueNext(w, "next", "embed", "ingest_ack") \/ EnqueueNext(w, "to_index", "index", "embed_ack")
        \/ (\E l \in Acks : AckJob(w, l)) \/ (\E l \in Nacks : NackJob(w, l))
    BY <2>1, JobsOfWorkers
  <2>10. CASE \E l \in Acks : AckJob(w, l)
    <3>1. PICK l \in Acks : AckJob(w, l)
      BY <2>10
    <3> QED BY <2>5, <3>1
  <2>11. CASE \E l \in Nacks : NackJob(w, l)
    <3>1. PICK l \in Nacks : NackJob(w, l)
      BY <2>11
    <3> QED BY <2>6, <3>1
  <2> QED BY <2>3, <2>4, <2>7, <2>8, <2>9, <2>10, <2>11
<1>6. CASE RequestNext
  <2>1. PICK c \in Clients : UploadStep(c) \/ ReprocessStep(c) \/ DeleteStep(c) \/ RequestFault(c)
    BY <1>6 DEF RequestNext
  <2>2. CASE i \in JobIds' /\ jobs'[i] = jobs[i]
    BY <1>2, <2>2
  <2>3. CASE EnqueueIngest(c) \/ PurgeOld(c) \/ EnqueuePurge(c)
    <3>1. jobs'[i] = jobs[i]
      BY <1>0, <2>3, AppendProperties, LenProperties DEF EnqueueIngest, PurgeOld, EnqueuePurge, Enqueue
    <3> QED BY <1>2, <3>1
  <2> QED BY <1>2, <2>1, <2>3, JobsOfRequests
<1>7. CASE Restart
  <2>1. \/ jobs'[i].row = jobs[i].row
        \/ jobs'[i].row = RecoveredRow(jobs[i].row)
    BY <1>7, RestartRows DEF Live, Final
  <2> QED BY <1>1, <1>2, <1>7, <2>1, RestartKeeps, RowFacts DEF Live, Forward
<1>8. CASE ForeignStart \/ UNCHANGED vars
  BY <1>2, <1>8 DEF ForeignStart, vars, store, rows
<1> QED BY <1>5, <1>6, <1>7, <1>8 DEF Next

(* A job that is not live stays as it is, until its document is purged or its row deleted. *)
LEMMA DeadStays ==
  ASSUME BaseInv, [Next]_vars, NEW i \in JobIds, ~Live(i)
  PROVE  /\ ~Live(i)'
         /\ Exists(jobs[i].doc)' => jobs'[i].row.status \in {jobs[i].row.status, "removed"}
<1>0. jobs \in Seq(JobRow) /\ i \in DOMAIN jobs
  BY DEF BaseInv, StoreTypeOK, JobRow, JobIds
<1>1. jobs[i] \in JobRow /\ jobs[i].doc \in Docs /\ jobs[i].row \in Row
  BY <1>0, JobsAreRows
<1>2. CASE jobs'[i].row = jobs[i].row
  BY <1>2 DEF Live
<1>3. \A k, r : jobs' = [jobs EXCEPT ![k].row = r] /\ k # i => jobs'[i] = jobs[i]
  BY <1>0
<1>4. ASSUME NEW w \in Workers, pc[w] # "idle", job[w] = i PROVE jobs[i].row.status = "removed"
  BY <1>4, RunFacts DEF RowOf, Live
<1>5. CASE WorkerNext
  <2>1. PICK w \in Workers : Claim(w) \/ Step(w) \/ Fault(w)
    BY <1>5 DEF WorkerNext
  <2>2. CASE Claim(w)
    <3>1. PICK k \in JobIds : jobs' = [jobs EXCEPT ![k].row = ClaimedRow(jobs[k].row)] /\ IsDue(jobs[k].row)
      BY <2>2 DEF Claim
    <3>2. k # i
      BY <3>1 DEF IsDue, Live
    <3> QED BY <1>2, <1>3, <3>1, <3>2
  <2>3. CASE EnqueueNext(w, "next", "embed", "ingest_ack") \/ EnqueueNext(w, "to_index", "index", "embed_ack")
    <3>1. DocOf(w) \in Docs /\ jobs[job[w]].by \in Strategies
      BY <2>3, RunFacts DEF EnqueueNext
    <3>2. JobsAdded
      BY <2>3, <3>1, JobEnqueued DEF EnqueueNext, JobStages, BaseInv
    <3> QED BY <1>2, <3>2 DEF JobsAdded
  <2>4. ASSUME NEW l, l # "idle", AckJob(w, l) \/ NackJob(w, l)
        PROVE  jobs'[i].row = jobs[i].row
    <3>1. PICK r \in {AckedRow(jobs[job[w]].row), NackedRow(jobs[job[w]].row, RowOf(w).attempt)} :
            jobs' = [jobs EXCEPT ![job[w]].row = r]
      BY <2>4 DEF AckJob, NackJob
    <3>2. CASE job[w] = i
      <4>1. r = jobs[i].row
        BY <1>4, <2>4, <3>1, <3>2 DEF AckJob, NackJob, AckedRow, NackedRow, Gone
      <4>2. jobs'[i] = [jobs[i] EXCEPT !.row = r]
        BY <1>0, <3>1, <3>2
      <4> QED BY <1>1, <4>1, <4>2 DEF JobRow
    <3>3. CASE job[w] # i
      BY <1>3, <3>1, <3>3
    <3> QED BY <3>2, <3>3
  <2>5. CASE PurgeRow(w)
    <3>1. CASE Exists(DocOf(w)) /\ jobs[i].doc = DocOf(w)
      <4>1. status'[jobs[i].doc] = "purged"
        BY <1>1, <2>5, <3>1 DEF PurgeRow, DeleteDoc, BaseInv, StoreTypeOK
      <4>2. jobs'[i] = [jobs[i] EXCEPT !.row = RemovedRow]
        BY <1>0, <2>5, <3>1 DEF PurgeRow, DeleteDoc, JobIds
      <4>3. RemovedRow.status = "removed"
        BY RowFacts
      <4>4. jobs'[i].row = RemovedRow
        BY <1>1, <4>2, RowFacts, RowReplaced
      <4>5. ~Exists(jobs[i].doc)'
        BY <4>1, BaseStep DEF Exists, Forward
      <4> QED BY <4>3, <4>4, <4>5 DEF Live
    <3>2. CASE ~(Exists(DocOf(w)) /\ jobs[i].doc = DocOf(w))
      <4>1. jobs'[i] = jobs[i]
        BY <2>5, <3>2 DEF PurgeRow, DeleteDoc, rows
      <4> QED BY <1>2, <4>1
    <3> QED BY <3>1, <3>2
  <2>6. (\E l \in Acks : AckJob(w, l)) \/ (\E l \in Nacks : NackJob(w, l)) => jobs'[i].row = jobs[i].row
    BY <2>4 DEF Acks, Nacks
  <2> QED BY <1>2, <2>1, <2>2, <2>3, <2>5, <2>6, JobsOfWorkers
<1>6. CASE RequestNext
  <2>1. PICK c \in Clients : UploadStep(c) \/ ReprocessStep(c) \/ DeleteStep(c) \/ RequestFault(c)
    BY <1>6 DEF RequestNext
  <2>2. EnqueueIngest(c) \/ PurgeOld(c) \/ EnqueuePurge(c) => jobs'[i] = jobs[i]
    BY <1>0, AppendProperties, LenProperties DEF EnqueueIngest, PurgeOld, EnqueuePurge, Enqueue
  <2> QED BY <1>2, <2>1, <2>2, JobsOfRequests
<1>7. CASE Restart
  <2>1. jobs'[i].row = jobs[i].row \/ jobs'[i].row = RemovedRow
    BY <1>7, RestartRows DEF Live
  <2> QED BY <1>2, <2>1, RowFacts DEF Live
<1>8. CASE ForeignStart \/ UNCHANGED vars
  BY <1>2, <1>8 DEF ForeignStart, vars, store, rows
<1> QED BY <1>5, <1>6, <1>7, <1>8 DEF Next

\* A live job whose handler, if one runs it, has not come to one of some labels.
Running(i, done) == Live(i) /\ \A w \in Workers : job[w] = i => pc[w] \notin done

(* It runs on, or its handler comes there, or ends. *)
LEMMA RunsOn ==
  ASSUME BaseInv, [Next]_vars, NEW done, \A s \in JobStages : Entry[s] \notin done,
         NEW i \in JobIds, Running(i, done), Exists(jobs[i].doc)'
  PROVE  \/ Running(i, done)'
         \/ \E w \in Workers : /\ job[w] = i /\ pc[w] \in (Acks \cup Nacks) \ done
                               /\ pc[w] \in Nacks => jobs'[i].row.status = "failed"
         \/ \E w \in Workers : /\ Step(w) \/ Fault(w)
                               /\ job[w] = i /\ job'[w] = i /\ pc[w] # "idle" /\ pc'[w] # "idle"
                               /\ pc[w] \notin done /\ pc'[w] \in done
<1>1. CASE ~Live(i)'
  BY <1>1, LiveStays DEF Running
<1>2. ASSUME Live(i)', NEW w \in Workers, job'[w] = i, pc'[w] \in done
      PROVE  /\ Step(w) \/ Fault(w)
             /\ job[w] = i /\ pc[w] # "idle" /\ pc'[w] # "idle" /\ pc[w] \notin done
  <2>1. i # 0 /\ pc'[w] # "idle"
    <3>1. jobs \in Seq(JobRow)
      BY DEF BaseInv, StoreTypeOK, JobRow
    <3>2. i # 0
      BY <3>1, LenProperties DEF JobIds
    <3> QED BY <1>2, <3>2, BaseStep DEF BaseInv, WorkersOK
  <2>2. ~Stays(w)
    BY <1>2 DEF Stays, Running
  <2>3. ~Claim(w)
    BY <1>2, HandlersAssumption DEF Claim, BaseInv, WorkersOK
  <2>4. /\ Step(w) \/ Fault(w)
        /\ job'[w] = job[w] /\ pc[w] # "idle"
    BY <2>1, <2>2, <2>3, WorkerMoves
  <2> QED BY <1>2, <2>1, <2>4 DEF Running
<1>3. CASE Live(i)' /\ \A w \in Workers : job'[w] = i => pc'[w] \notin done
  BY <1>3 DEF Running
<1>4. CASE Live(i)' /\ \E w \in Workers : job'[w] = i /\ pc'[w] \in done
  <2>1. PICK w \in Workers : job'[w] = i /\ pc'[w] \in done
    BY <1>4
  <2> QED BY <1>2, <1>4, <2>1
<1> QED BY <1>1, <1>3, <1>4

(* A job that has just been enqueued runs. *)
LEMMA NewRuns ==
  ASSUME BaseInv, [Next]_vars, NEW done, NEW i, i \in JobIds' \ JobIds
  PROVE  Running(i, done)' /\ Exists(jobs'[i].doc)
<1>1. jobs'[i].row.status = "pending"
  BY NewJobs, RowFacts
<1>2. \A w \in Workers : job'[w] # i
  <2>1. HeldOK'
    BY BaseStep DEF BaseInv
  <2>2. i # 0
    <3>1. jobs' \in Seq(JobRow)
      BY BaseStep DEF BaseInv, StoreTypeOK, JobRow
    <3>2. DOMAIN jobs' = 1 .. Len(jobs') /\ Len(jobs') \in Nat
      BY <3>1, LenProperties
    <3> QED BY <3>2 DEF JobIds
  <2> QED BY <1>1, <2>1, <2>2 DEF HeldOK
<1>3. Live(i)'
  BY <1>1 DEF Live
<1> QED BY <1>2, <1>3, NewJobs DEF Running

(* A worker's step is a step of the handler of its stage. *)
LEMMA StepStage ==
  ASSUME BaseInv, NEW w \in Workers, Step(w) \/ Fault(w)
  PROVE  \/ WorkerStage[w] = "ingest" /\ (IngestStep(w) \/ IngestFault(w))
         \/ WorkerStage[w] = "embed" /\ (EmbedStep(w) \/ EmbedFault(w))
         \/ WorkerStage[w] = "index" /\ (IndexStep(w) \/ IndexFault(w))
         \/ WorkerStage[w] = "purge" /\ (PurgeStep(w) \/ PurgeFault(w))
<1>1. ASSUME NEW l \in Labels, pc[w] = l PROVE WorkerStage[w] = LabelStage(l)
  BY <1>1, LabelFacts DEF BaseInv, WorkersOK
<1> USE DEF WriteStage, WriteStatus, EnqueueNext, AckJob, NackJob, Raise, Abandon
<1>2. ASSUME IngestStep(w) \/ IngestFault(w) PROVE pc[w] \in IngestLabels
  BY <1>2 DEF IngestStep, IngestFault, FetchAndParse, UploadTable, Cut, InsertChunks,
         IngestLabels, IngestBody, IngestExcept
<1>3. ASSUME EmbedStep(w) \/ EmbedFault(w) PROVE pc[w] \in EmbedLabels
  BY <1>3 DEF EmbedStep, EmbedFault, Guard, LoadChunks, Upsert, UpsertPart, DropCollection,
         CreateCollection, RetryUpsert, CommitEmbedded, EmbedLabels, EmbedBody, EmbedExcept
<1>4. ASSUME IndexStep(w) \/ IndexFault(w) PROVE pc[w] \in IndexLabels
  BY <1>4 DEF IndexStep, IndexFault, IndexLabels, IndexBody, IndexExcept
<1>5. ASSUME PurgeStep(w) \/ PurgeFault(w) PROVE pc[w] \in PurgeLabels
  BY <1>5 DEF PurgeStep, PurgeFault, PurgeVectors, PurgeTable, PurgeObject, PurgeRow, MarkPurgeError,
         PurgeLabels
<1> QED BY <1>1, <1>2, <1>3, <1>4, <1>5, LabelFacts DEF Step, Fault

(* What an embed worker holds. *)

\* It is of its document, and in the table as long as the document is there.
HoldsRows(w) ==
  IF pc[w] = "idle" THEN loaded[w] = {}
  ELSE /\ \A c \in loaded[w] : c.doc = DocOf(w)
       /\ Exists(DocOf(w)) => loaded[w] \subseteq chunks

LoadedInv == \A w \in Workers : HoldsRows(w)

(* The chunk rows of a document that is there stay. *)
LEMMA RowsStay ==
  ASSUME BaseInv, [Next]_vars, NEW d \in Docs, Exists(d)', NEW c \in chunks, c.doc = d
  PROVE  c \in chunks'
<1>1. CASE chunks' = chunks
  BY <1>1
<1>2. CASE \E w \in Workers : InsertChunks(w)
  BY <1>2 DEF InsertChunks, MergeChunks
<1>3. CASE \E w \in Workers : PurgeRow(w)
  <2>1. PICK w \in Workers : PurgeRow(w)
    BY <1>3
  <2>2. CASE Exists(DocOf(w))
    <3>1. chunks' = chunks \ ChunksOf(DocOf(w)) /\ status' = [status EXCEPT ![DocOf(w)] = "purged"]
      BY <2>1, <2>2 DEF PurgeRow, DeleteDoc
    <3>2. DocOf(w) # d
      BY <3>1 DEF Exists, BaseInv, StoreTypeOK
    <3> QED BY <3>1, <3>2 DEF ChunksOf
  <2>3. CASE ~Exists(DocOf(w))
    BY <2>1, <2>3 DEF PurgeRow, DeleteDoc, rows
  <2> QED BY <2>2, <2>3
<1> QED BY <1>1, <1>2, <1>3, SearchChanges DEF VectorsChange, RowsChange

(* A worker that polls holds no chunks. *)
LEMMA IdleHoldsNothing ==
  ASSUME BaseInv, [Next]_vars, NEW w \in Workers, pc'[w] = "idle", pc[w] = "idle" => loaded[w] = {}
  PROVE  loaded'[w] = {}
<1>0. job'[w] = 0
  BY BaseStep DEF BaseInv, WorkersOK
<1>1. CASE UNCHANGED handlers
  BY <1>1 DEF handlers
<1>2. CASE Restart
  BY <1>2 DEF Restart
<1>3. CASE WorkerNext
  <2>1. PICK v \in Workers : Claim(v) \/ Step(v) \/ Fault(v)
    BY <1>3 DEF WorkerNext
  <2>2. CASE v = w
    <3>1. \/ Claim(w) /\ loaded' = loaded
          \/ pc[w] # "idle" /\ job' = job
          \/ loaded'[w] = {}
      BY <2>1, <2>2, Moved
    <3> QED BY <1>0, <3>1 DEF Claim, BaseInv, WorkersOK
  <2>3. CASE v # w
    <3>1. PICK l, cs : pc' = [pc EXCEPT ![v] = l] /\ loaded' = [loaded EXCEPT ![v] = cs]
      BY <2>1, Moved
    <3> QED BY <2>3, <3>1 DEF BaseInv, WorkersOK
  <2> QED BY <2>2, <2>3
<1> QED BY <1>1, <1>2, <1>3 DEF Next, RequestNext, ForeignStart, vars

(* Every step keeps this. *)
LEMMA LoadedKept ==
  ASSUME BaseInv, LoadedInv, [Next]_vars
  PROVE  LoadedInv'
<1> SUFFICES ASSUME NEW w \in Workers PROVE HoldsRows(w)'
  BY DEF LoadedInv
<1>0. HoldsRows(w)
  BY DEF LoadedInv
<1>1. CASE pc'[w] = "idle"
  <2>1. loaded'[w] = {}
    BY <1>0, <1>1, IdleHoldsNothing DEF HoldsRows
  <2> QED BY <1>1, <2>1 DEF HoldsRows
<1>2. CASE pc'[w] # "idle"
  <2>1. CASE loaded'[w] = {}
    BY <1>2, <2>1 DEF HoldsRows
  <2>2. CASE LoadChunks(w) /\ job'[w] = job[w] /\ pc[w] # "idle"
    <3>1. PICK d \in Docs : d = DocOf(w) /\ d = DocOf(w)'
      BY <2>2, SameRun
    <3>2. loaded'[w] = ChunksOf(d) /\ chunks' = chunks
      BY <2>2, <3>1 DEF LoadChunks, BaseInv, WorkersOK, store, rows
    <3> QED BY <1>2, <3>1, <3>2 DEF HoldsRows, ChunksOf
  <2>3. CASE loaded'[w] = loaded[w] /\ job'[w] = job[w] /\ pc[w] # "idle"
    <3>1. PICK d \in Docs : d = DocOf(w) /\ d = DocOf(w)'
      BY <2>3, SameRun
    <3>2. Exists(d)' => loaded[w] \subseteq chunks'
      <4> SUFFICES ASSUME Exists(d)', NEW c \in loaded[w] PROVE c \in chunks'
        OBVIOUS
      <4>1. Exists(d)
        BY <3>1, RunFacts, BaseStep, <2>3 DEF BaseInv, JobsOK, DocOf, Forward, Exists
      <4> QED BY <1>0, <2>3, <3>1, <4>1, RowsStay DEF HoldsRows
    <3> QED BY <1>0, <1>2, <2>3, <3>1, <3>2 DEF HoldsRows
  <2>4. CASE Claim(w) /\ loaded' = loaded
    BY <1>0, <1>2, <2>1, <2>4 DEF HoldsRows, Claim
  <2>5. pc[w] = "idle" => Claim(w) \/ ~Stays(w)
    BY <1>2 DEF Stays
  <2> QED BY <1>2, <2>2, <2>3, <2>4, <2>5, WorkerMoves DEF Stays
<1> QED BY <1>1, <1>2
-----------------------------------------------------------------------------
(* A document that nobody works on has ended.                                *)

\* Where a handler has said how the document's pipeline goes on or has ended.
Ended == {"ingest_ack", "ingest_nack", "embed_ack", "embed_nack",
          "indexed", "index_ack", "index_nack", "purge_nack"}

\* A request that is going to enqueue a job of the document.
Promised(c, d) ==
  \/ req[c].doc = d /\ req[c].at \in {"uploaded", "reset", "enqueue", "purge"}
  \/ req[c].old = d /\ req[c].at = "purge_old"

\* Somebody is still going to set a status.
Owed(d) == (\E i \in JobsOf(d) : Running(i, Ended)) \/ \E c \in Clients : Promised(c, d)

\* The except branches that leave a document without a last word.
Silent == {"index_failed", "index_nack", "purge_failed", "purge_nack"}

QuietInv ==
  /\ LoadedInv
  /\ \A w \in Workers : pc[w] \notin Silent
  /\ \A d \in Docs : Exists(d) /\ status[d] \notin Terminal => Owed(d)

(* How a handler comes to its end. *)
LEMMA Endings ==
  ASSUME BaseInv, NEW w \in Workers, Step(w) \/ Fault(w),
         pc[w] \notin Ended \cup Silent, pc'[w] \in Ended
  PROVE  \/ EnqueueNext(w, "next", "embed", "ingest_ack")
         \/ EnqueueNext(w, "to_index", "index", "embed_ack")
         \/ \E s \in Terminal : SetStatus(DocOf(w), s)
         \/ Guard(w) /\ ~Exists(DocOf(w))
         \/ CommitEmbedded(w) /\ ~(loaded[w] \subseteq chunks)
<1>1. \A l : pc' = [pc EXCEPT ![w] = l] => pc'[w] = l
  BY DEF BaseInv, WorkersOK
<1>2. ASSUME Except(w) PROVE FALSE
  <2>1. pc'[w] = Handler[WorkerStage[w]] /\ WorkerStage[w] \in JobStages
    BY <1>1, <1>2, HandlersAssumption DEF Except, Goto
  <2>2. \A s \in JobStages : Handler[s] \notin Ended
    BY DEF Handler, JobStages, Ended
  <2> QED BY <2>1, <2>2
<1>3. ASSUME Return(w) PROVE FALSE
  BY <1>1, <1>3 DEF Return, Ended
<1>4. ASSUME NEW here, NEW st, NEW s, NEW next, next \notin Ended \/ here \in Ended \cup Silent,
             WriteStage(w, here, st, s, next)
      PROVE  FALSE
  BY <1>1, <1>4 DEF WriteStage, Goto
<1>5. ASSUME NEW here, NEW s, NEW next, next \notin Ended \/ s \in Terminal, WriteStatus(w, here, s, next)
      PROVE  \E t \in Terminal : SetStatus(DocOf(w), t)
  BY <1>1, <1>5 DEF WriteStatus, Goto
<1>6. ASSUME NEW body, Raise(w, body) \/ Abandon(w, body) \/ AckJob(w, body) \/ NackJob(w, body)
      PROVE  FALSE
  BY <1>2, <1>3, <1>6 DEF Raise, Abandon, AckJob, NackJob
<1>7. CASE IngestStep(w) \/ IngestFault(w)
  <2>1. ~FetchAndParse(w) /\ ~UploadTable(w) /\ ~Cut(w) /\ ~InsertChunks(w)
    BY <1>1, <1>2 DEF FetchAndParse, UploadTable, Cut, InsertChunks, Goto, Ended
  <2> QED BY <1>4, <1>5, <1>6, <1>7, <2>1 DEF IngestStep, IngestFault, Ended, Terminal, Failed
<1>8. CASE EmbedStep(w) \/ EmbedFault(w)
  <2>1. /\ ~LoadChunks(w) /\ ~UpsertPart(w) /\ ~DropCollection(w) /\ ~CreateCollection(w) /\ ~RetryUpsert(w)
    BY <1>1, <1>2 DEF LoadChunks, UpsertPart, DropCollection, CreateCollection, RetryUpsert, Goto, Ended
  <2>2. ~Upsert(w)
    BY <1>1, <1>2 DEF Upsert, Goto, Ended, BaseInv, StoreTypeOK
  <2>3. Guard(w) => ~Exists(DocOf(w))
    BY <1>1 DEF Guard, Goto, Ended
  <2>4. CommitEmbedded(w) => ~(loaded[w] \subseteq chunks)
    BY <1>1 DEF CommitEmbedded, Goto, Ended
  <2> QED BY <1>4, <1>5, <1>6, <1>8, <2>1, <2>2, <2>3, <2>4 DEF EmbedStep, EmbedFault, Ended, Terminal, Failed
<1>9. CASE IndexStep(w) \/ IndexFault(w)
  BY <1>4, <1>5, <1>6, <1>9 DEF IndexStep, IndexFault, Ended, Silent, Terminal
<1>10. CASE PurgeStep(w) \/ PurgeFault(w)
  <2>1. ~PurgeVectors(w) /\ ~PurgeTable(w) /\ ~PurgeObject(w) /\ ~PurgeRow(w) /\ ~MarkPurgeError(w)
    BY <1>1, <1>3 DEF PurgeVectors, PurgeTable, PurgeObject, PurgeRow, MarkPurgeError, Goto, Ended, Silent
  <2> QED BY <1>6, <1>10, <2>1 DEF PurgeStep, PurgeFault
<1> QED BY <1>7, <1>8, <1>9, <1>10 DEF Step, Fault

(* A request that sets the stages back one by one comes to the end of them. *)
LEMMA ResetGoesOn ==
  ASSUME BaseInv, NEW c \in Clients, ResetStage(c)
  PROVE  req'[c].at \in {"reset", "enqueue"} /\ req'[c].doc = req[c].doc
<1> DEFINE n == req[c].reset + 1
           label == IF n = Len(ResetOrder) THEN "enqueue" ELSE "reset"
           r == [req[c] EXCEPT !.at = label, !.reset = n]
<1>1. label \in {"reset", "enqueue"} /\ req' = [req EXCEPT ![c] = r]
  BY DEF ResetStage
<1>2. req[c] \in Request
  BY DEF BaseInv, RequestsOK
<1> HIDE DEF label, n
<1>3. r.at = label /\ r.doc = req[c].doc
  BY <1>2 DEF Request
<1> HIDE DEF r
<1>4. req'[c] = r
  BY <1>1 DEF BaseInv, RequestsOK
<1> QED BY <1>1, <1>3, <1>4

(* A request that has been accepted enqueues its job, unless it fails. *)
LEMMA RequestPromise ==
  ASSUME "api" \notin FaultyParts, BaseInv, NEW c \in Clients, NEW d \in Docs, Exists(d), Promised(c, d),
         UploadStep(c) \/ ReprocessStep(c) \/ DeleteStep(c) \/ RequestFault(c)
  PROVE  Promised(c, d)' \/ \E i : i \in JobIds' \ JobIds /\ jobs'[i].doc = d
<1>0. req[c] \in Request
  BY DEF BaseInv, RequestsOK
<1>1. ASSUME NEW st \in JobStages, NEW by \in Strategies, Enqueue(st, d, by)
      PROVE  \E i : i \in JobIds' \ JobIds /\ jobs'[i].doc = d
  <2>1. PICK i \in JobIds' \ JobIds : jobs'[i] = NewJob(st, d, by)
    BY <1>1, JobEnqueued DEF BaseInv
  <2> QED BY <2>1 DEF NewJob
<1>2. ~RequestFault(c)
  BY DEF RequestFault, MayFault
<1>3. Carries(req[c])
  BY RequestCarries
<1>4. \/ req[c].doc = d /\ (StageUploaded(c) \/ ResetStage(c) \/ EnqueueIngest(c) \/ EnqueuePurge(c))
      \/ req[c].old = d /\ PurgeOld(c)
  BY <1>2, Zenon DEF Promised, UploadStep, ReprocessStep, DeleteStep, StartUpload, Find, Requeue, FindName,
         Replace, PurgeOld, PutObject, InsertDocument, StageUploaded, StartReprocess, Reprocess, ResetStage,
         EnqueueIngest, StartDelete, MarkDeleting, EnqueuePurge, Begin
<1>5. CASE req[c].doc = d /\ StageUploaded(c)
  <2>1. req' = [req EXCEPT ![c].at = "enqueue"]
    BY <1>5 DEF StageUploaded, Proceed
  <2> QED BY <1>0, <1>5, <2>1 DEF Promised, BaseInv, RequestsOK, Request
<1>6. CASE req[c].doc = d /\ ResetStage(c)
  BY <1>6, ResetGoesOn DEF Promised
<1>7. CASE req[c].doc = d /\ EnqueueIngest(c)
  <2>1. req[c].by \in Strategies
    BY <1>3, <1>7 DEF EnqueueIngest, Carries, Fresh, Early
  <2> QED BY <1>1, <1>7, <2>1 DEF EnqueueIngest, JobStages
<1>8. CASE req[c].doc = d /\ EnqueuePurge(c)
  <2>1. (CHOOSE by \in Strategies : TRUE) \in Strategies
    BY StoreAssumption
  <2> QED BY <1>1, <1>8, <2>1 DEF EnqueuePurge, JobStages
<1>9. CASE req[c].old = d /\ PurgeOld(c)
  <2>1. req[c].by \in Strategies
    BY <1>3, <1>9 DEF PurgeOld, Carries, Fresh, Early
  <2> QED BY <1>1, <1>9, <2>1 DEF PurgeOld, JobStages
<1> QED BY <1>4, <1>5, <1>6, <1>7, <1>8, <1>9

(* The same for a step of the whole system without a restart. *)
LEMMA PromiseKept ==
  ASSUME "api" \notin FaultyParts, MaxRestarts = 0, BaseInv, TypeOK, [Next]_vars,
         NEW c \in Clients, NEW d \in Docs, Exists(d), Promised(c, d)
  PROVE  Promised(c, d)' \/ \E i : i \in JobIds' \ JobIds /\ jobs'[i].doc = d
<1>1. CASE UNCHANGED req
  BY <1>1 DEF Promised
<1>2. CASE RequestNext
  <2>1. PICK b \in Clients : UploadStep(b) \/ ReprocessStep(b) \/ DeleteStep(b) \/ RequestFault(b)
    BY <1>2 DEF RequestNext
  <2>2. CASE b = c
    BY <2>1, <2>2, RequestPromise
  <2>3. CASE b # c
    <3>1. PICK r : req' = [req EXCEPT ![b] = r]
      BY <1>2, <2>1, RequestMoves DEF RequestNext
    <3> QED BY <2>3, <3>1 DEF Promised
  <2> QED BY <2>2, <2>3
<1> QED BY <1>1, <1>2 DEF Next, WorkerNext, Restart, ForeignStart, vars, TypeOK

(* The except branches of the last two stages are not reached when nothing there fails. *)
LEMMA NeverSilent ==
  ASSUME FaultyParts \cap {"index", "purge"} = {}, BaseInv, \A v \in Workers : pc[v] \notin Silent,
         [Next]_vars, NEW w \in Workers
  PROVE  pc'[w] \notin Silent
<1> SUFFICES ASSUME pc'[w] \in Silent PROVE FALSE
  OBVIOUS
<1>1. pc'[w] # "idle" /\ WorkerStage[w] \in {"index", "purge"}
  <2>1. WorkersOK'
    BY BaseStep DEF BaseInv
  <2>2. LabelStage(pc'[w]) \in {"index", "purge"} /\ pc'[w] # "idle"
    BY LabelFacts DEF Silent, IndexLabels, IndexExcept, PurgeLabels
  <2> QED BY <2>1, <2>2 DEF WorkersOK
<1>2. ~Stays(w)
  BY DEF Stays
<1>3. CASE Claim(w)
  <2>1. pc'[w] = Entry[WorkerStage[w]]
    BY <1>3 DEF Claim, BaseInv, WorkersOK
  <2> QED BY <1>1, <2>1 DEF Entry, Silent
<1>4. CASE Step(w) \/ Fault(w)
  <2>1. \A l : pc' = [pc EXCEPT ![w] = l] => pc'[w] = l
    BY DEF BaseInv, WorkersOK
  <2>2. ~MayFault(WorkerStage[w])
    BY <1>1 DEF MayFault
  <2>3. pc[w] \notin Silent
    OBVIOUS
  <2>4. CASE IndexStep(w) \/ IndexFault(w)
    BY <2>1, <2>2, <2>3, <2>4 DEF IndexStep, IndexFault, WriteStage, WriteStatus, AckJob, NackJob, Raise,
           Abandon, Goto, Return, Silent
  <2>5. CASE PurgeStep(w) \/ PurgeFault(w)
    BY <2>1, <2>2, <2>3, <2>5 DEF PurgeStep, PurgeFault, PurgeVectors, PurgeTable, PurgeObject, PurgeRow,
           MarkPurgeError, NackJob, Raise, Abandon, Goto, Return, Silent
  <2> QED BY <1>1, <1>4, <2>4, <2>5, StepStage
<1> QED BY <1>1, <1>2, <1>3, <1>4, WorkerMoves

(* Whoever sets a status that is not the last one goes on. *)
LEMMA OwedAfterStatus ==
  ASSUME BaseInv, [Next]_vars, NEW d \in Docs, Exists(d)', status'[d] # status[d],
         status'[d] \notin Terminal
  PROVE  Owed(d)'
<1>1. ASSUME NEW c \in Clients, StatusWrittenByRequest(c, d) PROVE Promised(c, d)'
  <2>1. req[c] \in Request /\ \A r : req' = [req EXCEPT ![c] = r] => req'[c] = r
    BY DEF BaseInv, RequestsOK
  <2>2. \A l : Proceed(c, l) => req'[c].at = l /\ req'[c].doc = req[c].doc /\ req'[c].old = req[c].old
    BY <2>1 DEF Proceed, Request, BaseInv, RequestsOK
  <2>3. CASE req[c].doc = d /\ (InsertDocument(c) \/ Requeue(c))
    BY <2>2, <2>3 DEF InsertDocument, Requeue, Promised
  <2>4. \A s : SetStatus(d, s) => Exists(d)
    BY DEF SetStatus, StatusAfter
  <2>5. CASE req[c].doc = d /\ Reprocess(c)
    BY <2>2, <2>4, <2>5 DEF Reprocess, Promised
  <2>6. CASE req[c].doc = d /\ MarkDeleting(c)
    BY <2>2, <2>4, <2>6 DEF MarkDeleting, Promised
  <2>7. CASE req[c].old = d /\ Replace(c)
    BY <2>2, <2>7 DEF Replace, Promised
  <2> QED BY <1>1, <2>3, <2>5, <2>6, <2>7 DEF StatusWrittenByRequest
<1>2. ASSUME NEW w \in Workers, PurgeRow(w), DocOf(w) = d PROVE FALSE
  BY <1>2 DEF PurgeRow, DeleteDoc, Exists, rows, BaseInv, StoreTypeOK
<1>3. ASSUME NEW w \in Workers, Step(w) \/ Fault(w), StatusWrittenByWorker(w, d)
      PROVE  \E i \in JobsOf(d)' : Running(i, Ended)'
  <2>1. /\ pc[w] # "idle" /\ DocOf(w) = d /\ job' = job
        /\ pc'[w] \notin Ended \cup {"idle"}
    BY <1>3 DEF StatusWrittenByWorker, Ended
  <2>2. PICK i \in JobIds : i = job[w] /\ i = job'[w] /\ i # 0
    BY <2>1, RunFacts
  <2>3. i \in JobsOf(d)' /\ jobs'[i].doc = d
    BY <2>1, <2>2, BaseStep DEF DocOf, JobsOf, Forward
  <2>4. jobs'[i].row.status = "processing"
    <3>1. HeldOK'
      BY BaseStep DEF BaseInv
    <3>2. \/ jobs'[i].row.status = "processing"
          \/ jobs'[i].row.status = "removed" /\ status'[jobs'[i].doc] = "purged"
      BY <2>2, <3>1 DEF HeldOK
    <3> QED BY <2>3, <3>2 DEF Exists
  <2>5. \A v \in Workers : job'[v] = i => v = w
    BY <2>2, BaseStep DEF BaseInv, HeldOK
  <2>6. Running(i, Ended)'
    BY <2>1, <2>4, <2>5 DEF Running, Live
  <2> QED BY <2>3, <2>6
<1> QED BY <1>1, <1>2, <1>3, StatusFrom DEF Owed

(* Somebody who is going to write the status is left after a step that does not. *)
LEMMA OwedStays ==
  ASSUME "api" \notin FaultyParts, MaxRestarts = 0, BaseInv, TypeOK, QuietInv, [Next]_vars,
         NEW d \in Docs, Exists(d)', status'[d] = status[d], Owed(d), status[d] \notin Terminal
  PROVE  Owed(d)'
<1>0. Exists(d)
  BY DEF Exists
<1>1. ASSUME NEW i, i \in JobIds' \ JobIds, jobs'[i].doc = d PROVE Owed(d)'
  BY <1>1, NewRuns DEF Owed, JobsOf
<1>2. ASSUME NEW c \in Clients, Promised(c, d) PROVE Owed(d)'
  BY <1>0, <1>1, <1>2, PromiseKept DEF Owed
<1>3. ASSUME NEW i \in JobsOf(d), Running(i, Ended) PROVE Owed(d)'
  <2>1. i \in JobIds /\ jobs[i].doc = d /\ jobs'[i].doc = d /\ i \in JobsOf(d)'
    BY BaseStep DEF JobsOf, Forward
  <2>2. CASE Running(i, Ended)'
    BY <2>1, <2>2 DEF Owed
  <2>3. ASSUME NEW w \in Workers, Step(w) \/ Fault(w), job[w] = i, pc[w] # "idle",
               pc[w] \notin Ended, pc'[w] \in Ended
        PROVE  Owed(d)'
    <3>1. DocOf(w) = d
      BY <2>1, <2>3 DEF DocOf
    <3>2. pc[w] \notin Silent
      BY DEF QuietInv
    <3>3. ~(\E s \in Terminal : SetStatus(DocOf(w), s))
      BY <1>0, <3>1 DEF SetStatus, StatusAfter, BaseInv, StoreTypeOK
    <3>4. loaded[w] \subseteq chunks
      BY <1>0, <2>3, <3>1 DEF QuietInv, LoadedInv, HoldsRows
    <3>5. \/ EnqueueNext(w, "next", "embed", "ingest_ack")
          \/ EnqueueNext(w, "to_index", "index", "embed_ack")
      BY <1>0, <2>3, <3>1, <3>2, <3>3, <3>4, Endings
    <3>6. ASSUME NEW st \in JobStages, Enqueue(st, d, jobs[job[w]].by) PROVE Owed(d)'
      <4>1. jobs[job[w]].by \in Strategies
        BY <2>3, RunFacts
      <4>2. PICK k \in JobIds' \ JobIds : jobs'[k] = NewJob(st, d, jobs[job[w]].by)
        BY <1>0, <3>6, <4>1, JobEnqueued DEF BaseInv
      <4> QED BY <1>1, <4>2 DEF NewJob
    <3> QED BY <3>1, <3>5, <3>6 DEF EnqueueNext, JobStages
  <2>4. \A s \in JobStages : Entry[s] \notin Ended
    BY DEF Entry, Ended, JobStages
  <2>5. \A w \in Workers : job[w] = i => pc[w] \notin (Acks \cup Nacks) \ Ended
    BY DEF Acks, Nacks, Ended
  <2> QED BY <1>3, <2>1, <2>2, <2>3, <2>4, <2>5, RunsOn
<1> QED BY <1>2, <1>3 DEF Owed

(* Every step keeps the invariant. *)
LEMMA QuietStep ==
  ASSUME FaultyParts \cap {"index", "purge", "api"} = {}, MaxRestarts = 0,
         BaseInv, TypeOK, QuietInv, [Next]_vars
  PROVE  QuietInv'
<1>1. LoadedInv'
  BY LoadedKept DEF QuietInv
<1>2. \A w \in Workers : pc'[w] \notin Silent
  BY NeverSilent DEF QuietInv
<1>3. ASSUME NEW d \in Docs, Exists(d)', status'[d] \notin Terminal PROVE Owed(d)'
  <2>1. CASE status'[d] # status[d]
    BY <1>3, <2>1, OwedAfterStatus
  <2>2. CASE status'[d] = status[d]
    <3>1. Exists(d) /\ status[d] \notin Terminal
      BY <1>3, <2>2 DEF Exists
    <3> QED BY <1>3, <2>2, <3>1, OwedStays DEF QuietInv
  <2> QED BY <2>1, <2>2
<1> QED BY <1>1, <1>2, <1>3 DEF QuietInv

(* It holds at first. *)
LEMMA QuietInit == Init => QuietInv
BY DEF Init, StoreInit, HandlersInit, QuietInv, LoadedInv, HoldsRows, Silent, Exists

\* Somebody who is going to write a document's status is always left until the
\* status is a last one: a handler that has not said how it ends, a job it has
\* enqueued, a request that has been accepted.  Two parts of the code break the
\* chain, the except branches of the last two stages, which leave the status
\* alone, and a request or an instance that dies between two of its statements.
THEOREM QuietDocumentsHaveEnded ==
  FaultyParts \cap {"index", "purge", "api"} = {} /\ MaxRestarts = 0 => (Spec => []QuietIsTerminal)
<1> SUFFICES ASSUME FaultyParts \cap {"index", "purge", "api"} = {}, MaxRestarts = 0
             PROVE  Spec => []QuietIsTerminal
  OBVIOUS
<1>1. BaseInv /\ TypeOK /\ QuietInv /\ [Next]_vars => QuietInv'
  BY QuietStep
<1>2. QuietInv => QuietIsTerminal
  <2> SUFFICES ASSUME QuietInv, NEW d \in Docs, Exists(d), Settled(d), status[d] \notin Terminal PROVE FALSE
    BY DEF QuietIsTerminal
  <2>1. Owed(d)
    BY DEF QuietInv
  <2> QED BY <2>1 DEF Owed, Running, Promised, Settled, LiveJobsOf
<1> QED BY <1>1, <1>2, QuietInit, PipelineBase, PipelineTypes, PTL DEF Spec
-----------------------------------------------------------------------------
(* What a handler knows of its document, although others write the table     *)
(* while it runs: whether there is a text, whether the strategy cuts it,     *)
(* whether there are chunk rows.                                             *)

\* A file without text, which ends in "parse_failed".
Empty(d) == info[d].content \in Blank \ Tabular

Knows(label, d, by) ==
  /\ label \in {"no_text", "parse_failed"} => Empty(d)
  /\ label \in {"mindsdb", "parsed", "chunk", "cut", "no_chunks", "chunk_failed", "insert",
                "chunked", "next"} => ~Empty(d)
  /\ label = "insert" => CutChunks(d, by) # {}
  /\ label \in {"no_chunks", "chunk_failed"} => CutChunks(d, by) = {}
  /\ label \in {"chunked", "next"} /\ Exists(d) => ChunksOf(d) # {}
  /\ label \in {"nothing", "nothing_failed"} => ~Exists(d)

\* What a job says of its document.
Tells(st, d) ==
  /\ st \in {"embed", "index"} => ~Empty(d)
  /\ st = "embed" /\ Exists(d) => ChunksOf(d) # {}

WorkerKnows(w) == Knows(pc[w], DocOf(w), jobs[job[w]].by)

KnowledgeInv ==
  /\ \A c \in chunks : ~Empty(c.doc)
  /\ \A d \in Docs : status[d] = "indexed" => ~Empty(d)
  /\ \A i \in JobIds : Tells(jobs[i].stage, jobs[i].doc)
  /\ \A w \in Workers : pc[w] # "idle" => WorkerKnows(w)

(* Contents do not change, rows stay as long as their document. *)
LEMMA KnowledgeStays ==
  ASSUME BaseInv, [Next]_vars, NEW d \in Docs, status[d] # "absent"
  PROVE  /\ Empty(d)' <=> Empty(d)
         /\ Exists(d)' => Exists(d)
         /\ Exists(d)' /\ ChunksOf(d) # {} => ChunksOf(d)' # {}
         /\ \A by \in Strategies : CutChunks(d, by)' = CutChunks(d, by)
         /\ \A st : Tells(st, d) => Tells(st, d)'
         /\ \A label : \A by \in Strategies : Knows(label, d, by) => Knows(label, d, by)'
<1>1. Empty(d)' <=> Empty(d)
  BY SameCut DEF Empty
<1>2. Exists(d)' => Exists(d)
  BY BaseStep DEF Forward, Exists
<1>3. Exists(d)' /\ ChunksOf(d) # {} => ChunksOf(d)' # {}
  BY RowsStay DEF ChunksOf
<1>4. \A by \in Strategies : CutChunks(d, by)' = CutChunks(d, by)
  BY SameCut
<1>5. ASSUME NEW st, Tells(st, d) PROVE Tells(st, d)'
  BY <1>1, <1>2, <1>3, <1>5 DEF Tells
<1>6. ASSUME NEW label, NEW by \in Strategies, Knows(label, d, by) PROVE Knows(label, d, by)'
  BY <1>1, <1>2, <1>3, <1>4, <1>6 DEF Knows
<1> QED BY <1>1, <1>2, <1>3, <1>4, <1>5, <1>6

(* What a handler knows at its next label. *)
LEMMA Learns ==
  ASSUME BaseInv, KnowledgeInv, NEW w \in Workers, Step(w) \/ Fault(w),
         pc[w] # "idle", pc'[w] # "idle", NEW d, d = DocOf(w), NEW by, by = jobs[job[w]].by,
         Tells(jobs[job[w]].stage, d), Knows(pc[w], d, by)
  PROVE  \/ Knows(pc'[w], d, by)
         \/ InsertChunks(w) /\ Exists(d) /\ pc'[w] = "chunked"
<1>1. \A l : pc' = [pc EXCEPT ![w] = l] => pc'[w] = l
  BY DEF BaseInv, WorkersOK
<1>2. ASSUME Except(w) PROVE Knows(pc'[w], d, by)
  <2>1. pc'[w] = Handler[WorkerStage[w]] /\ WorkerStage[w] \in JobStages
    BY <1>1, <1>2, HandlersAssumption DEF Except, Goto
  <2>2. \A s \in JobStages : Knows(Handler[s], d, by)
    BY DEF Handler, JobStages, Knows
  <2> QED BY <2>1, <2>2
<1>3. ~Return(w)
  BY <1>1 DEF Return
<1>4. ASSUME NEW here, NEW st, NEW s, NEW next, WriteStage(w, here, st, s, next)
      PROVE  pc[w] = here /\ pc'[w] = next
  BY <1>1, <1>4 DEF WriteStage, Goto
<1>5. ASSUME NEW here, NEW s, NEW next, WriteStatus(w, here, s, next)
      PROVE  pc[w] = here /\ pc'[w] = next
  BY <1>1, <1>5 DEF WriteStatus, Goto
<1>6. ASSUME NEW here, NEW st, NEW next, EnqueueNext(w, here, st, next) PROVE pc'[w] = next
  BY <1>1, <1>6 DEF EnqueueNext, Goto
<1>7. ASSUME NEW body, Raise(w, body) \/ Abandon(w, body) \/ AckJob(w, body) \/ NackJob(w, body)
      PROVE  Knows(pc'[w], d, by)
  BY <1>2, <1>3, <1>7 DEF Raise, Abandon, AckJob, NackJob
<1>8. CASE IngestStep(w) \/ IngestFault(w)
  <2>1. CASE FetchAndParse(w)
    BY <1>1, <1>2, <2>1 DEF FetchAndParse, Goto, Knows, Empty
  <2>2. CASE UploadTable(w)
    BY <1>1, <2>2 DEF UploadTable, Goto, Knows
  <2>3. CASE Cut(w)
    BY <1>1, <2>3 DEF Cut, Goto, Knows
  <2>4. CASE InsertChunks(w)
    BY <1>1, <1>2, <2>4 DEF InsertChunks, Goto
  <2> QED BY <1>4, <1>5, <1>6, <1>7, <1>8, <2>1, <2>2, <2>3, <2>4 DEF IngestStep, IngestFault, Knows
<1>9. CASE EmbedStep(w) \/ EmbedFault(w)
  <2>1. CASE LoadChunks(w)
    <3>1. jobs[job[w]].stage = "embed"
      BY <2>1, RunFacts, LabelFacts DEF LoadChunks, EmbedLabels, EmbedBody
    <3> QED BY <1>1, <2>1, <3>1 DEF LoadChunks, Knows, Tells
  <2>2. CASE Upsert(w)
    BY <1>1, <1>2, <2>2 DEF Upsert, Goto, Knows, BaseInv, StoreTypeOK
  <2>3. CASE Guard(w) \/ UpsertPart(w) \/ DropCollection(w) \/ CreateCollection(w) \/ RetryUpsert(w)
             \/ CommitEmbedded(w)
    BY <1>1, <1>2, <2>3 DEF Guard, UpsertPart, DropCollection, CreateCollection, RetryUpsert,
           CommitEmbedded, Goto, Knows
  <2> QED BY <1>4, <1>5, <1>6, <1>7, <1>9, <2>1, <2>2, <2>3 DEF EmbedStep, EmbedFault, Knows
<1>10. CASE IndexStep(w) \/ IndexFault(w)
  BY <1>4, <1>5, <1>7, <1>10 DEF IndexStep, IndexFault, Knows
<1>11. CASE PurgeStep(w) \/ PurgeFault(w)
  <2>1. CASE PurgeVectors(w) \/ PurgeTable(w) \/ PurgeObject(w) \/ PurgeRow(w) \/ MarkPurgeError(w)
    BY <1>1, <1>3, <2>1 DEF PurgeVectors, PurgeTable, PurgeObject, PurgeRow, MarkPurgeError, Goto, Knows
  <2> QED BY <1>7, <1>11, <2>1 DEF PurgeStep, PurgeFault
<1> QED BY <1>8, <1>9, <1>10, <1>11 DEF Step, Fault

(* What a worker knows of its document's stages stays true. *)
LEMMA WorkerKnowsStep ==
  ASSUME BaseInv, KnowledgeInv, [Next]_vars, NEW w \in Workers, pc'[w] # "idle"
  PROVE  WorkerKnows(w)'
<1>1. CASE Claim(w)
  <2>1. pc'[w] = Entry[WorkerStage[w]]
    BY <1>1 DEF Claim, BaseInv, WorkersOK
  <2>2. \A s \in JobStages : Entry[s] \in {"parse", "guard", "index", "vectors"}
    BY DEF Entry, JobStages
  <2> QED BY <2>1, <2>2, HandlersAssumption DEF WorkerKnows, Knows
<1>2. ASSUME pc[w] # "idle", job'[w] = job[w], Stays(w) \/ Step(w) \/ Fault(w)
      PROVE  WorkerKnows(w)'
  <2>1. PICK d \in Docs, by \in Strategies, l \in {pc'[w]} :
          /\ d = DocOf(w) /\ d = DocOf(w)' /\ by = jobs[job[w]].by /\ by = jobs'[job'[w]].by
    BY <1>2, SameRun
  <2>2. WorkerKnows(w)' <=> Knows(l, d, by)'
    BY <2>1 DEF WorkerKnows, Knows, Empty, CutChunks, ChunksOf, Exists
  <2>3. Knows(pc[w], d, by) /\ Tells(jobs[job[w]].stage, d) /\ status[d] # "absent"
    <3>1. job[w] \in JobIds /\ jobs[job[w]].doc = d
      BY <1>2, <2>1, RunFacts DEF DocOf
    <3>2. Tells(jobs[job[w]].stage, d)
      BY <3>1 DEF KnowledgeInv
    <3>3. WorkerKnows(w)
      BY <1>2 DEF KnowledgeInv
    <3> QED BY <2>1, <3>1, <3>2, <3>3 DEF WorkerKnows, BaseInv, JobsOK
  <2>4. Knows(l, d, by) => Knows(l, d, by)'
    BY <2>1, <2>3, KnowledgeStays
  <2>5. CASE Stays(w)
    BY <2>1, <2>2, <2>3, <2>4, <2>5 DEF Stays
  <2>6. CASE Step(w) \/ Fault(w)
    <3>1. Knows(l, d, by) \/ (InsertChunks(w) /\ Exists(d) /\ l = "chunked")
      BY <1>2, <2>1, <2>3, <2>6, Learns
    <3>2. CASE InsertChunks(w) /\ Exists(d) /\ l = "chunked"
      <4>1. chunks' = MergeChunks(CutChunks(d, by)) /\ CutChunks(d, by) # {} /\ ~Empty(d)
        BY <2>1, <2>3, <3>2 DEF InsertChunks, Knows
      <4>2. ChunksOf(d)' # {}
        BY <4>1, Inserted
      <4> QED BY <2>2, <2>3, <3>2, <4>1, <4>2, KnowledgeStays DEF Knows
    <3> QED BY <2>2, <2>4, <3>1, <3>2
  <2> QED BY <1>2, <2>5, <2>6
<1>3. CASE Stays(w)
  BY <1>2, <1>3 DEF Stays
<1> QED BY <1>1, <1>2, <1>3, WorkerMoves

(* Every step keeps the invariant. *)
LEMMA KnowledgeStep ==
  ASSUME BaseInv, SearchInv, KnowledgeInv, [Next]_vars
  PROVE  KnowledgeInv'
<1>1. ASSUME NEW c \in chunks' PROVE ~Empty(c.doc)'
  <2>1. CASE c \in chunks
    <3>1. PICK d \in Docs : d = c.doc
      BY <2>1 DEF BaseInv, StoreTypeOK
    <3>2. ~Empty(d) /\ status[d] # "absent"
      BY <2>1, <3>1 DEF KnowledgeInv, SearchInv, Exists
    <3>3. ~Empty(d)'
      BY <3>2, KnowledgeStays
    <3> QED BY <3>1, <3>3
  <2>2. CASE c \notin chunks
    <3>1. PICK w \in Workers : InsertChunks(w)
      BY <1>1, <2>2, SearchChanges DEF VectorsChange, RowsChange, PurgeRow, DeleteDoc, rows
    <3>2. pc[w] = "insert" /\ c \in CutChunks(DocOf(w), jobs[job[w]].by)
      BY <1>1, <2>2, <3>1 DEF InsertChunks, MergeChunks
    <3>3. PICK d \in Docs, by \in Strategies : d = DocOf(w) /\ by = jobs[job[w]].by /\ status[d] # "absent"
      BY <3>2, RunFacts DEF BaseInv, JobsOK, DocOf
    <3>4. c.doc = d
      BY <3>2, <3>3, CutTyped
    <3>5. ~Empty(d)
      BY <3>2, <3>3 DEF KnowledgeInv, WorkerKnows, Knows
    <3>6. ~Empty(d)'
      BY <3>3, <3>5, KnowledgeStays
    <3> QED BY <3>4, <3>6
  <2> QED BY <2>1, <2>2
<1>2. ASSUME NEW d \in Docs, status'[d] = "indexed" PROVE ~Empty(d)'
  <2>1. CASE status[d] = "indexed"
    BY <2>1, KnowledgeStays DEF KnowledgeInv
  <2>2. CASE status[d] # "indexed"
    <3>1. PICK w \in Workers : pc[w] = "fts" /\ DocOf(w) = d /\ Exists(d)
      BY <1>2, <2>2, StatusFrom DEF StatusWrittenByRequest, StatusWrittenByWorker, PurgeRow, DeleteDoc,
             BaseInv, StoreTypeOK, rows
    <3>2. job[w] \in JobIds /\ jobs[job[w]].stage = "index" /\ jobs[job[w]].doc = d
      BY <3>1, RunFacts, LabelFacts DEF DocOf, IndexLabels, IndexBody
    <3>3. Tells("index", d)
      BY <3>2 DEF KnowledgeInv
    <3> QED BY <3>1, <3>3, KnowledgeStays DEF Tells, Exists
  <2> QED BY <2>1, <2>2
<1>3. ASSUME NEW i \in JobIds' PROVE Tells(jobs[i].stage, jobs[i].doc)'
  <2>1. CASE i \in JobIds
    <3>1. PICK d \in Docs, st \in JobStages : d = jobs[i].doc /\ st = jobs[i].stage /\ status[d] # "absent"
      BY <2>1, JobsAreRows DEF BaseInv, StoreTypeOK, JobsOK, JobIds, JobRow
    <3>2. d = jobs'[i].doc /\ st = jobs'[i].stage
      BY <2>1, <3>1, BaseStep DEF Forward
    <3>3. Tells(st, d)'
      BY <2>1, <3>1, KnowledgeStays DEF KnowledgeInv
    <3> QED BY <3>2, <3>3 DEF Tells, Empty, Exists, ChunksOf
  <2>2. CASE i \notin JobIds
    <3>1. PICK d \in Docs : d = jobs'[i].doc /\ Exists(d)
      BY <1>3, <2>2, NewJobs
    <3>2. ASSUME NEW w \in Workers, EnqueueNext(w, "next", "embed", "ingest_ack"),
                 jobs'[i] = NewJob("embed", DocOf(w), jobs[job[w]].by)
          PROVE  Tells(jobs[i].stage, jobs[i].doc)'
      <4>1. jobs'[i].stage = "embed" /\ DocOf(w) = d /\ pc[w] = "next"
        BY <3>1, <3>2 DEF NewJob, EnqueueNext
      <4>2. ~Empty(d) /\ ChunksOf(d) # {}
        BY <3>1, <4>1 DEF KnowledgeInv, WorkerKnows, Knows
      <4>3. Tells("embed", d)'
        BY <3>1, <4>2, KnowledgeStays DEF Tells, Exists
      <4> QED BY <3>1, <4>1, <4>3 DEF Tells, Empty, Exists, ChunksOf
    <3>3. ASSUME NEW w \in Workers, EnqueueNext(w, "to_index", "index", "embed_ack"),
                 jobs'[i] = NewJob("index", DocOf(w), jobs[job[w]].by)
          PROVE  Tells(jobs[i].stage, jobs[i].doc)'
      <4>1. jobs'[i].stage = "index" /\ DocOf(w) = d /\ pc[w] = "to_index"
        BY <3>1, <3>3 DEF NewJob, EnqueueNext
      <4>2. job[w] \in JobIds /\ jobs[job[w]].stage = "embed" /\ jobs[job[w]].doc = d
        BY <4>1, RunFacts, LabelFacts DEF DocOf, EmbedLabels, EmbedBody
      <4>3. ~Empty(d)
        BY <4>2 DEF KnowledgeInv, Tells
      <4>4. ~Empty(d)'
        BY <3>1, <4>3, KnowledgeStays DEF Exists
      <4> QED BY <3>1, <4>1, <4>4 DEF Tells, Empty
    <3>4. jobs'[i].stage \in {"ingest", "purge"} => Tells(jobs[i].stage, jobs[i].doc)'
      BY DEF Tells
    <3>5. (\E c \in Clients : jobs'[i] = NewJob("ingest", req[c].doc, req[c].by)) => jobs'[i].stage = "ingest"
      BY DEF NewJob
    <3> QED BY <1>3, <2>2, <3>2, <3>3, <3>4, <3>5, NewJobs
  <2> QED BY <2>1, <2>2
<1>4. \A w \in Workers : pc'[w] # "idle" => WorkerKnows(w)'
  BY WorkerKnowsStep
<1> QED BY <1>1, <1>2, <1>3, <1>4 DEF KnowledgeInv

(* It holds at first. *)
LEMMA KnowledgeInit == Init => KnowledgeInv
<1> SUFFICES ASSUME Init PROVE KnowledgeInv
  OBVIOUS
<1>1. JobIds = {}
  BY EmptySeq DEF Init, StoreInit, JobIds
<1> QED BY <1>1 DEF Init, StoreInit, HandlersInit, KnowledgeInv
-----------------------------------------------------------------------------
(* Chunks that have no vector yet.                                           *)

\* The except branches that give a vector or a purge up.
Broken == {"embed_failed", "embed_error", "embed_nack", "purge_failed", "purge_nack"}

\* Where an embed worker is past the chunks it has read.
Embedded == EmbedLabels \ {"guard", "embed", "embedding", "load", "upsert"}

\* An ingest job that will enqueue an embedding, or an embed job that has not read
\* the chunks yet or holds this one.
WillEmbed(i, c) ==
  \/ /\ jobs[i].stage = "ingest"
     /\ CutChunks(c.doc, jobs[i].by) # {}
     /\ Running(i, {"ingest_ack"})
  \/ /\ jobs[i].stage = "embed"
     /\ Running(i, Embedded)
     /\ \A w \in Workers : job[w] = i /\ pc[w] = "upsert" => c \in loaded[w]

VectorsOwed ==
  \A c \in chunks :
    ~ToBePurged(c.doc) /\ <<c.doc, c.index>> \notin vectors => \E i \in JobsOf(c.doc) : WillEmbed(i, c)

PurgesGoOn ==
  \A i \in JobIds : jobs[i].stage = "purge" => Live(i) \/ status[jobs[i].doc] = "purged"

SourcesFound == \A w \in Workers : pc[w] \in IngestExcept /\ Exists(DocOf(w)) => ToBePurged(DocOf(w))

VectorInv == (\A w \in Workers : pc[w] \notin Broken) /\ PurgesGoOn /\ SourcesFound /\ VectorsOwed

(* Nothing is given up when nothing in embed and purge fails. *)
LEMMA NeverBroken ==
  ASSUME FaultyParts \cap {"embed", "purge"} = {}, BaseInv, NoHealing,
         \A v \in Workers : pc[v] \notin Broken, [Next]_vars, NEW w \in Workers
  PROVE  pc'[w] \notin Broken
<1> SUFFICES ASSUME pc'[w] \in Broken PROVE FALSE
  OBVIOUS
<1>1. pc'[w] # "idle" /\ WorkerStage[w] \in {"embed", "purge"}
  <2>1. WorkersOK'
    BY BaseStep DEF BaseInv
  <2>2. LabelStage(pc'[w]) \in {"embed", "purge"} /\ pc'[w] # "idle"
    BY LabelFacts DEF Broken, EmbedLabels, EmbedExcept, PurgeLabels
  <2> QED BY <2>1, <2>2 DEF WorkersOK
<1>2. ~Stays(w)
  BY DEF Stays
<1>3. CASE Claim(w)
  <2>1. pc'[w] = Entry[WorkerStage[w]]
    BY <1>3 DEF Claim, BaseInv, WorkersOK
  <2> QED BY <1>1, <2>1 DEF Entry, Broken
<1>4. CASE Step(w) \/ Fault(w)
  <2>1. \A l : pc' = [pc EXCEPT ![w] = l] => pc'[w] = l
    BY DEF BaseInv, WorkersOK
  <2>2. ~MayFault(WorkerStage[w]) /\ ~MayFault("embed")
    BY <1>1 DEF MayFault
  <2>3. pc[w] \notin Broken /\ pc[w] \notin {"heal", "create", "retry"} /\ collection = "right"
    BY DEF NoHealing
  <2>4. CASE EmbedStep(w) \/ EmbedFault(w)
    <3>1. ~UpsertPart(w) /\ ~DropCollection(w) /\ ~CreateCollection(w) /\ ~RetryUpsert(w) /\ ~Raise(w, EmbedBody)
      BY <2>2, <2>3 DEF UpsertPart, DropCollection, CreateCollection, RetryUpsert, Raise
    <3>2. ~Guard(w) /\ ~LoadChunks(w) /\ ~Upsert(w) /\ ~CommitEmbedded(w)
      BY <2>1, <2>3 DEF Guard, LoadChunks, Upsert, CommitEmbedded, Goto, Broken
    <3> QED BY <2>1, <2>2, <2>3, <2>4, <3>1, <3>2 DEF EmbedStep, EmbedFault, WriteStage, WriteStatus,
               EnqueueNext, AckJob, NackJob, Abandon, Goto, Return, Broken
  <2>5. CASE PurgeStep(w) \/ PurgeFault(w)
    BY <2>1, <2>2, <2>3, <2>5 DEF PurgeStep, PurgeFault, PurgeVectors, PurgeTable, PurgeObject, PurgeRow,
           MarkPurgeError, NackJob, Raise, Abandon, Goto, Return, Broken
  <2> QED BY <1>1, <1>4, <2>4, <2>5, StepStage
<1> QED BY <1>1, <1>2, <1>3, <1>4, WorkerMoves

(* A purge is not given up: it ends with its document. *)
LEMMA PurgesStep ==
  ASSUME BaseInv, \A w \in Workers : pc[w] # "purge_nack", PurgesGoOn, [Next]_vars
  PROVE  PurgesGoOn'
<1> SUFFICES ASSUME NEW i \in JobIds', jobs'[i].stage = "purge"
             PROVE  Live(i)' \/ status'[jobs'[i].doc] = "purged"
  BY DEF PurgesGoOn
<1>1. CASE i \notin JobIds
  BY <1>1, NewJobs, RowFacts DEF Live
<1>2. CASE i \in JobIds
  <2>1. jobs[i].stage = "purge" /\ jobs'[i].doc = jobs[i].doc /\ status[jobs[i].doc] # "absent"
        /\ jobs[i].doc \in Docs
    BY <1>2, BaseStep, JobsAreRows DEF Forward, BaseInv, JobsOK, StoreTypeOK, JobRow, JobIds
  <2>2. CASE ~Exists(jobs[i].doc)'
    <3>1. status'[jobs'[i].doc] = "purged"
      BY <2>1, <2>2, BaseStep DEF Forward, Exists
    <3> QED BY <3>1
  <2>3. CASE Exists(jobs[i].doc)'
    <3>1. Live(i)
      BY <1>2, <2>1, <2>3, BaseStep DEF PurgesGoOn, Forward, Exists
    <3>2. ASSUME NEW w \in Workers, job[w] = i, pc[w] \in Acks \cup Nacks PROVE FALSE
      <4>1. LabelStage(pc[w]) = "purge"
        BY <2>1, <3>2, LabelFacts, RunFacts DEF Acks, Nacks
      <4> QED BY <3>2, <4>1, LabelFacts DEF Acks, Nacks, IngestLabels, IngestBody, IngestExcept,
                 EmbedLabels, EmbedBody, EmbedExcept, IndexLabels, IndexBody, IndexExcept
    <3>3. Live(i)'
      BY <1>2, <2>3, <3>1, <3>2, LiveStays
    <3> QED BY <3>3
  <2> QED BY <2>2, <2>3
<1> QED BY <1>1, <1>2

(* An ingest worker finds the file, unless a purge has been faster. *)
LEMMA SourcesStep ==
  ASSUME "ingest" \notin FaultyParts, BaseInv, SourceKept, SourcesFound, [Next]_vars
  PROVE  SourcesFound'
<1> SUFFICES ASSUME NEW w \in Workers, pc'[w] \in IngestExcept, Exists(DocOf(w))'
             PROVE  ToBePurged(DocOf(w))'
  BY DEF SourcesFound
<1>1. pc'[w] # "idle"
  BY DEF IngestExcept
<1>2. ~Claim(w)
  <2>1. Claim(w) => pc'[w] = Entry[WorkerStage[w]]
    BY DEF Claim, BaseInv, WorkersOK
  <2>2. \A s \in JobStages : Entry[s] \notin IngestExcept
    BY DEF Entry, JobStages, IngestExcept
  <2> QED BY <2>1, <2>2, HandlersAssumption
<1>3. pc[w] # "idle" /\ job'[w] = job[w] /\ (Stays(w) \/ Step(w) \/ Fault(w))
  BY <1>1, <1>2, WorkerMoves DEF Stays
<1>4. PICK d \in Docs : d = DocOf(w) /\ d = DocOf(w)'
  BY <1>3, SameRun
<1>5. Exists(d)
  BY <1>3, <1>4, RunFacts, BaseStep DEF BaseInv, JobsOK, DocOf, Forward, Exists
<1>6. ToBePurged(d) => ToBePurged(DocOf(w))'
  <2>1. ToBePurged(d) => ToBePurged(d)'
    BY BaseStep, PurgeStays
  <2> QED BY <1>4, <2>1 DEF ToBePurged, JobsOf
<1>7. CASE pc[w] \in IngestExcept
  BY <1>4, <1>5, <1>6, <1>7 DEF SourcesFound
<1>8. CASE pc[w] \notin IngestExcept
  <2>1. \A l : pc' = [pc EXCEPT ![w] = l] => pc'[w] = l
    BY DEF BaseInv, WorkersOK
  <2>2. WorkerStage[w] = "ingest"
    BY <1>1, BaseStep, LabelFacts DEF BaseInv, WorkersOK, IngestLabels
  <2>3. IngestStep(w) \/ IngestFault(w)
    BY <1>3, <1>7, <1>8, <2>2, StepStage DEF Stays
  <2>4. FetchAndParse(w) /\ d \notin objects
    <3>1. ~UploadTable(w) /\ ~Cut(w) /\ ~InsertChunks(w)
      BY <1>4, <1>5, <2>1 DEF UploadTable, Cut, InsertChunks, Goto, IngestExcept
    <3>2. FetchAndParse(w) => d \notin objects
      BY <1>4, <2>1 DEF FetchAndParse, Goto, IngestExcept
    <3>3. ~Raise(w, IngestBody) /\ ~Abandon(w, IngestExcept)
      BY <2>2 DEF Raise, Abandon, MayFault
    <3> QED BY <1>8, <2>1, <2>3, <3>1, <3>2, <3>3 DEF IngestStep, IngestFault, WriteStage, WriteStatus,
               EnqueueNext, AckJob, NackJob, Goto, Return, IngestExcept
  <2> QED BY <1>5, <1>6, <2>4 DEF SourceKept
<1> QED BY <1>7, <1>8

(* A job that will embed a chunk does, or hands that on, or still will. *)
LEMMA IngestHandsOn ==
  ASSUME BaseInv, KnowledgeInv, SourcesFound, [Next]_vars,
         NEW d \in Docs, Exists(d)', ~ToBePurged(d), ~Empty(d),
         NEW i \in JobsOf(d), jobs[i].stage = "ingest", CutChunks(d, jobs[i].by) # {},
         Running(i, {"ingest_ack"}), ~Running(i, {"ingest_ack"})'
  PROVE  \E w \in Workers : /\ EnqueueNext(w, "next", "embed", "ingest_ack")
                            /\ DocOf(w) = d /\ job[w] = i /\ pc[w] # "idle"
<1>1. i \in JobIds /\ jobs[i].doc = d /\ jobs'[i].doc = d /\ Exists(d)
  BY BaseStep, JobFacts DEF Forward, Exists
<1>2. \A s \in JobStages : Entry[s] \notin {"ingest_ack"}
  BY DEF Entry, JobStages
<1>3. ASSUME NEW w \in Workers, job[w] = i, pc[w] \in (Acks \cup Nacks) \ {"ingest_ack"} PROVE FALSE
  <2>1. pc[w] # "idle" /\ LabelStage(pc[w]) = "ingest"
    BY <1>3, RunFacts DEF Acks, Nacks
  <2>2. pc[w] = "ingest_nack"
    BY <1>3, <2>1, LabelFacts DEF Acks, Nacks, EmbedLabels, EmbedBody, EmbedExcept, IndexLabels,
           IndexBody, IndexExcept, PurgeLabels
  <2> QED BY <1>1, <1>3, <2>2 DEF SourcesFound, IngestExcept, DocOf
<1>4. PICK w \in Workers : /\ Step(w) \/ Fault(w)
                           /\ job[w] = i /\ pc[w] # "idle" /\ pc[w] # "ingest_ack" /\ pc'[w] = "ingest_ack"
  BY <1>1, <1>2, <1>3, RunsOn
<1>5. DocOf(w) = d /\ WorkerKnows(w) /\ jobs[job[w]].by = jobs[i].by
  BY <1>1, <1>4 DEF DocOf, KnowledgeInv
<1>6. pc[w] \notin {"parse_failed", "chunk_failed"}
  BY <1>5 DEF WorkerKnows, Knows
<1>7. WorkerStage[w] = "ingest"
  BY <1>4, RunFacts DEF BaseInv, WorkersOK
<1>8. IngestStep(w) \/ IngestFault(w)
  BY <1>4, <1>7, StepStage
<1>9. \A l : pc' = [pc EXCEPT ![w] = l] => pc'[w] = l
  BY DEF BaseInv, WorkersOK
<1>10. ~Except(w)
  BY <1>4, <1>7, <1>9 DEF Except, Goto, Handler
<1>11. ~FetchAndParse(w) /\ ~UploadTable(w) /\ ~Cut(w) /\ ~InsertChunks(w)
  BY <1>4, <1>9, <1>10 DEF FetchAndParse, UploadTable, Cut, InsertChunks, Goto
<1>12. EnqueueNext(w, "next", "embed", "ingest_ack")
  BY <1>4, <1>6, <1>8, <1>9, <1>10, <1>11 DEF IngestStep, IngestFault, WriteStage, WriteStatus, EnqueueNext,
         AckJob, NackJob, Raise, Abandon, Goto, Return
<1> QED BY <1>4, <1>5, <1>12

(* An embed job that has come past its upsert has made the vector. *)
LEMMA EmbedEmbeds ==
  ASSUME FaultyParts \cap {"embed"} = {}, BaseInv, NoHealing, [Next]_vars,
         NEW d \in Docs, Exists(d)', NEW c \in chunks, c.doc = d,
         NEW i \in JobsOf(d), jobs[i].stage = "embed", WillEmbed(i, c), ~Running(i, Embedded)'
  PROVE  <<d, c.index>> \in vectors'
<1>1. i \in JobIds /\ jobs[i].doc = d /\ jobs'[i].doc = d /\ Exists(d)
  BY BaseStep, JobFacts DEF Forward, Exists
<1>2. \A s \in JobStages : Entry[s] \notin Embedded
  BY DEF Entry, JobStages, Embedded, EmbedLabels, EmbedBody, EmbedExcept
<1>3. /\ Running(i, Embedded)
      /\ \A w \in Workers : job[w] = i /\ pc[w] = "upsert" => c \in loaded[w]
  BY DEF WillEmbed
<1>4. \A w \in Workers : job[w] = i /\ pc[w] # "idle" => pc[w] \in EmbedLabels
  <2> SUFFICES ASSUME NEW w \in Workers, job[w] = i, pc[w] # "idle" PROVE pc[w] \in EmbedLabels
    OBVIOUS
  <2>1. LabelStage(pc[w]) = "embed" /\ pc[w] \in Labels
    BY RunFacts DEF BaseInv, WorkersOK
  <2> QED BY <2>1, LabelFacts DEF Labels
<1>5. ASSUME NEW w \in Workers, job[w] = i, pc[w] \in (Acks \cup Nacks) \ Embedded PROVE FALSE
  BY <1>4, <1>5 DEF Acks, Nacks, Embedded, EmbedLabels, EmbedBody, EmbedExcept, IngestBody
<1>6. PICK w \in Workers : /\ Step(w) \/ Fault(w)
                           /\ job[w] = i /\ pc[w] # "idle" /\ pc[w] \notin Embedded /\ pc'[w] \in Embedded
  BY <1>1, <1>2, <1>3, <1>5, RunsOn
<1>7. DocOf(w) = d /\ pc[w] \in {"guard", "embed", "embedding", "load", "upsert"}
  BY <1>1, <1>4, <1>6 DEF DocOf, Embedded
<1>8. WorkerStage[w] = "embed"
  BY <1>6, RunFacts DEF BaseInv, WorkersOK
<1>9. EmbedStep(w) \/ EmbedFault(w)
  BY <1>6, <1>8, StepStage
<1>10. \A l : pc' = [pc EXCEPT ![w] = l] => pc'[w] = l
  BY DEF BaseInv, WorkersOK
<1>11. ~Guard(w) /\ ~LoadChunks(w)
  BY <1>1, <1>6, <1>7, <1>10 DEF Guard, LoadChunks, Goto, Embedded, ChunksOf
<1>12. ~UpsertPart(w) /\ ~Raise(w, EmbedBody) /\ ~Abandon(w, EmbedExcept)
  BY <1>8 DEF UpsertPart, Raise, Abandon, MayFault
<1>13. Upsert(w)
  <2>1. ~DropCollection(w) /\ ~CreateCollection(w) /\ ~RetryUpsert(w) /\ ~CommitEmbedded(w)
    BY <1>7 DEF DropCollection, CreateCollection, RetryUpsert, CommitEmbedded
  <2> QED BY <1>6, <1>7, <1>9, <1>10, <1>11, <1>12, <2>1 DEF EmbedStep, EmbedFault, WriteStage, WriteStatus,
             EnqueueNext, AckJob, NackJob, Goto, Embedded
<1>14. vectors' = vectors \cup PointIds(loaded[w]) /\ c \in loaded[w]
  BY <1>3, <1>6, <1>13 DEF Upsert, NoHealing
<1> QED BY <1>14 DEF PointIds

(* A chunk without a vector has a job that will make it, after every step. *)
LEMMA OwedVectors ==
  ASSUME FaultyParts \cap {"ingest", "embed", "purge"} = {}, MaxForeign = 0,
         BaseInv, TypeOK, SearchInv, KnowledgeInv, NoHealing, VectorInv, [Next]_vars,
         NEW c \in chunks', NEW d \in Docs, c.doc = d, ~ToBePurged(d)', <<d, c.index>> \notin vectors'
  PROVE  \E i \in JobsOf(d)' : WillEmbed(i, c)'
<1> DEFINE Goal == \E i \in JobsOf(d)' : WillEmbed(i, c)'
<1> SUFFICES Goal
  OBVIOUS
<1> HIDE DEF Goal
<1>1. ~ToBePurged(d)
  BY BaseStep, PurgeStays
<1>2. Exists(d)' /\ Exists(d)
  <2>1. Exists(c.doc)'
    BY SearchStep DEF SearchInv
  <2>2. Exists(d)'
    BY <2>1 DEF Exists
  <2>3. CASE c \in chunks
    BY <2>2, <2>3 DEF SearchInv
  <2>4. CASE c \notin chunks
    <3>1. PICK w \in Workers : InsertChunks(w) /\ DocOf(w) = d
      <4>1. PICK w \in Workers : InsertChunks(w)
        BY <2>4, SearchChanges DEF VectorsChange, RowsChange, PurgeRow, DeleteDoc, rows
      <4>2. c \in CutChunks(DocOf(w), jobs[job[w]].by)
        BY <2>4, <4>1 DEF InsertChunks, MergeChunks
      <4>3. DocOf(w) \in Docs /\ jobs[job[w]].by \in Strategies
        BY <4>1, RunFacts DEF InsertChunks
      <4> QED BY <4>1, <4>2, <4>3, CutTyped
    <3> QED BY <2>2, <2>4, <3>1 DEF InsertChunks
  <2> QED BY <2>2, <2>3, <2>4
<1>3. CASE c \notin chunks
  <2>1. PICK w \in Workers : InsertChunks(w)
    BY <1>3, SearchChanges DEF VectorsChange, RowsChange, PurgeRow, DeleteDoc, rows
  <2>2. pc[w] = "insert" /\ c \in CutChunks(DocOf(w), jobs[job[w]].by)
    BY <1>3, <2>1 DEF InsertChunks, MergeChunks
  <2>3. PICK i \in JobIds, by \in Strategies : i = job[w] /\ by = jobs[i].by /\ i # 0
    BY <2>2, RunFacts
  <2>4. DocOf(w) = d /\ i \in JobsOf(d) /\ jobs[i].stage = "ingest" /\ jobs[i].doc = d
    BY <2>2, <2>3, RunFacts, CutTyped, LabelFacts DEF JobsOf, DocOf, IngestLabels, IngestBody
  <2>5. pc'[w] = "chunked" /\ job' = job
    BY <1>2, <2>1, <2>4 DEF InsertChunks, Goto, BaseInv, WorkersOK
  <2>6. i \in JobsOf(d)' /\ jobs'[i].stage = "ingest" /\ jobs'[i].by = by
    BY <2>3, <2>4, BaseStep DEF JobsOf, Forward
  <2>7. CutChunks(d, by)' # {}
    <3>1. CutChunks(d, by) # {}
      BY <2>2, <2>3, <2>4
    <3> QED BY <1>2, <3>1, KnowledgeStays DEF Exists
  <2>8. Live(i)'
    <3>1. jobs' = jobs
      BY <2>1 DEF InsertChunks
    <3>2. \/ RowOf(w).status = "processing"
          \/ RowOf(w).status = "removed" /\ status[DocOf(w)] = "purged"
      BY <2>2, RunFacts
    <3> QED BY <1>2, <2>3, <2>4, <3>1, <3>2 DEF RowOf, DocOf, JobsOf, Live, Exists
  <2>9. \A v \in Workers : job'[v] = i => v = w
    BY <2>3, <2>5 DEF BaseInv, HeldOK
  <2>10. Running(i, {"ingest_ack"})'
    BY <2>5, <2>8, <2>9 DEF Running
  <2> QED BY <2>6, <2>7, <2>10 DEF WillEmbed, CutChunks, Goal
<1>4. CASE c \in chunks
  <2>1. <<d, c.index>> \notin vectors
    BY <1>1, VectorsStay
  <2>2. PICK i \in JobsOf(d) : WillEmbed(i, c)
    BY <1>1, <1>4, <2>1 DEF VectorInv, VectorsOwed
  <2>3. PICK by \in Strategies, st \in JobStages : by = jobs[i].by /\ st = jobs[i].stage
    BY JobFacts
  <2>4. i \in JobIds /\ i \in JobsOf(d)' /\ jobs'[i].by = by /\ jobs'[i].stage = st /\ ~Empty(d)
    BY <1>4, <2>3, JobFacts, BaseStep DEF JobsOf, Forward, KnowledgeInv
  <2>5. CASE st = "ingest"
    <3>1. CutChunks(d, by) # {} /\ Running(i, {"ingest_ack"}) /\ CutChunks(d, by)' # {}
      BY <1>2, <2>2, <2>3, <2>5, KnowledgeStays DEF WillEmbed, Exists
    <3>2. CASE Running(i, {"ingest_ack"})'
      BY <2>4, <2>5, <3>1, <3>2 DEF WillEmbed, CutChunks, Goal
    <3>3. CASE ~Running(i, {"ingest_ack"})'
      <4>1. PICK w \in Workers : EnqueueNext(w, "next", "embed", "ingest_ack") /\ DocOf(w) = d /\ pc[w] # "idle"
        BY <1>1, <1>2, <2>3, <2>4, <2>5, <3>1, <3>3, IngestHandsOn DEF VectorInv
      <4>2. jobs[job[w]].by \in Strategies
        BY <4>1, RunFacts
      <4>3. PICK k \in JobIds' \ JobIds : jobs'[k] = NewJob("embed", d, jobs[job[w]].by)
        BY <1>2, <4>1, <4>2, JobEnqueued DEF EnqueueNext, BaseInv, JobStages
      <4>4. jobs'[k].stage = "embed" /\ k \in JobsOf(d)'
        BY <4>3 DEF NewJob, JobsOf
      <4>5. PICK n : n = k
        OBVIOUS
      <4>6. Running(n, Embedded)' /\ Running(n, EmbedLabels)'
        BY <4>3, <4>5, NewRuns
      <4>7. \A v \in Workers : job'[v] = n => pc'[v] # "upsert"
        BY <4>6 DEF Running, EmbedLabels, EmbedBody
      <4>8. WillEmbed(n, c)'
        BY <4>4, <4>5, <4>6, <4>7 DEF WillEmbed
      <4> QED BY <4>4, <4>5, <4>8 DEF Goal
    <3> QED BY <3>2, <3>3
  <2>6. CASE st = "embed"
    <3>1. Running(i, Embedded)'
      BY <1>2, <1>4, <2>2, <2>3, <2>6, EmbedEmbeds
    <3>2. ASSUME NEW w \in Workers, job'[w] = i, pc'[w] = "upsert" PROVE c \in loaded'[w]
      <4>1. CASE Stays(w)
        BY <2>2, <2>3, <2>6, <3>2, <4>1 DEF Stays, WillEmbed
      <4>2. ~Claim(w)
        <5>1. Claim(w) => pc'[w] = Entry[WorkerStage[w]]
          BY DEF Claim, BaseInv, WorkersOK
        <5>2. \A s \in JobStages : Entry[s] # "upsert"
          BY DEF Entry, JobStages
        <5> QED BY <3>2, <5>1, <5>2, HandlersAssumption
      <4>3. CASE (Step(w) \/ Fault(w)) /\ job'[w] = job[w]
        <5>1. LoadChunks(w)
          BY <3>2, <4>3, Arrivals
        <5>2. DocOf(w) = d
          BY <2>4, <3>2, <4>3 DEF DocOf, JobsOf
        <5>3. loaded'[w] = ChunksOf(d)
          BY <5>1, <5>2 DEF LoadChunks, BaseInv, WorkersOK
        <5> QED BY <1>4, <5>3 DEF ChunksOf
      <4> QED BY <3>2, <4>1, <4>2, <4>3, WorkerMoves
    <3> QED BY <2>4, <2>6, <3>1, <3>2 DEF WillEmbed, Goal
  <2> QED BY <2>2, <2>3, <2>5, <2>6 DEF WillEmbed
<1> QED BY <1>3, <1>4

(* Every step keeps the invariant. *)
LEMMA VectorStep ==
  ASSUME FaultyParts \cap {"ingest", "embed", "purge"} = {}, MaxForeign = 0,
         BaseInv, TypeOK, SourceKept, SearchInv, KnowledgeInv, NoHealing, VectorInv, [Next]_vars
  PROVE  VectorInv'
<1>1. \A w \in Workers : pc'[w] \notin Broken
  BY NeverBroken DEF VectorInv
<1>2. PurgesGoOn' /\ SourcesFound'
  BY PurgesStep, SourcesStep DEF VectorInv, Broken
<1>3. VectorsOwed'
  <2> SUFFICES ASSUME NEW c \in chunks', ~ToBePurged(c.doc)', <<c.doc, c.index>> \notin vectors'
               PROVE  \E i \in JobsOf(c.doc)' : WillEmbed(i, c)'
    BY DEF VectorsOwed
  <2>1. PICK d \in Docs : d = c.doc
    BY BaseStep DEF BaseInv, StoreTypeOK
  <2>2. JobsOf(d)' = JobsOf(c.doc)' /\ (~ToBePurged(c.doc)' <=> ~ToBePurged(d)')
    BY <2>1 DEF ToBePurged, JobsOf
  <2> QED BY <2>1, <2>2, OwedVectors
<1> QED BY <1>1, <1>2, <1>3 DEF VectorInv

(* It holds at first. *)
LEMMA VectorInit == Init => VectorInv
<1> SUFFICES ASSUME Init PROVE VectorInv
  OBVIOUS
<1>1. JobIds = {}
  BY EmptySeq DEF Init, StoreInit, JobIds
<1> QED BY <1>1 DEF Init, StoreInit, HandlersInit, VectorInv, PurgesGoOn, SourcesFound, VectorsOwed,
           Broken, IngestExcept

\* However its requests cut a document, and however their pipelines overtake each
\* other: every chunk row that has no vector is owed one by a job that still runs,
\* so that none is left without one when the last job of the document is done.
\* Workers may fail in the stages that index and serve, the instance may restart.
THEOREM SettledSearchable ==
  FaultyParts \cap {"ingest", "embed", "purge"} = {} /\ MaxForeign = 0
    => (Spec => []SettledIsSearchable)
<1> SUFFICES ASSUME FaultyParts \cap {"ingest", "embed", "purge"} = {}, MaxForeign = 0
             PROVE  Spec => []SettledIsSearchable
  OBVIOUS
<1>1. Init => SearchInv /\ KnowledgeInv /\ NoHealing /\ VectorInv
  BY SearchInit, KnowledgeInit, VectorInit DEF Init, StoreInit, HandlersInit, NoHealing
<1>2. BaseInv /\ TypeOK /\ SourceKept /\ SearchInv /\ KnowledgeInv /\ NoHealing /\ VectorInv /\ [Next]_vars
        => SearchInv' /\ KnowledgeInv' /\ NoHealing' /\ VectorInv'
  BY SearchStep, KnowledgeStep, NoHealingStep, VectorStep
<1>3. BaseInv /\ SearchInv /\ VectorInv => SettledIsSearchable
  <2> SUFFICES ASSUME BaseInv, VectorInv, NEW d \in Docs, status[d] = "indexed", Settled(d), NEW c \in ChunksOf(d)
               PROVE  <<c.doc, c.index>> \in vectors
    BY DEF SettledIsSearchable, PointIds
  <2>1. c \in chunks /\ c.doc = d
    BY DEF ChunksOf
  <2>2. \A i \in JobsOf(d) : ~Live(i)
    BY DEF Settled, LiveJobsOf
  <2>3. ~ToBePurged(d)
    <3> SUFFICES ASSUME NEW i \in JobsOf(d), jobs[i].stage = "purge" PROVE FALSE
      BY DEF ToBePurged
    <3>1. status[d] = "purged"
      BY <2>2 DEF VectorInv, PurgesGoOn, JobsOf
    <3> QED BY <3>1
  <2> QED BY <2>1, <2>2, <2>3 DEF VectorInv, VectorsOwed, WillEmbed, Running
<1> QED BY <1>1, <1>2, <1>3, PipelineBase, PipelineTypes, SourceIsKept, PTL DEF Spec
-----------------------------------------------------------------------------
(* Stage rows that are not done yet.                                         *)

WorkedStages == {"parse", "chunk", "embed", "index"}

\* The jobs that write a stage, or lead to one that does.
StageOf(st) == CASE st \in {"parse", "chunk"} -> {"ingest"}
                 [] st = "embed"              -> {"ingest", "embed"}
                 [] st = "index"              -> {"ingest", "embed", "index"}

\* Where a handler has written that the stage is done, or has left it to the job it
\* has enqueued.
Past(st) == CASE st = "parse" -> {"chunk", "cut", "no_chunks", "chunk_failed", "insert", "chunked",
                                  "next", "ingest_ack"}
              [] st = "chunk" -> {"next", "ingest_ack"}
              [] st = "embed" -> {"ingest_ack", "to_index", "embed_ack"}
              [] st = "index" -> {"ingest_ack", "embed_ack", "index_ack"}

\* A request that is going to enqueue the document's ingestion.
Preparing(c, d) == req[c].doc = d /\ req[c].at \in {"uploaded", "reset", "enqueue"}

WillDo(d, st) ==
  \/ \E i \in JobsOf(d) : jobs[i].stage \in StageOf(st) /\ Running(i, Past(st))
  \/ \E c \in Clients : Preparing(c, d)

UploadDone(d) ==
  stage[d]["upload"] = "done" \/ \E c \in Clients : req[c].doc = d /\ req[c].at = "uploaded"

StagesInv ==
  \A d \in Docs : Exists(d) =>
    /\ UploadDone(d)
    /\ NoneFailed(d) /\ ~Empty(d) =>
         \A st \in WorkedStages : stage[d][st] = "done" \/ WillDo(d, st)

(* A document none of whose jobs has failed had none that failed before. *)
LEMMA NoneFailedBefore ==
  ASSUME BaseInv, [Next]_vars, NEW d \in Docs, Exists(d), Exists(d)', NoneFailed(d)'
  PROVE  NoneFailed(d)
<1> SUFFICES ASSUME NEW i \in JobsOf(d)
             PROVE  jobs[i].row.status \notin {"failed", "removed"} /\ CutChunks(d, jobs[i].by) # {}
  BY DEF NoneFailed
<1>1. PICK by \in Strategies : by = jobs[i].by
  BY JobFacts
<1>2. i \in JobIds /\ jobs[i].doc = d /\ jobs'[i].doc = d /\ i \in JobsOf(d)' /\ jobs'[i].by = by
  BY <1>1, BaseStep, JobFacts DEF Forward, JobsOf
<1>3. jobs'[i].row.status \notin {"failed", "removed"} /\ CutChunks(d, by)' # {}
  BY <1>2 DEF NoneFailed, CutChunks
<1>4. Exists(jobs[i].doc)'
  BY <1>2 DEF Exists
<1>5. CutChunks(d, by) # {}
  BY <1>3, KnowledgeStays DEF Exists
<1> QED BY <1>1, <1>2, <1>3, <1>4, <1>5, DeadStays DEF Live

(* Which steps write a stage that is done back. *)
StageWrittenByWorker(w, d, st) ==
  /\ pc[w] # "idle" /\ DocOf(w) = d /\ job' = job /\ jobs' = jobs
  /\ jobs[job[w]].stage \in StageOf(st)
  /\ pc'[w] \notin Past(st) \cup {"idle"}

(* By which step a stage row comes to be another one. *)
LEMMA StageFrom ==
  ASSUME BaseInv, [Next]_vars, NEW d \in Docs, Exists(d)', NEW st \in StageNames,
         stage'[d][st] # stage[d][st], stage'[d][st] # "done"
  PROVE  /\ st \in WorkedStages
         /\ \/ \E c \in Clients : ResetStage(c) /\ req[c].doc = d
            \/ \E w \in Workers : StageWrittenByWorker(w, d, st)
<1>0. ASSUME NEW e, NEW t, NEW s, SetStage(e, t, s)
      PROVE  e = d /\ st = t /\ s # "done"
  <2>1. stage' = [stage EXCEPT ![e][t] = s]
    BY <1>0 DEF SetStage
  <2> QED BY <2>1 DEF BaseInv, StoreTypeOK
<1>1. stage' # stage
  OBVIOUS
<1>2. CASE RequestNext
  <2>1. PICK c \in Clients : UploadStep(c) \/ ReprocessStep(c) \/ DeleteStep(c) \/ RequestFault(c)
    BY <1>2 DEF RequestNext
  <2>2. StageUploaded(c) \/ ResetStage(c)
    <3>1. /\ ~StartUpload(c) /\ ~Find(c) /\ ~FindName(c) /\ ~StartReprocess(c) /\ ~StartDelete(c)
          /\ ~RequestFault(c)
      BY <1>1, Zenon DEF StartUpload, Find, FindName, StartReprocess, StartDelete, RequestFault, store, rows
    <3>2. /\ ~Requeue(c) /\ ~Replace(c) /\ ~PurgeOld(c) /\ ~PutObject(c) /\ ~InsertDocument(c)
          /\ ~EnqueueIngest(c) /\ ~Reprocess(c) /\ ~MarkDeleting(c) /\ ~EnqueuePurge(c)
      BY <1>1 DEF Requeue, Replace, PurgeOld, PutObject, InsertDocument, EnqueueIngest, Reprocess,
             MarkDeleting, EnqueuePurge, rows
    <3> QED BY <2>1, <3>1, <3>2 DEF UploadStep, ReprocessStep, DeleteStep
  <2>3. ~StageUploaded(c)
    BY <1>0 DEF StageUploaded
  <2>4. CASE ResetStage(c)
    <3>1. req[c].reset \in 0 .. 3
      BY <2>4 DEF BaseInv, RequestsOK, ResetStage
    <3>2. ResetOrder[req[c].reset + 1] \in WorkedStages
      BY <3>1 DEF ResetOrder, WorkedStages
    <3>3. req[c].doc = d /\ st = ResetOrder[req[c].reset + 1]
      BY <1>0, <2>4 DEF ResetStage
    <3> QED BY <2>4, <3>2, <3>3
  <2> QED BY <2>2, <2>3, <2>4
<1>3. CASE WorkerNext
  <2>1. PICK w \in Workers : Claim(w) \/ Step(w) \/ Fault(w)
    BY <1>3 DEF WorkerNext
  <2>2. \A l : pc' = [pc EXCEPT ![w] = l] => pc'[w] = l
    BY DEF BaseInv, WorkersOK
  <2>3. ASSUME NEW here \in Labels, NEW t \in WorkedStages, NEW s, NEW next, s = "done" \/ next \notin Past(t) \cup {"idle"},
               LabelStage(here) \in StageOf(t), WriteStage(w, here, t, s, next)
        PROVE  st \in WorkedStages /\ StageWrittenByWorker(w, d, st)
    <3>1. DocOf(w) = d /\ st = t /\ s # "done"
      BY <1>0, <2>3 DEF WriteStage
    <3>2. pc[w] = here /\ pc'[w] = next /\ job' = job /\ jobs' = jobs
      BY <2>2, <2>3 DEF WriteStage, Goto
    <3>3. pc[w] # "idle" /\ jobs[job[w]].stage = LabelStage(here)
      BY <3>2, RunFacts, LabelFacts
    <3> QED BY <2>3, <3>1, <3>2, <3>3 DEF StageWrittenByWorker
  <2>4. ~PurgeRow(w)
    <3> SUFFICES ASSUME PurgeRow(w) PROVE FALSE
      OBVIOUS
    <3>1. stage' = [stage EXCEPT ![DocOf(w)] = [s \in StageNames |-> "none"]]
          /\ status' = [status EXCEPT ![DocOf(w)] = "purged"]
      BY <1>1 DEF PurgeRow, DeleteDoc, rows
    <3>2. DocOf(w) = d
      BY <3>1 DEF BaseInv, StoreTypeOK
    <3> QED BY <3>1, <3>2 DEF Exists, BaseInv, StoreTypeOK
  <2>5. ASSUME NEW s, NEW here, NEW next, NEW body, WriteStatus(w, here, s, next) \/ EnqueueNext(w, here, s, next)
               \/ AckJob(w, here) \/ NackJob(w, here) \/ Raise(w, body) \/ Abandon(w, body)
        PROVE  FALSE
    BY <1>1, <2>5 DEF WriteStatus, EnqueueNext, AckJob, NackJob, Raise, Abandon, store, rows
  <2>6. CASE IngestStep(w) \/ IngestFault(w)
    <3>1. ~FetchAndParse(w) /\ ~UploadTable(w) /\ ~Cut(w) /\ ~InsertChunks(w)
      BY <1>1 DEF FetchAndParse, UploadTable, Cut, InsertChunks, store, rows
    <3>2. "ingest" \in StageOf("parse") /\ "ingest" \in StageOf("chunk") /\ {"parse", "chunk"} \subseteq WorkedStages
      BY DEF StageOf, WorkedStages
    <3>3. /\ "parsing" \notin Past("parse") \cup {"idle"} /\ "parse_failed" \notin Past("parse") \cup {"idle"}
          /\ "ingest_error" \notin Past("parse") \cup {"idle"}
          /\ "cut" \notin Past("chunk") \cup {"idle"} /\ "chunk_failed" \notin Past("chunk") \cup {"idle"}
      BY DEF Past
    <3>4. \A l \in {"parse", "no_text", "parsed", "chunk", "no_chunks", "chunked", "ingest_failed"} :
            l \in Labels /\ LabelStage(l) = "ingest"
      BY LabelFacts DEF IngestLabels, IngestBody, IngestExcept
    <3> QED BY <2>3, <2>5, <2>6, <3>1, <3>2, <3>3, <3>4 DEF IngestStep, IngestFault
  <2>7. CASE EmbedStep(w) \/ EmbedFault(w)
    <3>1. /\ ~Guard(w) /\ ~LoadChunks(w) /\ ~Upsert(w) /\ ~DropCollection(w) /\ ~CreateCollection(w)
          /\ ~RetryUpsert(w) /\ ~CommitEmbedded(w) /\ ~UpsertPart(w)
      BY <1>1 DEF Guard, LoadChunks, Upsert, DropCollection, CreateCollection, RetryUpsert,
             CommitEmbedded, UpsertPart, store, rows
    <3>2. "embed" \in StageOf("embed") /\ "embed" \in WorkedStages
      BY DEF StageOf, WorkedStages
    <3>3. \A l \in {"embedding", "nothing_failed", "embed_error"} : l \notin Past("embed") \cup {"idle"}
      BY DEF Past
    <3>4. \A l \in {"embed", "nothing", "embedded", "embed_failed"} : l \in Labels /\ LabelStage(l) = "embed"
      BY LabelFacts DEF EmbedLabels, EmbedBody, EmbedExcept
    <3> QED BY <2>3, <2>5, <2>7, <3>1, <3>2, <3>3, <3>4 DEF EmbedStep, EmbedFault
  <2>8. CASE IndexStep(w) \/ IndexFault(w)
    <3>2. "index" \in StageOf("index") /\ "index" \in WorkedStages
      BY DEF StageOf, WorkedStages
    <3>3. \A l \in {"fts", "index_nack"} : l \notin Past("index") \cup {"idle"}
      BY DEF Past
    <3>4. \A l \in {"index", "indexed", "index_failed"} : l \in Labels /\ LabelStage(l) = "index"
      BY LabelFacts DEF IndexLabels, IndexBody, IndexExcept
    <3> QED BY <2>3, <2>5, <2>8, <3>2, <3>3, <3>4 DEF IndexStep, IndexFault
  <2>9. CASE PurgeStep(w) \/ PurgeFault(w)
    <3>1. ~PurgeVectors(w) /\ ~PurgeTable(w) /\ ~PurgeObject(w) /\ ~MarkPurgeError(w)
      BY <1>1 DEF PurgeVectors, PurgeTable, PurgeObject, MarkPurgeError, rows
    <3> QED BY <2>4, <2>5, <2>9, <3>1 DEF PurgeStep, PurgeFault
  <2>10. ~Claim(w)
    BY <1>1 DEF Claim
  <2> QED BY <2>1, <2>6, <2>7, <2>8, <2>9, <2>10 DEF Step, Fault
<1> QED BY <1>1, <1>2, <1>3 DEF Next, Restart, ForeignStart, vars, store, rows

(* How a handler comes past a stage: it has written that it is done, or has
   enqueued the job that will. *)
LEMMA StagePassed ==
  ASSUME BaseInv, NEW w \in Workers, Step(w) \/ Fault(w), NEW st \in WorkedStages,
         pc[w] # "idle", NEW d, d = DocOf(w), Exists(d), WorkerKnows(w), loaded[w] \subseteq chunks,
         ~Empty(d), CutChunks(d, jobs[job[w]].by) # {},
         pc[w] \notin Past(st), pc'[w] \in Past(st), jobs[job[w]].stage \in StageOf(st)
  PROVE  \/ SetStage(d, st, "done")
         \/ EnqueueNext(w, "next", "embed", "ingest_ack") /\ "embed" \in StageOf(st)
         \/ EnqueueNext(w, "to_index", "index", "embed_ack") /\ "index" \in StageOf(st)
<1>0. \A l : pc' = [pc EXCEPT ![w] = l] => pc'[w] = l
  BY DEF BaseInv, WorkersOK
<1>1. pc[w] \notin {"no_text", "parse_failed", "no_chunks", "chunk_failed", "nothing", "nothing_failed"}
  BY DEF WorkerKnows, Knows
<1>2. ASSUME Except(w) PROVE FALSE
  <2>1. pc'[w] = Handler[WorkerStage[w]] /\ WorkerStage[w] \in JobStages
    BY <1>0, <1>2, HandlersAssumption DEF Except, Goto
  <2>2. \A s \in JobStages : \A t \in WorkedStages : Handler[s] \notin Past(t)
    BY DEF Handler, JobStages, Past, WorkedStages
  <2> QED BY <2>1, <2>2
<1>3. ASSUME Return(w) PROVE FALSE
  <2>1. pc'[w] = "idle"
    BY <1>0, <1>3 DEF Return
  <2> QED BY <2>1 DEF Past, WorkedStages
<1>4. ASSUME NEW body, Raise(w, body) \/ Abandon(w, body) \/ AckJob(w, body) \/ NackJob(w, body)
      PROVE  FALSE
  BY <1>2, <1>3, <1>4 DEF Raise, Abandon, AckJob, NackJob
<1>5. /\ Past("parse") = {"chunk", "cut", "no_chunks", "chunk_failed", "insert", "chunked", "next", "ingest_ack"}
      /\ Past("chunk") = {"next", "ingest_ack"}
      /\ Past("embed") = {"ingest_ack", "to_index", "embed_ack"}
      /\ Past("index") = {"ingest_ack", "embed_ack", "index_ack"}
  BY DEF Past
<1>6. ASSUME NEW here, NEW t, NEW s, NEW next, WriteStage(w, here, t, s, next)
      PROVE  pc[w] = here /\ pc'[w] = next /\ SetStage(d, t, s)
  BY <1>0, <1>6 DEF WriteStage, Goto
<1>7. ASSUME NEW here, NEW s, NEW next, WriteStatus(w, here, s, next)
      PROVE  pc[w] = here /\ pc'[w] = next
  BY <1>0, <1>7 DEF WriteStatus, Goto
<1>8. ASSUME NEW here, NEW t, NEW next, EnqueueNext(w, here, t, next)
      PROVE  pc[w] = here /\ pc'[w] = next
  BY <1>0, <1>8 DEF EnqueueNext, Goto
<1>9. WorkerStage[w] \in StageOf(st)
  BY RunFacts DEF BaseInv, WorkersOK
<1>10. /\ StageOf("parse") = {"ingest"} /\ StageOf("chunk") = {"ingest"}
       /\ StageOf("embed") = {"ingest", "embed"} /\ StageOf("index") = {"ingest", "embed", "index"}
  BY DEF StageOf
<1> USE DEF WorkedStages
<1>11. CASE IngestStep(w) \/ IngestFault(w)
  <2>1. ~FetchAndParse(w) /\ ~UploadTable(w) /\ ~Cut(w)
    BY <1>0, <1>1, <1>2, <1>5 DEF FetchAndParse, UploadTable, Cut, Goto
  <2>2. ~InsertChunks(w)
    BY <1>0, <1>2, <1>5 DEF InsertChunks, Goto
  <2> QED BY <1>1, <1>4, <1>5, <1>6, <1>7, <1>8, <1>10, <1>11, <2>1, <2>2 DEF IngestStep, IngestFault
<1>12. CASE WorkerStage[w] = "embed" /\ (EmbedStep(w) \/ EmbedFault(w))
  <2>1. st \in {"embed", "index"}
    BY <1>9, <1>10, <1>12
  <2>2. ~Guard(w) /\ ~LoadChunks(w) /\ ~CommitEmbedded(w)
    BY <1>0, <1>5, <2>1 DEF Guard, LoadChunks, CommitEmbedded, Goto
  <2>3. ~UpsertPart(w) /\ ~DropCollection(w) /\ ~CreateCollection(w) /\ ~RetryUpsert(w)
    BY <1>0, <1>2, <1>5, <2>1 DEF UpsertPart, DropCollection, CreateCollection, RetryUpsert, Goto
  <2>4. ~Upsert(w)
    BY <1>0, <1>2, <1>5, <2>1 DEF Upsert, Goto, BaseInv, StoreTypeOK
  <2> QED BY <1>1, <1>4, <1>5, <1>6, <1>7, <1>8, <1>10, <1>12, <2>1, <2>2, <2>3, <2>4 DEF EmbedStep, EmbedFault
<1>13. CASE WorkerStage[w] = "index" /\ (IndexStep(w) \/ IndexFault(w))
  <2>1. st = "index"
    BY <1>9, <1>10, <1>13
  <2> QED BY <1>4, <1>5, <1>6, <1>7, <1>13, <2>1 DEF IndexStep, IndexFault
<1>14. WorkerStage[w] # "purge"
  BY <1>9, <1>10
<1> QED BY <1>11, <1>12, <1>13, <1>14, StepStage

(* A request that has been accepted and not failed enqueues its ingestion. *)
LEMMA PreparingKept ==
  ASSUME "api" \notin FaultyParts, BaseInv, [Next]_vars, ~Restart,
         NEW c \in Clients, NEW d \in Docs, Exists(d), Preparing(c, d)
  PROVE  \/ Preparing(c, d)' /\ (req[c].at = "uploaded" => req'[c].at = "uploaded" \/ StageUploaded(c))
         \/ EnqueueIngest(c)
<1>0. req[c] \in Request
  BY DEF BaseInv, RequestsOK
<1>1. CASE req'[c] = req[c]
  BY <1>1 DEF Preparing
<1>2. CASE UploadStep(c) \/ ReprocessStep(c) \/ DeleteStep(c) \/ RequestFault(c)
  <2>1. ~RequestFault(c)
    BY DEF RequestFault, MayFault
  <2>2. StageUploaded(c) \/ ResetStage(c) \/ EnqueueIngest(c)
    BY <1>2, <2>1, Zenon DEF Preparing, UploadStep, ReprocessStep, DeleteStep, StartUpload, Find, Requeue, FindName,
           Replace, PurgeOld, PutObject, InsertDocument, StageUploaded, StartReprocess, Reprocess, ResetStage,
           EnqueueIngest, StartDelete, MarkDeleting, EnqueuePurge, Begin
  <2>3. CASE StageUploaded(c)
    <3>1. req' = [req EXCEPT ![c].at = "enqueue"]
      BY <2>3 DEF StageUploaded, Proceed
    <3> QED BY <1>0, <2>3, <3>1 DEF Preparing, BaseInv, RequestsOK, Request
  <2>4. CASE ResetStage(c)
    BY <2>4, ResetGoesOn DEF Preparing, ResetStage
  <2> QED BY <2>2, <2>3, <2>4
<1>3. CASE RequestNext
  <2>1. PICK b \in Clients : UploadStep(b) \/ ReprocessStep(b) \/ DeleteStep(b) \/ RequestFault(b)
    BY <1>3 DEF RequestNext
  <2>2. CASE b # c
    <3>1. PICK r : req' = [req EXCEPT ![b] = r]
      BY <1>3, <2>1, RequestMoves DEF RequestNext
    <3> QED BY <1>1, <2>2, <3>1 DEF BaseInv, RequestsOK
  <2> QED BY <1>2, <2>1, <2>2
<1> QED BY <1>1, <1>3 DEF Next, WorkerNext, ForeignStart, vars

(* Whoever will do a stage still will, or has done it. *)
LEMMA WillDoStays ==
  ASSUME "api" \notin FaultyParts, BaseInv, LoadedInv, KnowledgeInv, [Next]_vars, ~Restart,
         NEW d \in Docs, Exists(d), Exists(d)', NoneFailed(d), NoneFailed(d)', ~Empty(d),
         NEW st \in WorkedStages, WillDo(d, st)
  PROVE  stage'[d][st] = "done" \/ WillDo(d, st)'
<1> DEFINE Goal == stage'[d][st] = "done" \/ WillDo(d, st)'
<1> SUFFICES Goal
  OBVIOUS
<1> HIDE DEF Goal
<1>1. ASSUME NEW t \in JobStages, t \in StageOf(st), NEW by \in Strategies, Enqueue(t, d, by)
      PROVE  Goal
  <2>1. PICK k \in JobIds' \ JobIds : jobs'[k] = NewJob(t, d, by)
    BY <1>1, JobEnqueued DEF BaseInv
  <2>2. jobs'[k].stage = t /\ k \in JobsOf(d)'
    BY <2>1 DEF NewJob, JobsOf
  <2>3. PICK done \in {Past(st)} : TRUE
    OBVIOUS
  <2>4. PICK n : n = k
    OBVIOUS
  <2>5. Running(n, done)'
    BY <2>1, <2>4, NewRuns
  <2> QED BY <1>1, <2>2, <2>3, <2>4, <2>5 DEF WillDo, Goal, Running
<1>2. ASSUME NEW c \in Clients, Preparing(c, d)
      PROVE  Goal
  <2>1. CASE Preparing(c, d)'
    BY <2>1 DEF WillDo, Goal
  <2>2. CASE EnqueueIngest(c)
    <3>1. req[c].doc = d /\ req[c].by \in Strategies
      BY <1>2, <2>2, RequestCarries DEF EnqueueIngest, Carries, Fresh, Early, Preparing
    <3>2. "ingest" \in StageOf(st)
      BY DEF StageOf, WorkedStages
    <3> QED BY <1>1, <2>2, <3>1, <3>2 DEF EnqueueIngest, JobStages
  <2> QED BY <1>2, <2>1, <2>2, PreparingKept
<1>3. ASSUME NEW i \in JobsOf(d), jobs[i].stage \in StageOf(st), Running(i, Past(st))
      PROVE  Goal
  <2>1. /\ i \in JobIds /\ jobs[i].doc = d /\ jobs'[i].doc = d /\ i \in JobsOf(d)'
        /\ jobs'[i].stage = jobs[i].stage /\ i \in JobIds'
    BY BaseStep, JobFacts DEF Forward, JobsOf
  <2>2. PICK done \in {Past(st)} : TRUE
    OBVIOUS
  <2>3. \A s \in JobStages : Entry[s] \notin done
    <3>1. \A s \in JobStages : \A t \in WorkedStages : Entry[s] \notin Past(t)
      BY DEF Entry, JobStages, Past, WorkedStages
    <3> QED BY <2>2, <3>1
  <2>4. Exists(jobs[i].doc)' /\ Running(i, done)
    BY <1>3, <2>1, <2>2 DEF Exists
  <2>5. CASE Running(i, done)'
    BY <1>3, <2>1, <2>2, <2>5 DEF WillDo, Goal, Running, Live
  <2>6. ASSUME NEW w \in Workers, job[w] = i, pc[w] \in (Acks \cup Nacks) \ done,
               pc[w] \in Nacks => jobs'[i].row.status = "failed"
        PROVE  FALSE
    <3>1. pc[w] \notin Nacks
      BY <2>1, <2>6 DEF NoneFailed
    <3>2. jobs[i].stage = LabelStage(pc[w]) /\ pc[w] \in Acks
      BY <2>6, <3>1, RunFacts DEF Acks
    <3>3. /\ LabelStage("ingest_ack") = "ingest" /\ LabelStage("embed_ack") = "embed"
          /\ LabelStage("index_ack") = "index"
      BY LabelFacts DEF IngestLabels, IngestBody, EmbedLabels, EmbedBody, IndexLabels, IndexBody
    <3> QED BY <1>3, <2>2, <2>6, <3>2, <3>3 DEF Acks, Past, StageOf, WorkedStages
  <2>7. ASSUME NEW w \in Workers, Step(w) \/ Fault(w), job[w] = i, pc[w] # "idle",
               pc[w] \notin done, pc'[w] \in done
        PROVE  Goal
    <3>1. DocOf(w) = d /\ jobs[job[w]].by = jobs[i].by /\ jobs[job[w]].by \in Strategies
      BY <2>1, <2>7, RunFacts DEF DocOf
    <3>2. WorkerKnows(w) /\ loaded[w] \subseteq chunks /\ CutChunks(d, jobs[job[w]].by) # {}
      BY <2>7, <3>1 DEF KnowledgeInv, LoadedInv, HoldsRows, NoneFailed
    <3>3. \/ SetStage(d, st, "done")
          \/ EnqueueNext(w, "next", "embed", "ingest_ack") /\ "embed" \in StageOf(st)
          \/ EnqueueNext(w, "to_index", "index", "embed_ack") /\ "index" \in StageOf(st)
      BY <1>3, <2>2, <2>7, <3>1, <3>2, StagePassed
    <3>4. SetStage(d, st, "done") => stage'[d][st] = "done"
      BY DEF SetStage, BaseInv, StoreTypeOK, WorkedStages, StageNames
    <3> QED BY <1>1, <3>1, <3>3, <3>4 DEF EnqueueNext, JobStages, Goal
  <2> QED BY <2>1, <2>3, <2>4, <2>5, <2>6, <2>7, RunsOn
<1> QED BY <1>2, <1>3 DEF WillDo

(* A stage that is written back will be done again. *)
LEMMA WrittenBack ==
  ASSUME BaseInv, [Next]_vars, NEW d \in Docs, Exists(d)', NEW st \in StageNames,
         stage'[d][st] # stage[d][st], stage'[d][st] # "done"
  PROVE  st \in WorkedStages /\ WillDo(d, st)'
<1>1. ASSUME NEW c \in Clients, ResetStage(c), req[c].doc = d PROVE Preparing(c, d)'
  BY <1>1, ResetGoesOn DEF Preparing
<1>2. ASSUME NEW w \in Workers, StageWrittenByWorker(w, d, st)
      PROVE  \E i \in JobsOf(d)' : jobs'[i].stage \in StageOf(st) /\ Running(i, Past(st))'
  <2>1. PICK i \in JobIds : i = job[w] /\ i = job'[w] /\ i # 0
    BY <1>2, RunFacts DEF StageWrittenByWorker
  <2>2. i \in JobsOf(d)' /\ jobs'[i].doc = d /\ jobs'[i].stage \in StageOf(st)
    <3>1. jobs[i].doc = d /\ jobs[i].stage \in StageOf(st) /\ jobs' = jobs
      BY <1>2, <2>1 DEF StageWrittenByWorker, DocOf
    <3> QED BY <2>1, <3>1 DEF JobsOf, JobIds
  <2>3. jobs'[i].row.status = "processing"
    <3>1. HeldOK'
      BY BaseStep DEF BaseInv
    <3>2. \/ jobs'[i].row.status = "processing"
          \/ jobs'[i].row.status = "removed" /\ status'[jobs'[i].doc] = "purged"
      BY <2>1, <3>1 DEF HeldOK
    <3> QED BY <2>2, <3>2 DEF JobsOf, Exists
  <2>4. \A v \in Workers : job'[v] = i => v = w
    BY <2>1, BaseStep DEF BaseInv, HeldOK
  <2>5. Running(i, Past(st))'
    BY <1>2, <2>3, <2>4 DEF Running, Live, StageWrittenByWorker
  <2> QED BY <2>2, <2>5
<1> QED BY <1>1, <1>2, StageFrom DEF WillDo

(* The stage row of the upload is done, or is going to be, after every step. *)
LEMMA UploadStays ==
  ASSUME "api" \notin FaultyParts, BaseInv, [Next]_vars, ~Restart,
         NEW d \in Docs, Exists(d), Exists(d)', UploadDone(d)
  PROVE  UploadDone(d)'
<1>1. CASE stage[d]["upload"] = "done"
  <2>1. stage'[d]["upload"] = "done"
    BY <1>1, WrittenBack DEF StageNames, WorkedStages
  <2> QED BY <2>1 DEF UploadDone
<1>2. ASSUME NEW c \in Clients, req[c].doc = d, req[c].at = "uploaded"
      PROVE  UploadDone(d)'
  <2>1. Preparing(c, d) /\ ~EnqueueIngest(c)
    BY <1>2 DEF Preparing, EnqueueIngest
  <2>2. Preparing(c, d)' /\ (req'[c].at = "uploaded" \/ StageUploaded(c))
    BY <1>2, <2>1, PreparingKept
  <2>3. StageUploaded(c) => stage'[d]["upload"] = "done"
    BY <1>2 DEF StageUploaded, SetStage, BaseInv, StoreTypeOK, StageNames
  <2> QED BY <2>2, <2>3 DEF UploadDone, Preparing
<1> QED BY <1>1, <1>2 DEF UploadDone

(* A document's row is inserted by a request that goes on to enqueue its ingestion. *)
LEMMA InsertPrepares ==
  ASSUME BaseInv, [Next]_vars, NEW d \in Docs, ~Exists(d), Exists(d)'
  PROVE  \E c \in Clients : req'[c].doc = d /\ req'[c].at = "uploaded"
<1>1. status[d] = "absent" /\ status'[d] # status[d]
  BY BaseStep DEF Forward, Exists
<1>2. PICK c \in Clients : InsertDocument(c) /\ req[c].doc = d
  <2>1. \A s : ~SetStatus(d, s)
    BY <1>1 DEF SetStatus, StatusAfter
  <2>2. \A c \in Clients : StatusWrittenByRequest(c, d) => InsertDocument(c) /\ req[c].doc = d
    BY <2>1 DEF StatusWrittenByRequest, Requeue, Reprocess, Replace, MarkDeleting
  <2>3. \A w \in Workers : ~(PurgeRow(w) /\ DocOf(w) = d) /\ ~StatusWrittenByWorker(w, d)
    BY <1>1 DEF StatusWrittenByWorker, PurgeRow, DeleteDoc, rows
  <2> QED BY <1>1, <2>2, <2>3, StatusFrom
<1>3. req[c] \in Request /\ req' = [req EXCEPT ![c].at = "uploaded"]
  BY <1>2 DEF InsertDocument, Proceed, BaseInv, RequestsOK
<1>4. req'[c].at = "uploaded" /\ req'[c].doc = d
  BY <1>2, <1>3 DEF BaseInv, RequestsOK, Request
<1> QED BY <1>4

(* Every step keeps the invariant. *)
LEMMA StagesStep ==
  ASSUME "api" \notin FaultyParts, MaxRestarts = 0,
         BaseInv, TypeOK, LoadedInv, KnowledgeInv, StagesInv, [Next]_vars
  PROVE  StagesInv'
<1>0. ~Restart
  BY DEF Restart, TypeOK
<1> SUFFICES ASSUME NEW d \in Docs, Exists(d)'
             PROVE  /\ UploadDone(d)'
                    /\ NoneFailed(d)' /\ ~Empty(d)' =>
                         \A st \in WorkedStages : stage'[d][st] = "done" \/ WillDo(d, st)'
  BY DEF StagesInv
<1>1. CASE ~Exists(d)
  <2>1. PICK c \in Clients : req'[c].doc = d /\ req'[c].at = "uploaded"
    BY <1>1, InsertPrepares
  <2> QED BY <2>1 DEF UploadDone, WillDo, Preparing
<1>2. CASE Exists(d)
  <2>1. UploadDone(d)'
    BY <1>0, <1>2, UploadStays DEF StagesInv
  <2>2. ASSUME NoneFailed(d)', ~Empty(d)', NEW st \in WorkedStages
        PROVE  stage'[d][st] = "done" \/ WillDo(d, st)'
    <3>1. NoneFailed(d) /\ ~Empty(d)
      BY <1>0, <1>2, <2>2, NoneFailedBefore, KnowledgeStays DEF Exists
    <3>2. stage[d][st] = "done" \/ WillDo(d, st)
      BY <1>2, <3>1 DEF StagesInv
    <3>3. CASE stage[d][st] = "done"
      BY <3>3, WrittenBack DEF WorkedStages, StageNames
    <3>4. CASE WillDo(d, st)
      BY <1>0, <1>2, <2>2, <3>1, <3>4, WillDoStays
    <3> QED BY <3>2, <3>3, <3>4
  <2> QED BY <2>1, <2>2
<1> QED BY <1>1, <1>2

(* It holds at first. *)
LEMMA StagesInit == Init => StagesInv
BY DEF Init, StoreInit, StagesInv, Exists

\* The status says indexed, the stage rows say done, and they are written by
\* different statements of several pipelines in any order.  They agree in the end
\* because a stage that is not done yet always has somebody before it: a request
\* that is setting the stages back, or a job of that stage or an earlier one whose
\* handler has not come past it.  Workers may fail wherever they are retried; a
\* request or an instance that dies halfway through setting the stages back leaves
\* them so.
THEOREM IndexedStagesDone ==
  "api" \notin FaultyParts /\ MaxRestarts = 0 => (Spec => []SettledStagesDone)
<1> SUFFICES ASSUME "api" \notin FaultyParts, MaxRestarts = 0
             PROVE  Spec => []SettledStagesDone
  OBVIOUS
<1>1. Init => SearchInv /\ KnowledgeInv /\ LoadedInv /\ StagesInv
  BY SearchInit, KnowledgeInit, StagesInit DEF Init, HandlersInit, LoadedInv, HoldsRows
<1>2. BaseInv /\ TypeOK /\ SearchInv /\ KnowledgeInv /\ LoadedInv /\ StagesInv /\ [Next]_vars
        => SearchInv' /\ KnowledgeInv' /\ LoadedInv' /\ StagesInv'
  BY SearchStep, KnowledgeStep, LoadedKept, StagesStep
<1>3. KnowledgeInv /\ StagesInv => SettledStagesDone
  <2> SUFFICES ASSUME KnowledgeInv, StagesInv, NEW d \in Docs, status[d] = "indexed", Settled(d), NoneFailed(d),
                      NEW st \in StageNames
               PROVE  stage[d][st] = "done"
    BY DEF SettledStagesDone
  <2>1. Exists(d) /\ ~Empty(d)
    BY DEF Exists, KnowledgeInv
  <2>2. ~WillDo(d, st)
    BY DEF WillDo, Running, Settled, LiveJobsOf, Preparing
  <2>3. CASE st = "upload"
    BY <2>1, <2>3 DEF StagesInv, UploadDone, Settled
  <2>4. CASE st \in WorkedStages
    BY <2>1, <2>2, <2>4 DEF StagesInv
  <2> QED BY <2>3, <2>4 DEF StageNames, WorkedStages
<1> QED BY <1>1, <1>2, <1>3, PipelineBase, PipelineTypes, PTL DEF Spec
-----------------------------------------------------------------------------
(* A document whose row is gone has left nothing behind.                     *)

\* One client at a time, who asks about a document only when its work is over, and
\* uploads of one file, which replace no document that is still processed.
OneAtATime ==
  /\ Patient
  /\ \A b, c \in Clients : b = c
  /\ \A k, l \in Contents : k = l

PurgeExcept == {"purge_failed", "purge_nack"}

HasContent == \A d \in Docs : Exists(d) => info[d].content \in Contents

\* What a delete request has found when it began stays so until it enqueues the purge.
AskedWhenOver ==
  \A c \in Clients :
    /\ req[c].at \notin {"replace", "purge_old"}
    /\ req[c].at \in {"delete", "purge"} => LiveJobsOf(req[c].doc) = {}
    /\ req[c].at = "purge" => status[req[c].doc] = "deleting"

\* A purge has its document for itself.
PurgedAlone(d) ==
  /\ status[d] = "deleting"
  /\ \A i, k \in LiveJobsOf(d) : i = k
  /\ \A c \in Clients : req[c].doc # d

NoVectors(d) == \A v \in vectors : v[1] # d

\* What the purge worker has deleted stays deleted.
HasRemoved(w) ==
  /\ pc[w] \in {"table", "object", "row"} => NoVectors(DocOf(w))
  /\ pc[w] \in {"object", "row"} => DocOf(w) \notin tables
  /\ pc[w] = "row" => DocOf(w) \notin objects

PurgeInv ==
  /\ \A w \in Workers : pc[w] \notin PurgeExcept
  /\ PurgesGoOn
  /\ HasContent
  /\ AskedWhenOver
  /\ \A d \in Docs : ToBePurged(d) /\ Exists(d) => PurgedAlone(d)
  /\ \A w \in Workers : pc[w] # "idle" => Exists(DocOf(w)) /\ HasRemoved(w)
  /\ PurgeLeavesNothing

(* No purge comes to its except branch when nothing in it fails. *)
LEMMA PurgesSucceed ==
  ASSUME "purge" \notin FaultyParts, BaseInv, \A v \in Workers : pc[v] \notin PurgeExcept,
         [Next]_vars, NEW w \in Workers
  PROVE  pc'[w] \notin PurgeExcept
<1> SUFFICES ASSUME pc'[w] \in PurgeExcept PROVE FALSE
  OBVIOUS
<1>1. pc'[w] # "idle" /\ WorkerStage[w] = "purge"
  <2>1. WorkersOK'
    BY BaseStep DEF BaseInv
  <2>2. LabelStage(pc'[w]) = "purge" /\ pc'[w] # "idle"
    BY LabelFacts DEF PurgeExcept, PurgeLabels
  <2> QED BY <2>1, <2>2 DEF WorkersOK
<1>2. ~Stays(w)
  BY DEF Stays
<1>3. CASE Claim(w)
  <2>1. pc'[w] = Entry[WorkerStage[w]]
    BY <1>3 DEF Claim, BaseInv, WorkersOK
  <2> QED BY <1>1, <2>1 DEF Entry, PurgeExcept
<1>4. CASE Step(w) \/ Fault(w)
  <2>1. \A l : pc' = [pc EXCEPT ![w] = l] => pc'[w] = l
    BY DEF BaseInv, WorkersOK
  <2>2. ~MayFault(WorkerStage[w])
    BY <1>1 DEF MayFault
  <2>3. PurgeStep(w) \/ PurgeFault(w)
    BY <1>1, <1>4, StepStage
  <2> QED BY <2>1, <2>2, <2>3 DEF PurgeStep, PurgeFault, PurgeVectors, PurgeTable, PurgeObject, PurgeRow,
             MarkPurgeError, NackJob, Raise, Abandon, Goto, Return, PurgeExcept
<1> QED BY <1>1, <1>2, <1>3, <1>4, WorkerMoves

\* What a purge has taken is gone with its document, as long as the purge itself does
\* not fail: whatever else fails, overlaps or is restarted, a document whose work is
\* over has its file, and so a repeated upload or a reprocess request finds it.
THEOREM SettledFileKept == "purge" \notin FaultyParts => (Spec => []SettledHasFile)
<1> SUFFICES ASSUME "purge" \notin FaultyParts PROVE Spec => []SettledHasFile
  OBVIOUS
<1> DEFINE Inv == PurgesGoOn /\ \A w \in Workers : pc[w] \notin PurgeExcept
<1>1. Init => Inv
  <2> SUFFICES ASSUME Init PROVE Inv
    OBVIOUS
  <2>1. JobIds = {}
    BY EmptySeq DEF Init, StoreInit, JobIds
  <2> QED BY <2>1 DEF Init, HandlersInit, PurgesGoOn, PurgeExcept
<1>2. BaseInv /\ Inv /\ [Next]_vars => Inv'
  BY PurgesSucceed, PurgesStep DEF PurgeExcept
<1>3. SourceKept /\ Inv => SettledHasFile
  <2> SUFFICES ASSUME SourceKept, PurgesGoOn, NEW d \in Docs, Exists(d), Settled(d)
               PROVE  d \in objects
    BY DEF SettledHasFile
  <2>1. \A i \in JobsOf(d) : ~Live(i)
    BY DEF Settled, LiveJobsOf
  <2>2. ~ToBePurged(d)
    BY <2>1 DEF ToBePurged, PurgesGoOn, JobsOf, Exists
  <2> QED BY <2>2 DEF SourceKept
<1> QED BY <1>1, <1>2, <1>3, PipelineBase, SourceIsKept, PTL DEF Spec

(* A worker that runs a job of a document that is there runs a live one. *)
LEMMA RunsLive ==
  ASSUME BaseInv, NEW w \in Workers, pc[w] # "idle", Exists(DocOf(w))
  PROVE  job[w] \in LiveJobsOf(DocOf(w)) /\ job[w] \in JobIds /\ job[w] # 0
<1>1. /\ job[w] \in JobIds /\ job[w] # 0 /\ RowOf(w).status \in {"processing", "removed"}
      /\ RowOf(w).status = "removed" => status[DocOf(w)] = "purged"
  BY RunFacts
<1>2. RowOf(w).status # "removed"
  BY <1>1 DEF Exists
<1> QED BY <1>1, <1>2 DEF LiveJobsOf, JobsOf, Live, RowOf, DocOf

(* Nobody but the worker that purges a document runs a job of it. *)
LEMMA PurgeRunsAlone ==
  ASSUME BaseInv, PurgeInv, NEW d \in Docs, ToBePurged(d), Exists(d), NEW w \in Workers, pc[w] # "idle", DocOf(w) = d
  PROVE  /\ jobs[job[w]].stage = "purge" /\ WorkerStage[w] = "purge"
         /\ \A v \in Workers : pc[v] # "idle" /\ DocOf(v) = d => v = w
<1>1. PICK i \in JobIds : jobs[i].doc = d /\ jobs[i].stage = "purge"
  BY DEF ToBePurged, JobsOf
<1>2. i \in LiveJobsOf(d)
  BY <1>1 DEF PurgeInv, PurgesGoOn, LiveJobsOf, JobsOf, Exists
<1>3. \A v \in Workers : pc[v] # "idle" /\ DocOf(v) = d => job[v] = i /\ job[v] # 0
  BY <1>2, RunsLive DEF PurgeInv, PurgedAlone
<1>4. \A v \in Workers : pc[v] # "idle" /\ DocOf(v) = d => v = w
  BY <1>3 DEF BaseInv, HeldOK
<1> QED BY <1>1, <1>3, <1>4 DEF BaseInv, HeldOK

(* Every step keeps this. *)
LEMMA ContentStep ==
  ASSUME BaseInv, HasContent, [Next]_vars
  PROVE  HasContent'
<1> SUFFICES ASSUME NEW d \in Docs, Exists(d)' PROVE info'[d].content \in Contents
  BY DEF HasContent
<1>1. CASE \E c \in Clients : InsertDocument(c)
  <2>1. PICK c \in Clients : InsertDocument(c)
    BY <1>1
  <2>2. req[c].content \in Contents /\ req[c].doc \in Docs
    BY <2>1, RequestCarries DEF InsertDocument, Carries, Fresh
  <2>3. CASE req[c].doc = d
    BY <2>1, <2>2, <2>3 DEF InsertDocument, InsertDoc, BaseInv, StoreTypeOK
  <2>4. CASE req[c].doc # d
    BY <2>1, <2>2, <2>4 DEF InsertDocument, InsertDoc, BaseInv, StoreTypeOK, HasContent, Exists
  <2> QED BY <2>3, <2>4
<1>2. CASE ~\E c \in Clients : InsertDocument(c)
  <2>1. info' = info
    BY <1>2, StepLeaves
  <2>2. status[d] # "absent" /\ status[d] # "purged"
    BY <1>2, BaseStep DEF Forward, SameDocuments, PurgeRow, DeleteDoc, rows, Exists, BaseInv, StoreTypeOK
  <2> QED BY <2>1, <2>2 DEF HasContent, Exists
<1> QED BY <1>1, <1>2

(* How a request comes to delete a document, or to work on another one than before. *)
TakesFrom(c, r) ==
  /\ r.at = "replace" => FindName(c) /\ \E d \in SameName(req[c]) : info[d].content # req[c].content
  /\ r.at = "purge_old" => Replace(c)
  /\ r.at = "delete" => StartDelete(c) /\ MayAsk(r.doc)
  /\ r.at = "purge" => MarkDeleting(c) /\ Exists(req[c].doc) /\ r.doc = req[c].doc
  /\ r.doc \in {0, req[c].doc} \/ status[r.doc] \in {"absent"} \cup Failed \/ MayAsk(r.doc)

(* Every step of a request does so. *)
LEMMA RequestTakes ==
  ASSUME BaseInv, NEW c \in Clients,
         UploadStep(c) \/ ReprocessStep(c) \/ DeleteStep(c) \/ RequestFault(c)
  PROVE  \E r : req' = [req EXCEPT ![c] = r] /\ TakesFrom(c, r)
<1> DEFINE Turns == \E r : req' = [req EXCEPT ![c] = r] /\ TakesFrom(c, r)
           Asks  == {"replace", "purge_old", "delete", "purge"}
<1> SUFFICES Turns
  OBVIOUS
<1>1. req[c] \in Request
  BY DEF BaseInv, RequestsOK
<1>2. ASSUME NEW r, req' = [req EXCEPT ![c] = r], r.at \notin Asks,
             r.doc \in {0, req[c].doc} \/ status[r.doc] \in {"absent"} \cup Failed \/ MayAsk(r.doc)
      PROVE  Turns
  BY <1>2 DEF TakesFrom
<1>3. ASSUME NEW says, NEW d, Reply(c, says, d) PROVE Turns
  <2> DEFINE r == [Idle EXCEPT !.reply = [says |-> says, doc |-> d]]
  <2>1. r.at = "idle" /\ r.doc = 0
    BY DEF Idle
  <2>2. req' = [req EXCEPT ![c] = r]
    BY <1>3 DEF Reply
  <2> HIDE DEF r
  <2> QED BY <1>2, <2>1, <2>2
<1>4. ASSUME NEW label, Proceed(c, label),
             label = "purge_old" => Replace(c),
             label = "purge" => MarkDeleting(c) /\ Exists(req[c].doc),
             label \notin {"replace", "delete"}
      PROVE  Turns
  <2>1. PICK r : req' = [req EXCEPT ![c] = r] /\ r.at = label /\ r.doc = req[c].doc
    BY <1>4, ProceedMoves
  <2> QED BY <1>4, <2>1 DEF TakesFrom
<1> HIDE DEF Turns
<1>5. CASE StartUpload(c)
  <2>1. PICK d \in {issued.upload + 1}, content \in Contents, name \in Names, by \in Strategies :
          req' = [req EXCEPT ![c] = UploadOf(Idle, d, content, name, by)]
    BY <1>5, Zenon DEF StartUpload, Begin, UploadOf
  <2>2. issued.upload \in Nat /\ issued.upload < Cardinality(Docs) /\ Cardinality(Docs) \in Nat
    BY <1>5, StoreAssumption, FS_CardinalityType DEF StartUpload, Issue, BaseInv, RequestsOK
  <2>3. d \in Docs /\ d > issued.upload
    BY <2>2, StoreAssumption
  <2>4. status[d] = "absent"
    BY <2>3 DEF BaseInv, FreshOK
  <2> DEFINE r == UploadOf(Idle, d, content, name, by)
  <2>5. r.at = "find" /\ r.doc = d
    BY <2>3, UploadBegun, IdleFacts
  <2> HIDE DEF r
  <2>6. req' = [req EXCEPT ![c] = r]
    BY <2>1 DEF r
  <2> QED BY <1>2, <2>4, <2>5, <2>6
<1>6. CASE StartReprocess(c)
  <2>1. PICK d \in Docs, by \in Strategies : MayAsk(d) /\ req' = [req EXCEPT ![c] = AskOf(Idle, d, by)]
    BY <1>6, Zenon DEF StartReprocess, Begin, AskOf
  <2> DEFINE r == AskOf(Idle, d, by)
  <2>2. r.at = "reprocess" /\ r.doc = d
    BY <2>1, AskBegun, IdleFacts
  <2> HIDE DEF r
  <2>3. req' = [req EXCEPT ![c] = r]
    BY <2>1 DEF r
  <2> QED BY <1>2, <2>1, <2>2, <2>3
<1>7. CASE StartDelete(c)
  <2>1. PICK d \in Docs : MayAsk(d) /\ req' = [req EXCEPT ![c] = DeleteOf(Idle, d)]
    BY <1>7, Zenon DEF StartDelete, Begin, DeleteOf
  <2> DEFINE r == DeleteOf(Idle, d)
  <2>2. r.at = "delete" /\ r.doc = d
    BY <2>1, AskBegun, IdleFacts, StoreAssumption
  <2> HIDE DEF r
  <2>3. req' = [req EXCEPT ![c] = r]
    BY <2>1 DEF r
  <2> QED BY <1>7, <2>1, <2>2, <2>3 DEF TakesFrom, Turns
<1>8. CASE Find(c)
  <2>1. CASE Proceed(c, "name")
    BY <1>4, <2>1
  <2>2. ASSUME NEW d, status[d] \in Failed, req' = [req EXCEPT ![c].at = "requeue", ![c].doc = d]
        PROVE  Turns
    <3> DEFINE r == [req[c] EXCEPT !.at = "requeue", !.doc = d]
    <3>1. r.at = "requeue" /\ r.doc = d
      BY <1>1 DEF Request
    <3>2. req' = [req EXCEPT ![c] = r]
      BY <2>2
    <3> HIDE DEF r
    <3> QED BY <1>2, <2>2, <3>1, <3>2
  <2> QED BY <1>3, <1>8, <2>1, <2>2 DEF Find
<1>9. CASE FindName(c)
  <2>1. CASE Proceed(c, "put")
    BY <1>4, <2>1
  <2>2. ASSUME NEW d \in SameName(req[c]), info[d].content # req[c].content,
               req' = [req EXCEPT ![c].at = "replace", ![c].old = d]
        PROVE  Turns
    <3> DEFINE r == [req[c] EXCEPT !.at = "replace", !.old = d]
    <3>1. r.at = "replace" /\ r.doc = req[c].doc
      BY <1>1 DEF Request
    <3>2. req' = [req EXCEPT ![c] = r]
      BY <2>2
    <3> HIDE DEF r
    <3> QED BY <1>9, <2>2, <3>1, <3>2 DEF TakesFrom, Turns
  <2> QED BY <1>3, <1>9, <2>1, <2>2 DEF FindName
<1>10. CASE MarkDeleting(c) \/ Replace(c)
  BY <1>3, <1>4, <1>10 DEF MarkDeleting, Replace
<1>11. CASE Requeue(c) \/ Reprocess(c) \/ StageUploaded(c) \/ PurgeOld(c) \/ PutObject(c) \/ InsertDocument(c)
  BY <1>3, <1>4, <1>11 DEF Requeue, Reprocess, StageUploaded, PurgeOld, PutObject, InsertDocument
<1>12. CASE ResetStage(c)
  <2>1. req'[c].at \in {"reset", "enqueue"} /\ req'[c].doc = req[c].doc
    BY <1>12, ResetGoesOn
  <2>2. PICK r : req' = [req EXCEPT ![c] = r]
    BY <1>12, Zenon DEF ResetStage
  <2>3. req'[c] = r
    BY <2>2 DEF BaseInv, RequestsOK
  <2> QED BY <1>2, <2>1, <2>2, <2>3
<1>13. CASE EnqueueIngest(c) \/ EnqueuePurge(c) \/ RequestFault(c)
  BY <1>3, <1>13 DEF EnqueueIngest, EnqueuePurge, RequestFault
<1> QED BY <1>5, <1>6, <1>7, <1>8, <1>9, <1>10, <1>11, <1>12, <1>13 DEF UploadStep, ReprocessStep, DeleteStep

(* The same for a step of the whole system. *)
LEMMA Taken ==
  ASSUME BaseInv, [Next]_vars, NEW c \in Clients
  PROVE  \/ req'[c] = req[c]
         \/ req'[c] = Idle
         \/ RequestNext /\ TakesFrom(c, req'[c])
<1>1. CASE Restart
  BY <1>1 DEF Restart
<1>2. CASE RequestNext
  <2>1. PICK b \in Clients : UploadStep(b) \/ ReprocessStep(b) \/ DeleteStep(b) \/ RequestFault(b)
    BY <1>2 DEF RequestNext
  <2>2. PICK r : req' = [req EXCEPT ![b] = r] /\ TakesFrom(b, r)
    BY <2>1, RequestTakes
  <2>3. CASE b = c
    <3>1. req'[c] = r
      BY <2>2, <2>3 DEF BaseInv, RequestsOK
    <3> QED BY <1>2, <2>2, <2>3, <3>1
  <2>4. CASE b # c
    BY <2>2, <2>4 DEF BaseInv, RequestsOK
  <2> QED BY <2>3, <2>4
<1> QED BY <1>1, <1>2 DEF Next, WorkerNext, ForeignStart, vars

(* There is one client at most. *)
LEMMA OnlyOneAsks ==
  ASSUME OneAtATime, NEW b \in Clients, NEW c \in Clients
  PROVE  b = c
BY DEF OneAtATime

(* The document of the same name that an upload finds has the same content. *)
LEMMA FindsNoOther ==
  ASSUME OneAtATime, BaseInv, HasContent, NEW c \in Clients, FindName(c), NEW d \in SameName(req[c])
  PROVE  info[d].content = req[c].content
<1>1. req[c].content \in Contents
  BY RequestCarries DEF Carries, FindName, Fresh
<1>2. info[d].content \in Contents
  BY DEF SameName, HasContent
<1> QED BY <1>1, <1>2 DEF OneAtATime

(* No job of a document is enqueued but by a request for it or by a worker at it. *)
LEMMA NewJobsOf ==
  ASSUME BaseInv, AskedWhenOver, [Next]_vars, NEW i, i \in JobIds' \ JobIds, NEW d, d = jobs'[i].doc
  PROVE  /\ d \in Docs /\ Exists(d)
         /\ \/ \E c \in Clients : EnqueueIngest(c) /\ req[c].doc = d
            \/ \E c \in Clients : EnqueuePurge(c) /\ req[c].doc = d
            \/ \E w \in Workers : pc[w] \in {"next", "to_index"} /\ DocOf(w) = d
<1>1. ASSUME NEW c \in Clients, PurgeOld(c) PROVE FALSE
  BY <1>1 DEF PurgeOld, AskedWhenOver
<1>3. \A st, e, by : jobs'[i] = NewJob(st, e, by) => e = d
  BY DEF NewJob
<1>4. d \in Docs /\ Exists(d)
  BY NewJobs
<1> QED BY <1>1, <1>3, <1>4, NewJobs DEF EnqueueNext

(* A live job was live before, or is new. *)
LEMMA NoNewLive ==
  ASSUME BaseInv, [Next]_vars, NEW d \in Docs, NEW i \in LiveJobsOf(d)', i \in JobIds
  PROVE  i \in LiveJobsOf(d)
<1>1. jobs[i].doc = d
  BY BaseStep DEF LiveJobsOf, JobsOf, Forward
<1>2. Live(i)
  BY DeadStays DEF LiveJobsOf
<1> QED BY <1>1, <1>2 DEF LiveJobsOf, JobsOf

(* Every step keeps what a delete request has found. *)
LEMMA AskStep ==
  ASSUME OneAtATime, BaseInv, PurgeInv, [Next]_vars
  PROVE  AskedWhenOver'
<1> SUFFICES ASSUME NEW c \in Clients
             PROVE  /\ req'[c].at \notin {"replace", "purge_old"}
                    /\ (req[c].at \in {"delete", "purge"} => LiveJobsOf(req[c].doc) = {})'
                    /\ req'[c].at = "purge" => status'[req'[c].doc] = "deleting"
  BY DEF AskedWhenOver
<1>0. AskedWhenOver /\ HasContent
  BY DEF PurgeInv
<1>1. CASE req'[c] = Idle
  BY <1>1, IdleFacts
<1>2. req'[c].at \notin {"replace", "purge_old"}
  BY <1>0, <1>1, Taken, FindsNoOther DEF TakesFrom, Replace, AskedWhenOver
<1>3. ASSUME req'[c].at \in {"delete", "purge"}
      PROVE  req'[c].doc \in Docs /\ LiveJobsOf(req'[c].doc) = {}
  <2>1. req'[c].doc \in Docs
    BY <1>3, BaseStep DEF BaseInv, RequestsOK, Early
  <2> DEFINE OverOf(d) == LiveJobsOf(d) = {}
  <2> SUFFICES OverOf(req'[c].doc)
    BY <2>1
  <2>0. AskedWhenOver => \A b \in Clients : req[b].at \in {"delete", "purge"} => OverOf(req[b].doc)
    BY DEF AskedWhenOver
  <2>4. \A d : MayAsk(d) => OverOf(d)
    BY DEF MayAsk, Settled, OneAtATime
  <2> HIDE DEF OverOf
  <2>2. CASE req'[c] = req[c]
    BY <1>0, <1>3, <2>0, <2>2
  <2>3. CASE TakesFrom(c, req'[c])
    BY <1>0, <1>3, <2>0, <2>3, <2>4 DEF TakesFrom, MarkDeleting
  <2> QED BY <1>1, <1>3, <2>1, <2>2, <2>3, Taken, IdleFacts
<1>4. ASSUME req'[c].at \in {"delete", "purge"}, NEW d \in Docs, d = req'[c].doc
      PROVE  LiveJobsOf(d)' = {}
  <2> SUFFICES ASSUME NEW i, i \in LiveJobsOf(d)' PROVE FALSE
    OBVIOUS
  <2>1. LiveJobsOf(d) = {}
    BY <1>3, <1>4
  <2>2. i \in JobIds' /\ jobs'[i].doc = d
    BY DEF LiveJobsOf, JobsOf
  <2>3. CASE i \in JobIds
    BY <2>1, <2>3, NoNewLive
  <2>4. CASE i \notin JobIds
    <3>1. ASSUME NEW b \in Clients, EnqueueIngest(b) \/ EnqueuePurge(b) PROVE FALSE
      <4>1. b = c
        BY OnlyOneAsks
      <4>2. PICK says \in {"pending", "deleting"} : Reply(c, says, req[c].doc)
        BY <3>1, <4>1 DEF EnqueueIngest, EnqueuePurge
      <4>3. PICK r : req' = [req EXCEPT ![c] = r] /\ r.at = "idle"
        BY <4>2, ReplyMoves
      <4> QED BY <1>4, <4>3 DEF BaseInv, RequestsOK
    <3>2. ASSUME NEW w \in Workers, pc[w] \in {"next", "to_index"}, DocOf(w) = d PROVE Exists(d) => FALSE
      BY <2>1, <3>2, RunsLive
    <3> QED BY <1>0, <2>2, <2>4, <3>1, <3>2, NewJobsOf
  <2> QED BY <2>3, <2>4
<1>5. ASSUME req'[c].at = "purge", NEW d \in Docs, d = req'[c].doc
      PROVE  status'[d] = "deleting"
  <2>1. LiveJobsOf(d) = {}
    BY <1>3, <1>5
  <2>2. CASE req'[c] = req[c]
    <3>1. status[d] = "deleting"
      BY <1>0, <1>5, <2>2 DEF AskedWhenOver
    <3>2. ASSUME status'[d] # status[d] PROVE FALSE
      <4>1. ASSUME NEW b \in Clients, StatusWrittenByRequest(b, d) PROVE FALSE
        <5>1. b = c
          BY OnlyOneAsks
        <5> QED BY <1>5, <2>2, <4>1, <5>1 DEF StatusWrittenByRequest, InsertDocument, Requeue, Reprocess,
                   Replace, MarkDeleting
      <4>2. ASSUME NEW w \in Workers, pc[w] # "idle", DocOf(w) = d PROVE FALSE
        BY <2>1, <3>1, <4>2, RunsLive DEF Exists
      <4> QED BY <3>2, <4>1, <4>2, StatusFrom DEF PurgeRow, StatusWrittenByWorker
    <3> QED BY <3>1, <3>2
  <2>3. CASE TakesFrom(c, req'[c])
    BY <1>5, <2>3 DEF TakesFrom, MarkDeleting, SetStatus, StatusAfter, BaseInv, StoreTypeOK
  <2> QED BY <1>1, <1>5, <2>2, <2>3, Taken, IdleFacts
<1>6. ASSUME req'[c].at \in {"delete", "purge"}
      PROVE  /\ LiveJobsOf(req[c].doc)' = {}
             /\ req'[c].at = "purge" => status'[req'[c].doc] = "deleting"
  <2>1. PICK d \in Docs : d = req'[c].doc
    BY <1>3, <1>6
  <2>2. LiveJobsOf(d)' = {}
    BY <1>4, <1>6, <2>1
  <2> QED BY <1>5, <2>1, <2>2 DEF LiveJobsOf, JobsOf
<1> QED BY <1>2, <1>6

(* A document whose purge has begun has no other request and no other worker after a step. *)
LEMMA PurgeStaysAlone ==
  ASSUME OneAtATime, "purge" \notin FaultyParts, BaseInv, PurgeInv, [Next]_vars,
         NEW d \in Docs, ToBePurged(d), Exists(d), Exists(d)'
  PROVE  PurgedAlone(d)'
<1>0. PurgedAlone(d) /\ AskedWhenOver
  BY DEF PurgeInv
<1>1. LiveJobsOf(d) # {}
  <2>1. PICK i \in JobIds : jobs[i].doc = d /\ jobs[i].stage = "purge"
    BY DEF ToBePurged, JobsOf
  <2>2. i \in LiveJobsOf(d)
    BY <2>1 DEF PurgeInv, PurgesGoOn, LiveJobsOf, JobsOf, Exists
  <2> QED BY <2>2
<1>2. \A c \in Clients : req'[c].doc # d
  <2> SUFFICES ASSUME NEW c \in Clients, req'[c].doc = d PROVE FALSE
    OBVIOUS
  <2>1. d # 0
    BY StoreAssumption, FS_CardinalityType
  <2>2. req[c].doc # d
    BY <1>0 DEF PurgedAlone
  <2>3. ~MayAsk(d)
    BY <1>1 DEF MayAsk, Settled, OneAtATime
  <2>4. status[d] \notin {"absent"} \cup Failed
    BY <1>0 DEF PurgedAlone, Failed
  <2>5. req'[c] # req[c] /\ req'[c] # Idle
    BY <2>1, <2>2, IdleFacts
  <2>6. TakesFrom(c, req'[c])
    BY <2>5, Taken
  <2> QED BY <2>1, <2>2, <2>3, <2>4, <2>6 DEF TakesFrom
<1>3. status'[d] = "deleting"
  <2>1. ASSUME status'[d] # status[d] PROVE FALSE
    <3>1. ASSUME NEW c \in Clients, StatusWrittenByRequest(c, d) PROVE FALSE
      BY <1>0, <3>1 DEF StatusWrittenByRequest, PurgedAlone, AskedWhenOver, Replace
    <3>2. ASSUME NEW w \in Workers, PurgeRow(w), DocOf(w) = d PROVE FALSE
      BY <3>2 DEF PurgeRow, DeleteDoc, Exists, BaseInv, StoreTypeOK
    <3>3. ASSUME NEW w \in Workers, Step(w) \/ Fault(w), StatusWrittenByWorker(w, d) PROVE FALSE
      <4>1. pc[w] # "idle" /\ DocOf(w) = d
        BY <3>3 DEF StatusWrittenByWorker
      <4>2. PurgeStep(w) \/ PurgeFault(w)
        BY <3>3, <4>1, PurgeRunsAlone, StepStage
      <4>3. ~PurgeRow(w)
        BY <3>2, <4>1
      <4>4. pc[w] \notin PurgeExcept
        BY DEF PurgeInv
      <4> QED BY <2>1, <4>2, <4>3, <4>4 DEF PurgeStep, PurgeFault, PurgeVectors, PurgeTable, PurgeObject,
                 MarkPurgeError, NackJob, Raise, Abandon, PurgeExcept, store, rows
    <3> QED BY <2>1, <3>1, <3>2, <3>3, StatusFrom
  <2> QED BY <1>0, <2>1 DEF PurgedAlone
<1>4. ASSUME NEW i \in LiveJobsOf(d)' PROVE i \in LiveJobsOf(d)
  <2>1. i \in JobIds' /\ jobs'[i].doc = d
    BY <1>4 DEF LiveJobsOf, JobsOf
  <2>2. CASE i \in JobIds
    BY <2>2, NoNewLive
  <2>3. CASE i \notin JobIds
    <3>1. ASSUME NEW w \in Workers, pc[w] \in {"next", "to_index"}, DocOf(w) = d PROVE FALSE
      <4>1. jobs[job[w]].stage = "purge" /\ jobs[job[w]].stage = LabelStage(pc[w])
        BY <3>1, PurgeRunsAlone, RunFacts
      <4> QED BY <3>1, <4>1, LabelFacts DEF IngestLabels, IngestBody, EmbedLabels, EmbedBody
    <3> QED BY <1>0, <2>1, <2>3, <3>1, NewJobsOf DEF PurgedAlone
  <2> QED BY <2>2, <2>3
<1>5. \A i, k \in LiveJobsOf(d)' : i = k
  BY <1>0, <1>4 DEF PurgedAlone
<1> QED BY <1>2, <1>3, <1>5 DEF PurgedAlone

(* So has one whose purge begins. *)
LEMMA PurgeBegins ==
  ASSUME OneAtATime, BaseInv, PurgeInv, [Next]_vars, NEW d \in Docs, ~ToBePurged(d), ToBePurged(d)'
  PROVE  PurgedAlone(d)'
<1>0. AskedWhenOver
  BY DEF PurgeInv
<1>1. PICK i \in JobIds' : jobs'[i].doc = d /\ jobs'[i].stage = "purge"
  BY DEF ToBePurged, JobsOf
<1>2. i \notin JobIds
  BY <1>1, BaseStep DEF Forward, ToBePurged, JobsOf
<1>3. PICK c \in Clients : EnqueuePurge(c) /\ req[c].doc = d
  <2>1. \A st, e, by : jobs'[i] = NewJob(st, e, by) => st = "purge"
    BY <1>1 DEF NewJob
  <2>2. \A c \in Clients : ~PurgeOld(c)
    BY <1>0 DEF PurgeOld, AskedWhenOver
  <2> QED BY <1>1, <1>2, <2>1, <2>2, NewJobs
<1>4. Exists(d) /\ status[d] = "deleting" /\ LiveJobsOf(d) = {}
  BY <1>0, <1>1, <1>2, <1>3, NewJobs DEF AskedWhenOver, EnqueuePurge
<1>5. status'[d] = "deleting"
  BY <1>3, <1>4 DEF EnqueuePurge
<1>6. \A b \in Clients : req'[b].doc # d
  <2>1. req'[c] = [Idle EXCEPT !.reply = [says |-> "deleting", doc |-> d]]
    BY <1>3 DEF EnqueuePurge, Reply, BaseInv, RequestsOK
  <2>2. req'[c].doc = 0
    BY <2>1 DEF Idle
  <2>3. d # 0
    BY StoreAssumption, FS_CardinalityType
  <2> QED BY <2>2, <2>3, OnlyOneAsks
<1>7. \A j, k \in LiveJobsOf(d)' : j = k
  <2>1. jobs \in Seq(JobRow)
    BY DEF BaseInv, StoreTypeOK, JobRow
  <2>2. PICK n \in {NewJob("purge", d, CHOOSE by \in Strategies : TRUE)} : jobs' = Append(jobs, n)
    BY <1>3, <1>4 DEF EnqueuePurge, Enqueue
  <2>3. JobIds' \ JobIds = {Len(jobs) + 1}
    BY <2>1, <2>2, AppendProperties, LenProperties DEF JobIds
  <2>4. \A j \in LiveJobsOf(d)' : j \in JobIds' \ JobIds
    BY <1>4, NoNewLive DEF LiveJobsOf, JobsOf
  <2> QED BY <2>3, <2>4
<1> QED BY <1>5, <1>6, <1>7 DEF PurgedAlone

(* A document that nobody but a purge works on gets nothing in the stores. *)
LEMMA NothingAdded ==
  ASSUME BaseInv, LoadedInv, [Next]_vars, NEW d \in Docs, status[d] # "absent",
         \A w \in Workers : pc[w] # "idle" /\ DocOf(w) = d => WorkerStage[w] = "purge"
  PROVE  /\ NoVectors(d) => NoVectors(d)'
         /\ d \notin tables => d \notin tables'
         /\ d \notin objects => d \notin objects'
<1>1. d \in objects' => d \in objects
  <2>1. ASSUME NEW c \in Clients, PutObject(c) PROVE objects' = objects \cup {req[c].doc} /\ req[c].doc # d
    BY <2>1 DEF PutObject, BaseInv, FreshOK, Fresh
  <2> QED BY <2>1, StepLeaves DEF PurgeObject
<1>2. CASE WorkerNext
  <2>1. PICK w \in Workers : Claim(w) \/ Step(w) \/ Fault(w)
    BY <1>2 DEF WorkerNext
  <2>2. CASE Claim(w)
    BY <1>1, <2>2 DEF Claim, storage, NoVectors
  <2>3. CASE IngestStep(w) \/ IngestFault(w)
    <3>1. tables' \subseteq tables \/ UploadTable(w)
      <4>1. CASE InsertChunks(w) \/ FetchAndParse(w) \/ Cut(w) \/ IngestFault(w)
        BY <4>1 DEF InsertChunks, FetchAndParse, Cut, IngestFault, Raise, Abandon, store, storage
      <4> QED BY <2>3, <4>1 DEF IngestStep, WriteStage, WriteStatus, EnqueueNext, AckJob, NackJob, storage
    <3>2. ASSUME UploadTable(w) PROVE DocOf(w) # d
      <4>1. pc[w] # "idle" /\ LabelStage(pc[w]) = "ingest"
        BY <3>2, LabelFacts DEF UploadTable, IngestLabels
      <4>2. WorkerStage[w] = "ingest"
        BY <4>1 DEF BaseInv, WorkersOK
      <4> QED BY <4>1, <4>2
    <3> QED BY <1>1, <2>3, <3>1, <3>2, IngestLeaves DEF UploadTable, NoVectors
  <2>4. CASE EmbedStep(w) \/ EmbedFault(w)
    <3>1. \A c \in loaded[w] : c.doc # d
      <4> SUFFICES ASSUME NEW c \in loaded[w], c.doc = d PROVE FALSE
        OBVIOUS
      <4>1. pc[w] # "idle" /\ DocOf(w) = d
        BY DEF LoadedInv, HoldsRows
      <4>2. LabelStage(pc[w]) = "purge"
        BY <4>1 DEF BaseInv, WorkersOK
      <4>3. pc[w] \in EmbedLabels
        BY <2>4 DEF EmbedStep, EmbedFault, WriteStage, WriteStatus, EnqueueNext, AckJob, NackJob, Raise,
               Abandon, Guard, LoadChunks, Upsert, UpsertPart, DropCollection, CreateCollection, RetryUpsert,
               CommitEmbedded, EmbedLabels, EmbedBody, EmbedExcept
      <4> QED BY <4>2, <4>3, LabelFacts
    <3>2. NoVectors(d) => NoVectors(d)'
      BY <2>4, <3>1, EmbedLeaves, PointsOf DEF NoVectors
    <3> QED BY <1>1, <2>4, <3>2, EmbedLeaves
  <2>5. CASE IndexStep(w) \/ IndexFault(w)
    BY <1>1, <2>5, IndexLeaves DEF storage, NoVectors
  <2>6. CASE PurgeStep(w) \/ PurgeFault(w)
    <3>1. tables' \subseteq tables
      BY <2>6 DEF PurgeStep, PurgeFault, PurgeVectors, PurgeTable, PurgeObject, PurgeRow, MarkPurgeError,
             NackJob, Raise, Abandon, store, storage
    <3> QED BY <1>1, <2>6, <3>1, PurgeLeaves DEF NoVectors
  <2> QED BY <2>1, <2>2, <2>3, <2>4, <2>5, <2>6 DEF Step, Fault
<1>3. CASE RequestNext
  BY <1>1, <1>3, RequestLeaves DEF RequestNext, NoVectors
<1>4. CASE Restart \/ ForeignStart \/ UNCHANGED vars
  BY <1>1, <1>4 DEF Restart, ProbedVectors, ForeignStart, vars, store, storage, NoVectors
<1> QED BY <1>2, <1>3, <1>4 DEF Next

(* A document goes by the last step of its purge. *)
LEMMA GoneBy ==
  ASSUME BaseInv, [Next]_vars, NEW d \in Docs, status[d] # "purged", status'[d] = "purged"
  PROVE  \E w \in Workers : PurgeRow(w) /\ DocOf(w) = d
<1>1. ~SameDocuments
  BY DEF SameDocuments
<1>2. ~\E c \in Clients : InsertDocument(c)
  BY DEF InsertDocument, InsertDoc, BaseInv, StoreTypeOK
<1>3. PICK w \in Workers : PurgeRow(w)
  BY <1>1, <1>2, BaseStep DEF Forward
<1> QED BY <1>3 DEF PurgeRow, DeleteDoc, rows, BaseInv, StoreTypeOK

(* Where the handler of a purge comes from, when no call of it fails. *)
LEMMA PurgeComesFrom ==
  ASSUME "purge" \notin FaultyParts, BaseInv, NEW w \in Workers, Step(w) \/ Fault(w),
         WorkerStage[w] = "purge", NEW d, d = DocOf(w)
  PROVE  /\ pc'[w] = "table" => \A v \in vectors' : v[1] # d
         /\ pc'[w] = "object" => pc[w] = "table" /\ d \notin tables'
         /\ pc'[w] = "row" => pc[w] = "object" /\ d \notin objects'
<1>1. \A l : pc' = [pc EXCEPT ![w] = l] => pc'[w] = l
  BY DEF BaseInv, WorkersOK
<1>2. PurgeStep(w) \/ PurgeFault(w)
  BY StepStage
<1>3. ~MayFault("purge")
  BY DEF MayFault
<1>4. ~PurgeFault(w)
  BY <1>3 DEF PurgeFault, Raise, Abandon
<1>5. CASE PurgeVectors(w) \/ PurgeTable(w) \/ PurgeObject(w)
  BY <1>1, <1>3, <1>5 DEF PurgeVectors, PurgeTable, PurgeObject, Goto
<1>6. CASE PurgeRow(w) \/ MarkPurgeError(w) \/ NackJob(w, "purge_nack")
  BY <1>1, <1>6 DEF PurgeRow, MarkPurgeError, NackJob, Return, Goto
<1> QED BY <1>2, <1>4, <1>5, <1>6 DEF PurgeStep

\* The labels at which something of the document is deleted already.
Removing == {"table", "object", "row"}

(* A worker's document is there, and what its purge has deleted has not come back. *)
LEMMA RunnerStep ==
  ASSUME "purge" \notin FaultyParts, BaseInv, LoadedInv, PurgeInv, [Next]_vars,
         NEW w \in Workers, pc'[w] # "idle"
  PROVE  Exists(DocOf(w))' /\ HasRemoved(w)'
<1>1. CASE Claim(w)
  <2>1. PICK i \in JobIds : IsDue(jobs[i].row) /\ job' = [job EXCEPT ![w] = i]
    BY <1>1 DEF Claim
  <2>2. jobs[i].doc \in Docs /\ jobs[i].row.status = "pending"
    BY <2>1, JobsAreRows DEF IsDue, BaseInv, StoreTypeOK, JobRow, JobIds
  <2>3. job'[w] = i /\ jobs'[i].doc = jobs[i].doc
    BY <2>1, BaseStep DEF Forward, BaseInv, WorkersOK
  <2>4. Exists(jobs[i].doc) /\ status' = status
    BY <1>1, <2>1, <2>2 DEF BaseInv, JobsOK, Exists, Claim
  <2>5. Exists(DocOf(w))'
    BY <2>3, <2>4 DEF DocOf, Exists
  <2>6. pc'[w] \notin Removing
    <3>1. pc'[w] = Entry[WorkerStage[w]] /\ WorkerStage[w] \in JobStages
      BY <1>1, HandlersAssumption DEF Claim, BaseInv, WorkersOK
    <3>2. \A s \in JobStages : Entry[s] \notin Removing
      BY DEF Entry, JobStages, Removing
    <3> QED BY <3>1, <3>2
  <2> QED BY <2>5, <2>6 DEF HasRemoved, Removing
<1>2. CASE ~Claim(w)
  <2>1. pc[w] # "idle" /\ job'[w] = job[w] /\ (Stays(w) \/ Step(w) \/ Fault(w))
    <3>1. job'[w] # 0
      BY BaseStep DEF BaseInv, WorkersOK
    <3> QED BY <1>2, <3>1, WorkerMoves DEF Stays, BaseInv, WorkersOK
  <2>2. PICK d \in Docs : d = DocOf(w) /\ d = DocOf(w)'
    BY <2>1, SameRun
  <2>3. Exists(d) /\ HasRemoved(w)
    BY <2>1, <2>2 DEF PurgeInv
  <2>4. Exists(d)'
    <3>1. ASSUME status'[d] = "purged" PROVE FALSE
      <4>1. PICK v \in Workers : PurgeRow(v) /\ DocOf(v) = d
        BY <2>3, <3>1, GoneBy DEF Exists
      <4>2. ToBePurged(d) /\ pc[v] # "idle"
        BY <4>1, PurgeWorkerPurges DEF PurgeRow, PurgeLabels
      <4>3. v = w
        BY <2>1, <2>2, <2>3, <4>1, <4>2, PurgeRunsAlone
      <4> QED BY <4>1, <4>3 DEF PurgeRow, Return, BaseInv, WorkersOK
    <3> QED BY <2>3, <3>1, BaseStep DEF Forward, Exists
  <2>5. Exists(DocOf(w))'
    BY <2>2, <2>4 DEF Exists
  <2>6. CASE pc'[w] \notin Removing
    BY <2>5, <2>6 DEF HasRemoved, Removing
  <2>7. CASE pc'[w] \in Removing
    <3>1. WorkerStage[w] = "purge" /\ jobs[job[w]].stage = "purge"
      <4>1. WorkerStage[w] = "purge"
        BY <2>7, LabelFacts, BaseStep DEF BaseInv, WorkersOK, Removing, PurgeLabels
      <4> QED BY <2>1, <4>1, RunFacts DEF BaseInv, WorkersOK
    <3>2. ToBePurged(d)
      BY <2>1, <2>2, <3>1, SameRun DEF ToBePurged
    <3>3. /\ NoVectors(d) => NoVectors(d)'
          /\ d \notin tables => d \notin tables'
          /\ d \notin objects => d \notin objects'
      <4>1. \A v \in Workers : pc[v] # "idle" /\ DocOf(v) = d => WorkerStage[v] = "purge"
        BY <2>3, <3>2, PurgeRunsAlone
      <4> QED BY <2>3, <4>1, NothingAdded DEF Exists
    <3>4. CASE Stays(w)
      BY <2>2, <2>3, <2>5, <3>3, <3>4 DEF HasRemoved, Stays, NoVectors
    <3>5. CASE Step(w) \/ Fault(w)
      <4>1. /\ pc'[w] = "table" => \A v \in vectors' : v[1] # d
            /\ pc'[w] = "object" => pc[w] = "table" /\ d \notin tables'
            /\ pc'[w] = "row" => pc[w] = "object" /\ d \notin objects'
        BY <2>2, <3>1, <3>5, PurgeComesFrom
      <4> QED BY <2>2, <2>3, <2>5, <2>7, <3>3, <4>1 DEF HasRemoved, NoVectors, Removing
    <3> QED BY <2>1, <3>4, <3>5
  <2> QED BY <2>6, <2>7
<1> QED BY <1>1, <1>2

(* Of a document that is gone, nothing is left in the stores. *)
LEMMA NothingLeft ==
  ASSUME BaseInv, LoadedInv, PurgeInv, [Next]_vars
  PROVE  PurgeLeavesNothing'
<1> SUFFICES ASSUME NEW d \in Docs, status'[d] = "purged"
             PROVE  NoVectors(d)' /\ d \notin objects' \cup tables'
  BY DEF PurgeLeavesNothing, NoVectors
<1>1. CASE status[d] = "purged"
  <2>1. \A w \in Workers : pc[w] # "idle" => DocOf(w) # d
    BY <1>1 DEF PurgeInv, Exists
  <2>2. NoVectors(d) /\ d \notin objects \cup tables
    BY <1>1 DEF PurgeInv, PurgeLeavesNothing, NoVectors
  <2> QED BY <1>1, <2>1, <2>2, NothingAdded
<1>2. CASE status[d] # "purged"
  <2>1. PICK w \in Workers : PurgeRow(w) /\ DocOf(w) = d
    BY <1>2, GoneBy
  <2>2. NoVectors(d) /\ d \notin objects \cup tables
    BY <2>1 DEF PurgeRow, PurgeInv, HasRemoved
  <2> QED BY <2>1, <2>2 DEF PurgeRow, storage, NoVectors
<1> QED BY <1>1, <1>2

(* Every step keeps the invariant. *)
LEMMA PurgeInvStep ==
  ASSUME OneAtATime, "purge" \notin FaultyParts, BaseInv, LoadedInv, PurgeInv, [Next]_vars
  PROVE  PurgeInv'
<1>1. \A w \in Workers : pc'[w] \notin PurgeExcept
  BY PurgesSucceed DEF PurgeInv
<1>2. PurgesGoOn'
  BY PurgesStep DEF PurgeInv, PurgeExcept
<1>3. HasContent'
  BY ContentStep DEF PurgeInv
<1>4. AskedWhenOver'
  BY AskStep
<1>5. ASSUME NEW d \in Docs, ToBePurged(d)', Exists(d)' PROVE PurgedAlone(d)'
  <2>1. CASE ToBePurged(d)
    <3>1. status[d] # "absent"
      BY <2>1 DEF ToBePurged, JobsOf, BaseInv, JobsOK
    <3>2. Exists(d)
      BY <1>5, <3>1, BaseStep DEF Exists, Forward
    <3> QED BY <1>5, <2>1, <3>2, PurgeStaysAlone
  <2>2. CASE ~ToBePurged(d)
    BY <1>5, <2>2, PurgeBegins
  <2> QED BY <2>1, <2>2
<1>6. \A w \in Workers : pc'[w] # "idle" => Exists(DocOf(w))' /\ HasRemoved(w)'
  BY RunnerStep
<1>7. PurgeLeavesNothing'
  BY NothingLeft
<1> QED BY <1>1, <1>2, <1>3, <1>4, <1>5, <1>6, <1>7 DEF PurgeInv

(* It holds at first. *)
LEMMA PurgeInvInit == Init => PurgeInv
<1> SUFFICES ASSUME Init PROVE PurgeInv
  OBVIOUS
<1>1. /\ \A w \in Workers : pc[w] = "idle"
      /\ \A d \in Docs : ~Exists(d) /\ status[d] # "purged"
      /\ \A c \in Clients : req[c].at = "idle"
      /\ JobIds = {}
  BY IdleFacts DEF Init, StoreInit, HandlersInit, RequestsInit, JobIds, Exists
<1> QED BY <1>1 DEF PurgeInv, PurgeExcept, PurgesGoOn, HasContent, AskedWhenOver, PurgeLeavesNothing

\* A document's row goes last, and takes its jobs with it, so everything else must
\* be gone by then and nobody may be left who could write it again.  The
\* code makes sure of that only for a client who waits until the pipeline is over
\* and has the document for himself: then the one live job of it is its purge.  An
\* upload that replaces a document does not wait, nor does a second client, and a
\* deletion that failed is skipped.
THEOREM PurgedLeavesNothing ==
  OneAtATime /\ "purge" \notin FaultyParts => (Spec => []PurgeLeavesNothing)
<1> SUFFICES ASSUME OneAtATime, "purge" \notin FaultyParts PROVE Spec => []PurgeLeavesNothing
  OBVIOUS
<1>1. Init => PurgeInv /\ LoadedInv
  BY PurgeInvInit, QuietInit DEF QuietInv
<1>2. BaseInv /\ LoadedInv /\ PurgeInv /\ [Next]_vars => LoadedInv' /\ PurgeInv'
  BY LoadedKept, PurgeInvStep
<1>3. PurgeInv => PurgeLeavesNothing
  BY DEF PurgeInv
<1> QED BY <1>1, <1>2, <1>3, PipelineBase, PTL DEF Spec
================================================================================
