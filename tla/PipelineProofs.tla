--------------------------- MODULE PipelineProofs ---------------------------
(***************************************************************************)
(* Theorems about Pipeline, for every number of documents, contents,       *)
(* strategies, workers, clients, requests, failures and restarts.          *)
(*                                                                         *)
(* A handler and a request are programs over labels, so most of an         *)
(* inductive invariant says what holds at which label.  The first part     *)
(* has the moves that handlers are made of, one lemma for each, so that    *)
(* the steps of a worker are covered by naming its moves.                  *)
(***************************************************************************)
EXTENDS Pipeline, SequenceTheorems, FiniteSetTheorems, TLAPS

ChunkRow == [doc : Docs, index : Nat, by : Strategies]
JobRow   == [stage : JobStages, doc : Docs, by : Strategies, row : Row]

IngestLabels == IngestBody \cup IngestExcept \cup {"mindsdb", "cut"}
EmbedLabels  == EmbedBody \cup EmbedExcept
IndexLabels  == IndexBody \cup IndexExcept
PurgeLabels  == {"vectors", "table", "object", "row", "purge_failed", "purge_nack"}
Labels       == IngestLabels \cup EmbedLabels \cup IndexLabels \cup PurgeLabels

\* A label belongs to the handler of one stage.
LabelStage(label) ==
  CASE label \in IngestLabels -> "ingest"
    [] label \in EmbedLabels  -> "embed"
    [] label \in IndexLabels  -> "index"
    [] label \in PurgeLabels  -> "purge"

WorkersOK ==
  /\ pc \in [Workers -> Labels \cup {"idle"}]
  /\ job \in [Workers -> Nat]
  /\ loaded \in [Workers -> SUBSET ChunkRow]
  /\ \A w \in Workers : /\ job[w] = 0 <=> pc[w] = "idle"
                        /\ pc[w] # "idle" => LabelStage(pc[w]) = WorkerStage[w]

\* A job that is run is of the worker's stage, and no other worker runs it.  Only a
\* purge of its document takes it away.
HeldOK ==
  /\ \A w \in Workers :
       job[w] # 0 => /\ job[w] \in JobIds
                     /\ jobs[job[w]].stage = WorkerStage[w]
                     /\ \/ jobs[job[w]].row.status = "processing"
                        \/ jobs[job[w]].row.status = "removed" /\ status[jobs[job[w]].doc] = "purged"
  /\ \A v, w \in Workers : job[v] = job[w] /\ job[v] # 0 => v = w

\* Jobs are of documents that have been inserted, and go with them if not before.
JobsOK ==
  \A i \in JobIds :
    /\ status[jobs[i].doc] # "absent"
    /\ jobs[i].row.status # "absent"
    /\ status[jobs[i].doc] = "purged" => jobs[i].row.status = "removed"

Fresh == {"find", "name", "replace", "purge_old", "put", "insert"}
Early == {"requeue", "reset", "uploaded", "enqueue", "reprocess", "delete", "purge"}
Says  == {"nothing", "error", "already_indexed", "being_processed", "pending", "not_found", "deleting"}

Request ==
  [at : Fresh \cup Early \cup {"idle"}, doc : Docs \cup {0}, content : Contents \cup {NoInfo},
   name : Names \cup {NoInfo}, by : Strategies \cup {NoInfo}, old : Docs \cup {0}, reset : 0 .. 4,
   reply : [says : Says, doc : Docs \cup {0}]]

\* What a request carries where it is needed.
RequestsOK ==
  /\ req \in [Clients -> Request]
  /\ issued \in [upload : 0 .. Cardinality(Docs), reprocess : Nat, delete : Nat]
  /\ \A c \in Clients :
       /\ req[c].at # "idle" => req[c].doc \in Docs
       /\ req[c].at \in Fresh => req[c].content \in Contents /\ req[c].name \in Names
       /\ req[c].at \in (Fresh \cup Early) \ {"delete", "purge"} => req[c].by \in Strategies
       /\ req[c].at \in {"replace", "purge_old"} => req[c].old \in Docs
       /\ req[c].at = "reset" => req[c].reset \in 0 .. 3
       /\ req[c].at \notin {"reset", "enqueue"} => req[c].reset = 0

\* The id of an upload is its own until the row is inserted.
FreshOK ==
  /\ \A d \in Docs : d > issued.upload => status[d] = "absent"
  /\ \A c \in Clients :
       /\ req[c].at \in Fresh => status[req[c].doc] = "absent" /\ req[c].doc <= issued.upload
       /\ req[c].at \in Early \ {"reprocess", "delete"} => status[req[c].doc] # "absent"
       /\ req[c].at \in {"replace", "purge_old"} => status[req[c].old] # "absent"
  /\ \A b, c \in Clients :
       req[b].at \in Fresh /\ req[c].at \in Fresh /\ req[b].doc = req[c].doc => b = c

BaseInv == StoreTypeOK /\ WorkersOK /\ HeldOK /\ JobsOK /\ RequestsOK /\ FreshOK
-----------------------------------------------------------------------------
(* Rows and sequences of jobs.                                               *)

LEMMA RowFacts ==
  /\ NewRow \in Row /\ NewRow.status = "pending"
  /\ RemovedRow \in Row /\ RemovedRow.status = "removed"
  /\ \A r \in Row : /\ ClaimedRow(r) \in Row /\ ClaimedRow(r).status = "processing"
                    /\ RecoveredRow(r) \in Row /\ RecoveredRow(r).status = "pending"
                    /\ AckedRow(r) \in Row
                    /\ AckedRow(r).status = IF r.status \in Gone THEN r.status ELSE "done"
<1>1. NewRow \in Row /\ NewRow.status = "pending"
  BY DEF NewRow, Row, Status
<1>2. RemovedRow \in Row /\ RemovedRow.status = "removed"
  BY DEF RemovedRow, AbsentRow, Row, Status
<1>3. ASSUME NEW r \in Row PROVE ClaimedRow(r) \in Row /\ ClaimedRow(r).status = "processing"
  <2> DEFINE n == r.attempt + 1
  <2>1. n \in Nat
    BY DEF Row
  <2> HIDE DEF n
  <2>2. [r EXCEPT !.status = "processing", !.age = 0, !.attempt = n] \in Row
    BY <2>1 DEF Row, Status
  <2>3. [r EXCEPT !.status = "processing", !.age = 0, !.attempt = n].status = "processing"
    BY DEF Row
  <2> QED BY <2>2, <2>3 DEF n, ClaimedRow
<1>4. ASSUME NEW r \in Row PROVE RecoveredRow(r) \in Row /\ RecoveredRow(r).status = "pending"
  BY DEF RecoveredRow, Row, Status
<1>5. ASSUME NEW r \in Row
      PROVE  /\ AckedRow(r) \in Row
             /\ AckedRow(r).status = IF r.status \in Gone THEN r.status ELSE "done"
  BY DEF AckedRow, Row, Status, Gone
<1> QED BY <1>1, <1>2, <1>3, <1>4, <1>5

(* A nack makes a row pending again or failed, and keeps it a row. *)
LEMMA NackedFacts ==
  ASSUME NEW r \in Row, NEW n \in Nat
  PROVE  /\ NackedRow(r, n) \in Row
         /\ NackedRow(r, n).status = IF r.status \in Gone THEN r.status
                                     ELSE IF MayRetry(n) THEN "pending" ELSE "failed"
<1>1. CASE r.status \in Gone
  BY <1>1 DEF NackedRow
<1>2. CASE r.status \notin Gone /\ MayRetry(n)
  <2>1. n \in 0 .. MaxAttempts
    BY <1>2, TableAssumption DEF MayRetry
  <2> DEFINE b == BackoffTicks[n]
  <2>2. b \in Int
    BY <2>1, BackoffAssumption
  <2> HIDE DEF b
  <2>3. /\ [r EXCEPT !.status = "pending", !.age = 0, !.due = b] \in Row
        /\ [r EXCEPT !.status = "pending", !.age = 0, !.due = b].status = "pending"
    BY <2>2 DEF Row, Status
  <2> QED BY <1>2, <2>3 DEF NackedRow, RetriedRow, b
<1>3. CASE r.status \notin Gone /\ ~MayRetry(n)
  <2>1. FailedRow(r) \in Row /\ FailedRow(r).status = "failed"
    BY DEF FailedRow, Row, Status
  <2> QED BY <1>3, <2>1 DEF NackedRow
<1> QED BY <1>1, <1>2, <1>3

(* The row of one job is written. *)
LEMMA RowWritten ==
  ASSUME NEW q \in Seq(JobRow), NEW i \in DOMAIN q, NEW r \in Row
  PROVE  LET n == [q EXCEPT ![i].row = r] IN
         /\ n \in Seq(JobRow) /\ DOMAIN n = DOMAIN q
         /\ \A k \in DOMAIN q : /\ n[k].stage = q[k].stage /\ n[k].doc = q[k].doc /\ n[k].by = q[k].by
                                /\ n[k].row = IF k = i THEN r ELSE q[k].row
<1> DEFINE e == [q[i] EXCEPT !.row = r]
           n == [q EXCEPT ![i] = e]
<1>1. q[i] \in JobRow
  BY ElementOfSeq, LenProperties
<1>2. e \in JobRow /\ e.stage = q[i].stage /\ e.doc = q[i].doc /\ e.by = q[i].by /\ e.row = r
  BY <1>1 DEF JobRow
<1> HIDE DEF e
<1>3. n \in Seq(JobRow) /\ DOMAIN n = DOMAIN q
  BY <1>2, ExceptSeq, LenProperties
<1>4. \A k \in DOMAIN q : n[k] = IF k = i THEN e ELSE q[k]
  OBVIOUS
<1> QED BY <1>2, <1>3, <1>4 DEF e

(* A job whose row is replaced stays a job. *)
LEMMA RowReplaced ==
  ASSUME NEW e \in JobRow, NEW r \in Row
  PROVE  LET n == [e EXCEPT !.row = r] IN
         n \in JobRow /\ n.stage = e.stage /\ n.doc = e.doc /\ n.by = e.by /\ n.row = r
BY DEF JobRow

(* The jobs are rows, one by one. *)
LEMMA JobsAreRows ==
  ASSUME NEW q \in Seq(JobRow), NEW i \in DOMAIN q
  PROVE  q[i] \in JobRow /\ q[i].doc \in Docs /\ q[i].row \in Row
<1>1. i \in 1 .. Len(q) /\ Len(q) \in Nat
  BY LenProperties
<1>2. q[i] \in JobRow
  BY <1>1, ElementOfSeq
<1> QED BY <1>2 DEF JobRow

(* The rows of many jobs are written. *)
LEMMA JobsRewritten ==
  ASSUME NEW q \in Seq(JobRow), NEW n, n = [k \in DOMAIN q |-> n[k]],
         \A k \in DOMAIN q : n[k] \in JobRow
  PROVE  n \in Seq(JobRow) /\ DOMAIN n = DOMAIN q
<1>1. DOMAIN q = 1 .. Len(q) /\ Len(q) \in Nat
  BY LenProperties
<1>2. n \in [1 .. Len(q) -> JobRow]
  BY <1>1
<1> QED BY <1>1, <1>2, IsASeq
-----------------------------------------------------------------------------
(* Labels.                                                                   *)

LEMMA LabelFacts ==
  /\ \A l \in IngestLabels : l \in Labels /\ LabelStage(l) = "ingest"
  /\ \A l \in EmbedLabels : l \in Labels /\ LabelStage(l) = "embed"
  /\ \A l \in IndexLabels : l \in Labels /\ LabelStage(l) = "index"
  /\ \A l \in PurgeLabels : l \in Labels /\ LabelStage(l) = "purge"
  /\ "idle" \notin Labels
<1> USE DEF IngestLabels, IngestBody, IngestExcept, EmbedLabels, EmbedBody, EmbedExcept,
            IndexLabels, IndexBody, IndexExcept, PurgeLabels, Labels
<1>1. \A l \in IngestLabels : l \in Labels /\ LabelStage(l) = "ingest"
  BY DEF LabelStage
<1>2. \A l \in EmbedLabels : l \in Labels /\ LabelStage(l) = "embed"
  BY DEF LabelStage
<1>3. \A l \in IndexLabels : l \in Labels /\ LabelStage(l) = "index"
  BY DEF LabelStage
<1>4. \A l \in PurgeLabels : l \in Labels /\ LabelStage(l) = "purge"
  BY DEF LabelStage
<1>5. "idle" \notin Labels
  OBVIOUS
<1> QED BY <1>1, <1>2, <1>3, <1>4, <1>5

(* Where handlers start and where their except branches do. *)
LEMMA EntryFacts ==
  ASSUME NEW s \in JobStages
  PROVE  /\ Entry[s] \in Labels /\ LabelStage(Entry[s]) = s
         /\ Handler[s] \in Labels /\ LabelStage(Handler[s]) = s
<1>1. /\ Entry["ingest"] \in IngestLabels /\ Handler["ingest"] \in IngestLabels
      /\ Entry["embed"] \in EmbedLabels /\ Handler["embed"] \in EmbedLabels
      /\ Entry["index"] \in IndexLabels /\ Handler["index"] \in IndexLabels
      /\ Entry["purge"] \in PurgeLabels /\ Handler["purge"] \in PurgeLabels
  BY DEF Entry, Handler, IngestLabels, IngestBody, IngestExcept, EmbedLabels, EmbedBody,
         EmbedExcept, IndexLabels, IndexBody, IndexExcept, PurgeLabels
<1> QED BY <1>1, LabelFacts DEF JobStages

(* The variables of the handlers keep their types in each of a handler's moves. *)
LEMMA GotoKeeps ==
  ASSUME WorkersOK, NEW w \in Workers, NEW label \in Labels,
         pc[w] # "idle", LabelStage(label) = LabelStage(pc[w]), Goto(w, label)
  PROVE  WorkersOK' /\ job' = job /\ loaded' = loaded
BY LabelFacts DEF WorkersOK, Goto

(* An except branch is one of the same stage. *)
LEMMA ExceptKeeps ==
  ASSUME WorkersOK, NEW w \in Workers, pc[w] # "idle", Except(w)
  PROVE  WorkersOK' /\ job' = job /\ loaded' = loaded
<1>1. LabelStage(pc[w]) = WorkerStage[w] /\ WorkerStage[w] \in JobStages
  BY HandlersAssumption DEF WorkersOK
<1> QED BY <1>1, EntryFacts, GotoKeeps DEF Except

(* A worker that returns is idle and holds nothing. *)
LEMMA ReturnKeeps ==
  ASSUME WorkersOK, NEW w \in Workers, Return(w)
  PROVE  WorkersOK' /\ job' = [job EXCEPT ![w] = 0]
BY LabelFacts DEF WorkersOK, Return
-----------------------------------------------------------------------------
(* Statements.                                                               *)

LEMMA StatusWritten ==
  ASSUME StoreTypeOK, NEW d \in Docs, NEW s \in DocStatus \ {"absent", "purged"}, SetStatus(d, s)
  PROVE  /\ status' \in [Docs -> DocStatus]
         /\ status'[d] = IF Exists(d) THEN s ELSE status[d]
         /\ \A e \in Docs : /\ e # d => status'[e] = status[e]
                            /\ status'[e] = "absent" <=> status[e] = "absent"
                            /\ status'[e] = "purged" <=> status[e] = "purged"
BY DEF StoreTypeOK, SetStatus, StatusAfter, Exists

StageStatus == {"none", "pending", "processing", "done", "failed"}

(* A stage row that is written stays well formed. *)
LEMMA StageWritten ==
  ASSUME StoreTypeOK, NEW d \in Docs, NEW st \in StageNames, NEW s \in StageStatus, SetStage(d, st, s)
  PROVE  /\ stage' \in [Docs -> [StageNames -> StageStatus]]
         /\ \A e \in Docs, t \in StageNames :
              stage'[e][t] = IF Exists(d) /\ e = d /\ t = st THEN s ELSE stage[e][t]
<1>1. CASE Exists(d)
  BY <1>1 DEF StoreTypeOK, SetStage, StageStatus
<1>2. CASE ~Exists(d)
  BY <1>2 DEF StoreTypeOK, SetStage, StageStatus
<1> QED BY <1>1, <1>2

\* Jobs are added, each of a document that is there, and none is changed.
JobsAdded ==
  /\ jobs' \in Seq(JobRow)
  /\ \A i \in JobIds : i \in JobIds' /\ jobs'[i] = jobs[i]
  /\ \A i \in JobIds' \ JobIds : Exists(jobs'[i].doc) /\ jobs'[i].row = NewRow

(* Enqueue adds a pending job if its document is there, and changes no other. *)
LEMMA JobEnqueued ==
  ASSUME StoreTypeOK, NEW st \in JobStages, NEW d \in Docs, NEW by \in Strategies, Enqueue(st, d, by)
  PROVE  /\ JobsAdded
         /\ \A i \in JobIds' \ JobIds : jobs'[i] = NewJob(st, d, by)
         /\ Exists(d) => \E i \in JobIds' \ JobIds : TRUE
<1>1. jobs \in Seq(JobRow)
  BY DEF StoreTypeOK, JobRow
<1>2. CASE Exists(d)
  <2> DEFINE n == NewJob(st, d, by)
  <2>1. n \in JobRow /\ n.doc = d /\ n.row = NewRow
    BY RowFacts DEF NewJob, JobRow
  <2> HIDE DEF n
  <2>2. jobs' = Append(jobs, n)
    BY <1>2 DEF Enqueue, n
  <2>3. /\ jobs' \in Seq(JobRow) /\ Len(jobs') = Len(jobs) + 1 /\ Len(jobs) \in Nat
        /\ \A i \in 1 .. Len(jobs) : jobs'[i] = jobs[i]
        /\ jobs'[Len(jobs) + 1] = n
    BY <1>1, <2>1, <2>2, AppendProperties, LenProperties
  <2>4. JobIds = 1 .. Len(jobs) /\ JobIds' = 1 .. (Len(jobs) + 1)
    BY <1>1, <2>3, LenProperties DEF JobIds
  <2>5. JobIds' \ JobIds = {Len(jobs) + 1}
    BY <2>3, <2>4
  <2> QED BY <1>2, <2>1, <2>3, <2>4, <2>5 DEF JobsAdded, n
<1>3. CASE ~Exists(d)
  <2>1. jobs' = jobs
    BY <1>3 DEF Enqueue
  <2> QED BY <1>1, <1>3, <2>1 DEF JobsAdded, JobIds
<1> QED BY <1>2, <1>3

\* What most steps of workers and requests do to documents and jobs.
Soft ==
  /\ StoreTypeOK'
  /\ \A d \in Docs : /\ status'[d] = "absent" <=> status[d] = "absent"
                     /\ status'[d] = "purged" <=> status[d] = "purged"
  /\ JobsAdded

(* Not to touch the jobs is to add none. *)
LEMMA JobsUnchanged == StoreTypeOK /\ jobs' = jobs => JobsAdded
BY DEF StoreTypeOK, JobsAdded, JobRow, JobIds

(* A soft step keeps the jobs with their documents, ... *)
LEMMA SoftKeepsJobs ==
  ASSUME StoreTypeOK, JobsOK, Soft
  PROVE  JobsOK'
<1> SUFFICES ASSUME NEW i \in JobIds'
             PROVE  /\ status'[jobs'[i].doc] # "absent"
                    /\ jobs'[i].row.status # "absent"
                    /\ status'[jobs'[i].doc] = "purged" => jobs'[i].row.status = "removed"
  BY DEF JobsOK
<1>1. jobs'[i] \in JobRow
  <2>1. jobs' \in Seq(JobRow) /\ i \in DOMAIN jobs'
    BY DEF Soft, JobsAdded, JobIds
  <2> QED BY <2>1, ElementOfSeq, LenProperties
<1>2. jobs'[i].doc \in Docs
  BY <1>1 DEF JobRow
<1>3. CASE i \in JobIds
  BY <1>2, <1>3 DEF JobsOK, Soft, JobsAdded
<1>4. CASE i \notin JobIds
  BY <1>2, <1>4, RowFacts DEF Soft, JobsAdded, Exists
<1> QED BY <1>3, <1>4

(* ... the workers with their jobs ... *)
LEMMA SoftKeepsHeld ==
  ASSUME StoreTypeOK, HeldOK, Soft, job' = job
  PROVE  HeldOK'
<1>1. \A i \in JobIds : jobs[i].doc \in Docs
  BY JobsAreRows DEF StoreTypeOK, JobIds, JobRow
<1> QED BY <1>1 DEF HeldOK, Soft, JobsAdded

(* ... and the requests with theirs. *)
LEMMA SoftKeepsRequests ==
  ASSUME RequestsOK, FreshOK, Soft, UNCHANGED <<req, issued>>
  PROVE  RequestsOK' /\ FreshOK'
<1>1. RequestsOK'
  BY DEF RequestsOK
<1>2. \A c \in Clients :
        /\ req[c].at \in Fresh \cup (Early \ {"reprocess", "delete"}) => req[c].doc \in Docs
        /\ req[c].at \in {"replace", "purge_old"} => req[c].old \in Docs
  BY DEF RequestsOK, Fresh, Early
<1>3. FreshOK'
  BY <1>2 DEF FreshOK, Soft
<1> QED BY <1>1, <1>3

(* A step of a worker that is soft. *)
LEMMA SoftKeeps ==
  ASSUME BaseInv, Soft, WorkersOK', job' = job, UNCHANGED <<req, issued>>
  PROVE  BaseInv'
BY SoftKeepsJobs, SoftKeepsHeld, SoftKeepsRequests DEF BaseInv, Soft
-----------------------------------------------------------------------------
(* The moves of a handler keep the base invariant.                           *)

LEMMA RunFacts ==
  ASSUME BaseInv, NEW w \in Workers, pc[w] # "idle"
  PROVE  /\ job[w] \in JobIds /\ job[w] # 0 /\ jobs[job[w]] \in JobRow
         /\ DocOf(w) \in Docs /\ RowOf(w) \in Row /\ jobs[job[w]].by \in Strategies
         /\ jobs[job[w]].stage = LabelStage(pc[w])
         /\ RowOf(w).status \in {"processing", "removed"}
         /\ RowOf(w).status = "removed" => status[DocOf(w)] = "purged"
<1>1. job[w] \in JobIds /\ job[w] # 0
  BY DEF BaseInv, WorkersOK, HeldOK
<1>2. jobs \in Seq(JobRow) /\ job[w] \in DOMAIN jobs
  BY <1>1 DEF BaseInv, StoreTypeOK, JobRow, JobIds
<1>3. jobs[job[w]] \in JobRow
  BY <1>2, ElementOfSeq, LenProperties
<1>4. /\ jobs[job[w]].stage = LabelStage(pc[w]) /\ RowOf(w).status \in {"processing", "removed"}
      /\ RowOf(w).status = "removed" => status[DocOf(w)] = "purged"
  BY <1>1 DEF BaseInv, WorkersOK, HeldOK, RowOf, DocOf
<1> QED BY <1>1, <1>3, <1>4 DEF JobRow, DocOf, RowOf

(* An UPDATE of the status is soft. *)
LEMMA SoftStatus ==
  ASSUME BaseInv, NEW d \in Docs, NEW s \in DocStatus \ {"absent", "purged"}, SetStatus(d, s),
         UNCHANGED <<info, stage, chunks, jobs, storage>>, faults' \in 0 .. MaxFaults
  PROVE  Soft
BY StatusWritten, JobsUnchanged DEF BaseInv, StoreTypeOK, storage, Soft

\* A step that leaves the rows of documents, stages and jobs alone.
LEMMA SoftStore ==
  ASSUME BaseInv, UNCHANGED <<status, info, stage, jobs>>,
         chunks' \subseteq ChunkRow, objects' \subseteq Docs, tables' \subseteq Docs,
         vectors' \subseteq Docs \X Nat, collection' \in {"right", "wrong", "missing"},
         faults' \in 0 .. MaxFaults
  PROVE  Soft
BY JobsUnchanged DEF BaseInv, StoreTypeOK, ChunkRow, Soft

(* What the stores hold when a step leaves them alone. *)
LEMMA Unmoved ==
  BaseInv => /\ chunks \subseteq ChunkRow /\ objects \subseteq Docs /\ tables \subseteq Docs
             /\ vectors \subseteq Docs \X Nat /\ collection \in {"right", "wrong", "missing"}
             /\ faults \in 0 .. MaxFaults
BY DEF BaseInv, StoreTypeOK, ChunkRow

(* Faults stay within their bound. *)
LEMMA FaultCounted == BaseInv => \A part : MayFault(part) => faults' \in 0 .. MaxFaults
BY StoreAssumption DEF BaseInv, StoreTypeOK, MayFault

\* The worker goes from one label of its handler to another.
Along(w, here, next) ==
  /\ pc[w] = here /\ here \in Labels /\ next \in Labels
  /\ LabelStage(next) = LabelStage(here)

(* A step along its handler keeps what is said of the workers. *)
LEMMA AlongGoto ==
  ASSUME BaseInv, NEW w \in Workers, NEW here, NEW next, Along(w, here, next), Goto(w, next)
  PROVE  WorkersOK' /\ job' = job /\ loaded' = loaded /\ pc[w] # "idle"
BY GotoKeeps, LabelFacts DEF BaseInv, Along

(* The moves that handlers share: writing a stage row, ... *)
LEMMA WriteStageKeeps ==
  ASSUME BaseInv, NEW w \in Workers, NEW here, NEW next, NEW st \in StageNames, NEW s \in StageStatus,
         Along(w, here, next), WriteStage(w, here, st, s, next), UNCHANGED <<req, issued>>
  PROVE  BaseInv' /\ Soft
<1>1. WorkersOK' /\ job' = job /\ pc[w] # "idle"
  BY AlongGoto DEF WriteStage
<1>2. stage' \in [Docs -> [StageNames -> StageStatus]]
  BY <1>1, RunFacts, StageWritten DEF WriteStage, BaseInv
<1>3. Soft
  BY <1>2, JobsUnchanged DEF WriteStage, BaseInv, StoreTypeOK, StageStatus, storage, Soft
<1> QED BY <1>1, <1>3, SoftKeeps

(* ... writing the status, ... *)
LEMMA WriteStatusKeeps ==
  ASSUME BaseInv, NEW w \in Workers, NEW here, NEW next, NEW s \in DocStatus \ {"absent", "purged"},
         Along(w, here, next), WriteStatus(w, here, s, next), UNCHANGED <<req, issued>>
  PROVE  BaseInv' /\ Soft
<1>1. WorkersOK' /\ job' = job /\ pc[w] # "idle"
  BY AlongGoto DEF WriteStatus
<1>2. Soft
  BY <1>1, RunFacts, SoftStatus, Unmoved DEF WriteStatus
<1> QED BY <1>1, <1>2, SoftKeeps

(* ... enqueueing the next stage, ... *)
LEMMA EnqueueNextKeeps ==
  ASSUME BaseInv, NEW w \in Workers, NEW here, NEW next, NEW st \in JobStages,
         Along(w, here, next), EnqueueNext(w, here, st, next), UNCHANGED <<req, issued>>
  PROVE  BaseInv' /\ Soft
<1>1. WorkersOK' /\ job' = job /\ pc[w] # "idle"
  BY AlongGoto DEF EnqueueNext
<1>2. JobsAdded
  BY <1>1, RunFacts, JobEnqueued DEF EnqueueNext, BaseInv
<1>3. Soft
  BY <1>2 DEF EnqueueNext, BaseInv, StoreTypeOK, JobsAdded, JobRow, storage, Soft
<1> QED BY <1>1, <1>3, SoftKeeps

\* A worker writes the row of one job and no other changes.
RowOnly(i, r) ==
  /\ jobs' \in Seq(JobRow) /\ JobIds' = JobIds
  /\ \A k \in JobIds : /\ jobs'[k].stage = jobs[k].stage /\ jobs'[k].doc = jobs[k].doc
                       /\ jobs'[k].by = jobs[k].by
                       /\ jobs'[k].row = IF k = i THEN r ELSE jobs[k].row

(* It ends its handler with that. *)
LEMMA EndKeeps ==
  ASSUME BaseInv, NEW w \in Workers, pc[w] # "idle", NEW r \in Row,
         r.status = "removed" <=> RowOf(w).status = "removed", r.status # "absent",
         jobs' = [jobs EXCEPT ![job[w]].row = r],
         Return(w), UNCHANGED <<status, info, stage, chunks, storage, faults, req, issued>>
  PROVE  BaseInv' /\ RowOnly(job[w], r)
<1>1. WorkersOK' /\ job' = [job EXCEPT ![w] = 0]
  BY ReturnKeeps DEF BaseInv
<1>2. job[w] \in JobIds
  BY RunFacts
<1>3. RowOnly(job[w], r)
  <2>1. jobs \in Seq(JobRow) /\ job[w] \in DOMAIN jobs
    BY <1>2 DEF BaseInv, StoreTypeOK, JobRow, JobIds
  <2> QED BY <2>1, RowWritten DEF JobIds, RowOnly
<1>4. StoreTypeOK'
  BY <1>3 DEF BaseInv, StoreTypeOK, RowOnly, JobRow, storage
<1>5. JobsOK'
  BY <1>2, <1>3 DEF BaseInv, JobsOK, RowOnly, RowOf
<1>6. HeldOK'
  BY <1>1, <1>3 DEF BaseInv, HeldOK, RowOnly, WorkersOK
<1>7. RequestsOK' /\ FreshOK'
  BY DEF BaseInv, RequestsOK, FreshOK
<1> QED BY <1>1, <1>3, <1>4, <1>5, <1>6, <1>7 DEF BaseInv

(* ... the ack, ... *)
LEMMA AckJobKeeps ==
  ASSUME BaseInv, NEW w \in Workers, NEW here \in Labels, AckJob(w, here), UNCHANGED <<req, issued>>
  PROVE  BaseInv' /\ RowOnly(job[w], AckedRow(RowOf(w)))
<1>1. pc[w] # "idle" /\ jobs' = [jobs EXCEPT ![job[w]].row = AckedRow(RowOf(w))]
  BY LabelFacts DEF AckJob, RowOf
<1>2. AckedRow(RowOf(w)) \in Row /\ AckedRow(RowOf(w)).status # "absent"
      /\ (AckedRow(RowOf(w)).status = "removed" <=> RowOf(w).status = "removed")
  BY <1>1, RunFacts, RowFacts DEF Gone
<1> QED BY <1>1, <1>2, EndKeeps DEF AckJob

(* ... the nack, ... *)
LEMMA NackJobKeeps ==
  ASSUME BaseInv, NEW w \in Workers, NEW here \in Labels, NackJob(w, here), UNCHANGED <<req, issued>>
  PROVE  BaseInv' /\ RowOnly(job[w], NackedRow(RowOf(w), RowOf(w).attempt))
<1> DEFINE n == RowOf(w).attempt
<1>1. pc[w] # "idle" /\ jobs' = [jobs EXCEPT ![job[w]].row = NackedRow(RowOf(w), n)]
  BY LabelFacts DEF NackJob, RowOf
<1>2. n \in Nat /\ RowOf(w) \in Row /\ RowOf(w).status \in {"processing", "removed"}
  BY <1>1, RunFacts DEF Row
<1> HIDE DEF n
<1>3. NackedRow(RowOf(w), n) \in Row /\ NackedRow(RowOf(w), n).status # "absent"
      /\ (NackedRow(RowOf(w), n).status = "removed" <=> RowOf(w).status = "removed")
  BY <1>2, NackedFacts DEF Gone
<1> QED BY <1>1, <1>3, EndKeeps DEF NackJob, n

(* ... and an exception in the try block. *)
LEMMA RaiseKeeps ==
  ASSUME BaseInv, NEW w \in Workers, NEW body \in SUBSET Labels, Raise(w, body), UNCHANGED <<req, issued>>
  PROVE  BaseInv' /\ Soft
<1>1. WorkersOK' /\ job' = job
  BY ExceptKeeps, LabelFacts DEF Raise, BaseInv
<1>2. Soft
  BY SoftStore, Unmoved, FaultCounted DEF Raise, store, rows, storage
<1> QED BY <1>1, <1>2, SoftKeeps

(* A worker that gives up leaves its job as it is. *)
LEMMA AbandonKeeps ==
  ASSUME BaseInv, NEW w \in Workers, NEW branch, Abandon(w, branch), UNCHANGED <<req, issued>>
  PROVE  BaseInv' /\ Soft
<1>1. WorkersOK' /\ job' = [job EXCEPT ![w] = 0]
  BY ReturnKeeps DEF Abandon, BaseInv
<1>2. Soft
  BY SoftStore, Unmoved, FaultCounted DEF Abandon, store, rows, storage
<1>3. HeldOK'
  <2>1. \A v \in Workers : job'[v] = IF v = w THEN 0 ELSE job[v]
    BY <1>1 DEF BaseInv, WorkersOK
  <2>2. \A i \in JobIds : jobs[i].doc \in Docs
    BY JobsAreRows DEF BaseInv, StoreTypeOK, JobIds, JobRow
  <2> QED BY <1>2, <2>1, <2>2 DEF BaseInv, HeldOK, Soft, JobsAdded
<1> QED BY <1>1, <1>2, <1>3, SoftKeepsJobs, SoftKeepsRequests DEF BaseInv, Soft

(* A claim takes a pending job that nobody runs. *)
LEMMA ClaimKeeps ==
  ASSUME BaseInv, NEW w \in Workers, Claim(w), UNCHANGED <<req, issued>>
  PROVE  /\ BaseInv'
         /\ \E i \in JobIds : /\ IsDue(jobs[i].row) /\ jobs[i].stage = WorkerStage[w]
                              /\ RowOnly(i, ClaimedRow(jobs[i].row))
                              /\ job' = [job EXCEPT ![w] = i]
         /\ pc' = [pc EXCEPT ![w] = Entry[WorkerStage[w]]]
<1>1. PICK i \in JobIds : /\ jobs[i].stage = WorkerStage[w] /\ IsDue(jobs[i].row)
                          /\ jobs' = [jobs EXCEPT ![i].row = ClaimedRow(jobs[i].row)]
                          /\ job' = [job EXCEPT ![w] = i]
  BY DEF Claim
<1>2. jobs \in Seq(JobRow) /\ i \in DOMAIN jobs /\ i \in Nat \ {0} /\ jobs[i] \in JobRow
  <2>1. jobs \in Seq(JobRow) /\ i \in DOMAIN jobs
    BY DEF BaseInv, StoreTypeOK, JobRow, JobIds
  <2>2. i \in 1 .. Len(jobs) /\ Len(jobs) \in Nat
    BY <2>1, LenProperties
  <2> QED BY <2>1, <2>2, ElementOfSeq
<1>3. jobs[i].row \in Row /\ jobs[i].row.status = "pending"
  BY <1>1, <1>2 DEF JobRow, IsDue
<1>4. ClaimedRow(jobs[i].row) \in Row /\ ClaimedRow(jobs[i].row).status = "processing"
  BY <1>3, RowFacts
<1>5. RowOnly(i, ClaimedRow(jobs[i].row))
  BY <1>1, <1>2, <1>4, RowWritten DEF JobIds, RowOnly
<1>6. WorkersOK'
  <2> DEFINE e == Entry[WorkerStage[w]]
  <2>1. e \in Labels /\ e # "idle" /\ LabelStage(e) = WorkerStage[w]
    BY EntryFacts, LabelFacts, HandlersAssumption
  <2>2. pc' = [pc EXCEPT ![w] = e] /\ loaded' = loaded
    BY DEF Claim
  <2> HIDE DEF e
  <2>3. \A v \in Workers : /\ pc'[v] = IF v = w THEN e ELSE pc[v]
                           /\ job'[v] = IF v = w THEN i ELSE job[v]
    BY <1>1, <2>2 DEF BaseInv, WorkersOK
  <2>4. pc' \in [Workers -> Labels \cup {"idle"}] /\ job' \in [Workers -> Nat]
    BY <1>1, <1>2, <2>1, <2>2 DEF BaseInv, WorkersOK
  <2> QED BY <1>2, <2>1, <2>2, <2>3, <2>4 DEF BaseInv, WorkersOK
<1>7. StoreTypeOK'
  BY <1>5 DEF Claim, BaseInv, StoreTypeOK, RowOnly, JobRow, storage
<1>8. JobsOK'
  BY <1>3, <1>4, <1>5 DEF Claim, BaseInv, JobsOK, RowOnly
<1>9. HeldOK'
  <2>1. job[w] = 0
    BY DEF Claim, BaseInv, WorkersOK
  <2>2. \A v \in Workers : job[v] # i
    BY <1>2, <1>3 DEF BaseInv, HeldOK
  <2>3. \A v \in Workers : job'[v] = IF v = w THEN i ELSE job[v]
    BY <1>1 DEF BaseInv, WorkersOK
  <2>4. \A v \in Workers : job'[v] # 0 =>
          /\ job'[v] \in JobIds' /\ jobs'[job'[v]].stage = WorkerStage[v]
          /\ \/ jobs'[job'[v]].row.status = "processing"
             \/ jobs'[job'[v]].row.status = "removed" /\ status'[jobs'[job'[v]].doc] = "purged"
    <3>1. status' = status
      BY DEF Claim
    <3> QED BY <1>1, <1>4, <1>5, <2>2, <2>3, <3>1 DEF BaseInv, HeldOK, RowOnly
  <2> QED BY <2>1, <2>2, <2>3, <2>4 DEF BaseInv, HeldOK
<1>10. RequestsOK' /\ FreshOK'
  BY DEF Claim, BaseInv, RequestsOK, FreshOK
<1> QED BY <1>1, <1>5, <1>6, <1>7, <1>8, <1>9, <1>10 DEF Claim, BaseInv
-----------------------------------------------------------------------------
(* The steps of the handlers that are not moves of their own.                *)

LEMMA CutTyped ==
  ASSUME NEW d \in Docs, NEW by \in Strategies
  PROVE  /\ CutChunks(d, by) \subseteq ChunkRow
         /\ \A c \in CutChunks(d, by) : c.doc = d /\ c.by = by
<1> DEFINE n == IF info[d].content \in Tabular THEN 1 ELSE Pieces[by]
<1>1. n \in Nat
  BY StoreAssumption
<1> HIDE DEF n
<1>2. \A k \in 1 .. n : [doc |-> d, index |-> k, by |-> by] \in ChunkRow
  BY <1>1 DEF ChunkRow
<1>3. CutChunks(d, by) = {[doc |-> d, index |-> k, by |-> by] : k \in 1 .. n}
  BY DEF CutChunks, n
<1> QED BY <1>2, <1>3

(* Points are of documents. *)
LEMMA PointsTyped == \A cs \in SUBSET ChunkRow : PointIds(cs) \subseteq Docs \X Nat
BY DEF PointIds, ChunkRow

\* A step of a handler's body, or of its except branch, that only writes.
Moves(w) ==
  /\ pc[w] # "idle" /\ Soft /\ UNCHANGED <<req, issued>>
  /\ Except(w) \/ \E next : Along(w, pc[w], next) /\ Goto(w, next)

(* A step to another label or to the except branch, with no job touched, keeps the invariant. *)
LEMMA MovesKeep ==
  ASSUME BaseInv, NEW w \in Workers, Moves(w)
  PROVE  BaseInv' /\ Soft
<1>1. WorkersOK' /\ job' = job
  <2>1. CASE Except(w)
    BY <2>1, ExceptKeeps DEF Moves, BaseInv
  <2>2. CASE \E next : Along(w, pc[w], next) /\ Goto(w, next)
    BY <2>2, AlongGoto
  <2> QED BY <2>1, <2>2 DEF Moves
<1> QED BY <1>1, SoftKeeps DEF Moves

(* The steps of the ingest worker: the file, ... *)
LEMMA FetchKeeps ==
  ASSUME BaseInv, NEW w \in Workers, FetchAndParse(w), UNCHANGED <<req, issued>>
  PROVE  BaseInv' /\ Soft
<1>1. Soft
  BY SoftStore, Unmoved DEF FetchAndParse, store, rows, storage
<1>2. {"fetch", "mindsdb", "no_text", "parsed"} \subseteq IngestLabels
  BY DEF IngestLabels, IngestBody
<1>3. pc[w] # "idle" /\ (Except(w) \/ \E next : Along(w, pc[w], next) /\ Goto(w, next))
  BY <1>2, LabelFacts DEF FetchAndParse, Along
<1> QED BY <1>1, <1>3, MovesKeep DEF Moves

(* ... the upload to MindsDB, ... *)
LEMMA UploadTableKeeps ==
  ASSUME BaseInv, NEW w \in Workers, UploadTable(w), UNCHANGED <<req, issued>>
  PROVE  BaseInv' /\ Soft
<1>1. {"mindsdb", "parsed"} \subseteq IngestLabels
  BY DEF IngestLabels, IngestBody
<1>2. pc[w] # "idle" /\ Along(w, pc[w], "parsed")
  BY <1>1, LabelFacts DEF UploadTable, Along
<1>3. tables' \subseteq Docs /\ faults' \in 0 .. MaxFaults
  BY <1>2, Unmoved, FaultCounted, RunFacts DEF UploadTable
<1>4. Soft
  BY <1>3, SoftStore, Unmoved DEF UploadTable, rows
<1> QED BY <1>2, <1>4, MovesKeep DEF Moves, UploadTable

(* ... the cut ... *)
LEMMA CutKeeps ==
  ASSUME BaseInv, NEW w \in Workers, Cut(w), UNCHANGED <<req, issued>>
  PROVE  BaseInv' /\ Soft
<1>1. {"cut", "no_chunks", "insert"} \subseteq IngestLabels
  BY DEF IngestLabels, IngestBody
<1>2. pc[w] # "idle" /\ \E next : Along(w, pc[w], next) /\ Goto(w, next)
  BY <1>1, LabelFacts DEF Cut, Along
<1>3. Soft
  BY SoftStore, Unmoved DEF Cut, store, rows, storage
<1> QED BY <1>2, <1>3, MovesKeep DEF Moves

(* ... and the insert of the chunks. *)
LEMMA InsertChunksKeeps ==
  ASSUME BaseInv, NEW w \in Workers, InsertChunks(w), UNCHANGED <<req, issued>>
  PROVE  BaseInv' /\ Soft
<1>1. {"insert", "chunked"} \subseteq IngestLabels
  BY DEF IngestLabels, IngestBody
<1>2. pc[w] # "idle" /\ Along(w, pc[w], "chunked")
  BY <1>1, LabelFacts DEF InsertChunks, Along
<1>3. CASE Exists(DocOf(w))
  <2>1. chunks' \subseteq ChunkRow
    BY <1>2, <1>3, RunFacts, CutTyped, Unmoved DEF InsertChunks, MergeChunks
  <2>2. "chunked" \in DocStatus \ {"absent", "purged"}
    BY DEF DocStatus
  <2>3. /\ status' \in [Docs -> DocStatus]
        /\ \A d \in Docs : /\ status'[d] = "absent" <=> status[d] = "absent"
                           /\ status'[d] = "purged" <=> status[d] = "purged"
    BY <1>2, <1>3, <2>2, RunFacts, StatusWritten DEF InsertChunks, BaseInv
  <2>4. Soft
    BY <2>1, <2>3, JobsUnchanged DEF InsertChunks, BaseInv, StoreTypeOK, ChunkRow, storage, Soft
  <2> QED BY <1>2, <1>3, <2>4, MovesKeep DEF Moves, InsertChunks
<1>4. CASE ~Exists(DocOf(w))
  <2>1. Soft
    BY <1>4, SoftStore, Unmoved DEF InsertChunks, storage
  <2> QED BY <1>2, <1>4, <2>1, MovesKeep DEF Moves, InsertChunks
<1> QED BY <1>3, <1>4

(* The steps of the embed worker: the guard, ... *)
LEMMA GuardKeeps ==
  ASSUME BaseInv, NEW w \in Workers, Guard(w), UNCHANGED <<req, issued>>
  PROVE  BaseInv' /\ Soft
<1>1. {"guard", "embed", "embed_ack"} \subseteq EmbedLabels
  BY DEF EmbedLabels, EmbedBody
<1>2. pc[w] # "idle" /\ \E next : Along(w, pc[w], next) /\ Goto(w, next)
  BY <1>1, LabelFacts DEF Guard, Along
<1>3. Soft
  BY SoftStore, Unmoved DEF Guard, store, rows, storage
<1> QED BY <1>2, <1>3, MovesKeep DEF Moves

(* ... the read of the chunks, ... *)
LEMMA LoadKeeps ==
  ASSUME BaseInv, NEW w \in Workers, LoadChunks(w), UNCHANGED <<req, issued>>
  PROVE  BaseInv' /\ Soft
<1> DEFINE next == IF ChunksOf(DocOf(w)) = {} THEN "nothing" ELSE "upsert"
<1>1. {"load", "nothing", "upsert"} \subseteq EmbedLabels
  BY DEF EmbedLabels, EmbedBody
<1>2. next \in Labels /\ next # "idle" /\ pc[w] # "idle" /\ LabelStage(next) = LabelStage(pc[w])
  BY <1>1, LabelFacts DEF LoadChunks
<1>3. ChunksOf(DocOf(w)) \in SUBSET ChunkRow
  BY Unmoved DEF ChunksOf
<1>4. /\ pc' = [pc EXCEPT ![w] = next] /\ job' = job
      /\ loaded' = [loaded EXCEPT ![w] = ChunksOf(DocOf(w))]
  BY DEF LoadChunks
<1> HIDE DEF next
<1>5. WorkersOK'
  BY <1>2, <1>3, <1>4 DEF BaseInv, WorkersOK
<1>6. Soft
  BY SoftStore, Unmoved DEF LoadChunks, store, rows, storage
<1> QED BY <1>4, <1>5, <1>6, SoftKeeps

(* What the steps at "upsert" .. "retry" share: they write the collection. *)
LEMMA CollectionKeeps ==
  ASSUME BaseInv, NEW w \in Workers,
         pc[w] \in {"upsert", "heal", "create", "retry"},
         Except(w) \/ \E next \in EmbedLabels : Goto(w, next),
         vectors' \subseteq vectors \cup PointIds(loaded[w]),
         collection' \in {"right", "wrong", "missing"}, faults' \in 0 .. MaxFaults,
         UNCHANGED <<rows, objects, tables, req, issued>>
  PROVE  BaseInv' /\ Soft
<1>1. {"upsert", "heal", "create", "retry"} \subseteq EmbedLabels
  BY DEF EmbedLabels, EmbedBody
<1>2. pc[w] # "idle" /\ (Except(w) \/ \E next : Along(w, pc[w], next) /\ Goto(w, next))
  BY <1>1, LabelFacts DEF Along
<1>3. vectors' \subseteq Docs \X Nat
  BY PointsTyped, Unmoved DEF BaseInv, WorkersOK
<1>4. Soft
  BY <1>3, SoftStore, Unmoved DEF rows
<1> QED BY <1>2, <1>4, MovesKeep DEF Moves

(* ... the upsert ... *)
LEMMA UpsertKeeps ==
  ASSUME BaseInv, NEW w \in Workers, UNCHANGED <<req, issued>>,
         Upsert(w) \/ UpsertPart(w) \/ DropCollection(w) \/ CreateCollection(w) \/ RetryUpsert(w)
  PROVE  BaseInv' /\ Soft
<1>1. {"commit", "heal", "create", "retry"} \subseteq EmbedLabels
  BY DEF EmbedLabels, EmbedBody
<1>2. collection \in {"right", "wrong", "missing"} /\ faults \in 0 .. MaxFaults
  BY Unmoved
<1>3. CASE Upsert(w)
  BY <1>1, <1>2, <1>3, CollectionKeeps DEF Upsert
<1>4. CASE UpsertPart(w)
  BY <1>2, <1>4, CollectionKeeps, FaultCounted DEF UpsertPart
<1>5. CASE DropCollection(w)
  BY <1>1, <1>2, <1>5, CollectionKeeps DEF DropCollection
<1>6. CASE CreateCollection(w)
  BY <1>1, <1>2, <1>6, CollectionKeeps DEF CreateCollection
<1>7. CASE RetryUpsert(w)
  BY <1>1, <1>2, <1>7, CollectionKeeps DEF RetryUpsert
<1> QED BY <1>3, <1>4, <1>5, <1>6, <1>7

(* ... and the commit. *)
LEMMA CommitKeeps ==
  ASSUME BaseInv, NEW w \in Workers, CommitEmbedded(w), UNCHANGED <<req, issued>>
  PROVE  BaseInv' /\ Soft
<1>1. {"commit", "embedded", "embed_ack"} \subseteq EmbedLabels
  BY DEF EmbedLabels, EmbedBody
<1>2. pc[w] # "idle" /\ \E next : Along(w, pc[w], next) /\ Goto(w, next)
  BY <1>1, LabelFacts DEF CommitEmbedded, Along
<1>3. Soft
  <2>1. "embedded" \in DocStatus \ {"absent", "purged"} /\ DocOf(w) \in Docs
    BY <1>2, RunFacts DEF DocStatus
  <2>2. CASE loaded[w] \subseteq chunks
    BY <2>1, <2>2, SoftStatus, Unmoved DEF CommitEmbedded
  <2>3. CASE ~(loaded[w] \subseteq chunks)
    BY <2>3, SoftStore, Unmoved DEF CommitEmbedded, storage
  <2> QED BY <2>2, <2>3
<1> QED BY <1>2, <1>3, MovesKeep DEF Moves
-----------------------------------------------------------------------------
(* The steps of the workers.                                                 *)

\* No document comes or goes.
SameDocuments ==
  \A d \in Docs : /\ status'[d] = "absent" <=> status[d] = "absent"
                  /\ status'[d] = "purged" <=> status[d] = "purged"

\* Documents are inserted once and deleted once, and a job stays what it is.
Forward ==
  /\ SameDocuments \/ (\E c \in Clients : InsertDocument(c)) \/ (\E w \in Workers : PurgeRow(w))
  /\ \A d \in Docs : /\ status[d] = "purged" => status'[d] = "purged"
                     /\ status[d] # "absent" => status'[d] # "absent"
  /\ \A i \in JobIds : /\ i \in JobIds' /\ jobs'[i].stage = jobs[i].stage
                       /\ jobs'[i].doc = jobs[i].doc /\ jobs'[i].by = jobs[i].by

(* A soft step goes forward. *)
LEMMA SoftForward == Soft => Forward
BY DEF Soft, JobsAdded, SameDocuments, Forward

(* So does one that writes a job's row. *)
LEMMA RowForward ==
  ASSUME NEW i, NEW r, RowOnly(i, r), status' = status
  PROVE  Forward
BY DEF RowOnly, SameDocuments, Forward

(* The moves of a handler keep the invariant and go forward. *)
LEMMA MoveKeeps ==
  ASSUME BaseInv, NEW w \in Workers, UNCHANGED <<req, issued>>,
         NEW here \in Labels, NEW next \in Labels, LabelStage(here) = LabelStage(next)
  PROVE  /\ \A st \in StageNames, s \in StageStatus :
              WriteStage(w, here, st, s, next) => BaseInv' /\ Forward
         /\ \A s \in DocStatus \ {"absent", "purged"} :
              WriteStatus(w, here, s, next) => BaseInv' /\ Forward
         /\ \A st \in JobStages : EnqueueNext(w, here, st, next) => BaseInv' /\ Forward
<1>1. ASSUME pc[w] = here PROVE Along(w, here, next)
  BY <1>1 DEF Along
<1>2. ASSUME NEW st \in StageNames, NEW s \in StageStatus, WriteStage(w, here, st, s, next)
      PROVE  BaseInv' /\ Forward
  <2>1. pc[w] = here
    BY <1>2 DEF WriteStage
  <2> QED BY <1>1, <1>2, <2>1, WriteStageKeeps, SoftForward
<1>3. ASSUME NEW s \in DocStatus \ {"absent", "purged"}, WriteStatus(w, here, s, next)
      PROVE  BaseInv' /\ Forward
  <2>1. pc[w] = here
    BY <1>3 DEF WriteStatus
  <2> QED BY <1>1, <1>3, <2>1, WriteStatusKeeps, SoftForward
<1>4. ASSUME NEW st \in JobStages, EnqueueNext(w, here, st, next)
      PROVE  BaseInv' /\ Forward
  <2>1. pc[w] = here
    BY <1>4 DEF EnqueueNext
  <2> QED BY <1>1, <1>4, <2>1, EnqueueNextKeeps, SoftForward
<1> QED BY <1>2, <1>3, <1>4

(* So do its ack and its nack. *)
LEMMA EndingKeeps ==
  ASSUME BaseInv, NEW w \in Workers, NEW here \in Labels, UNCHANGED <<req, issued>>,
         AckJob(w, here) \/ NackJob(w, here)
  PROVE  BaseInv' /\ Forward
<1>1. status' = status
  BY DEF AckJob, NackJob
<1> QED BY <1>1, AckJobKeeps, NackJobKeeps, RowForward

(* Every step of an ingest worker keeps the invariant and goes forward, ... *)
LEMMA IngestKeeps ==
  ASSUME BaseInv, NEW w \in Workers, IngestStep(w) \/ IngestFault(w), UNCHANGED <<req, issued>>
  PROVE  BaseInv' /\ Forward
<1>1. \A l \in IngestLabels : l \in Labels /\ LabelStage(l) = "ingest"
  BY LabelFacts
<1>2. CASE \/ WriteStage(w, "parse", "parse", "processing", "parsing")
           \/ WriteStage(w, "no_text", "parse", "failed", "parse_failed")
           \/ WriteStage(w, "parsed", "parse", "done", "chunk")
           \/ WriteStage(w, "chunk", "chunk", "processing", "cut")
           \/ WriteStage(w, "no_chunks", "chunk", "failed", "chunk_failed")
           \/ WriteStage(w, "chunked", "chunk", "done", "next")
           \/ WriteStage(w, "ingest_failed", "parse", "failed", "ingest_error")
  BY <1>1, <1>2, MoveKeeps DEF StageNames, StageStatus, IngestLabels, IngestBody, IngestExcept
<1>3. CASE \/ WriteStatus(w, "parsing", "parsing", "fetch")
           \/ WriteStatus(w, "parse_failed", "parse_failed", "ingest_ack")
           \/ WriteStatus(w, "chunk_failed", "chunk_failed", "ingest_ack")
           \/ WriteStatus(w, "ingest_error", "error", "ingest_nack")
  BY <1>1, <1>3, MoveKeeps DEF DocStatus, Terminal, Failed, IngestLabels, IngestBody, IngestExcept
<1>4. CASE EnqueueNext(w, "next", "embed", "ingest_ack")
  BY <1>1, <1>4, MoveKeeps DEF JobStages, IngestLabels, IngestBody
<1>5. CASE FetchAndParse(w) \/ UploadTable(w) \/ Cut(w) \/ InsertChunks(w)
  BY <1>5, FetchKeeps, UploadTableKeeps, CutKeeps, InsertChunksKeeps, SoftForward
<1>6. CASE AckJob(w, "ingest_ack") \/ NackJob(w, "ingest_nack")
  BY <1>1, <1>6, EndingKeeps DEF IngestLabels, IngestBody, IngestExcept
<1>7. CASE IngestFault(w)
  <2>1. IngestBody \in SUBSET Labels
    BY <1>1 DEF IngestLabels
  <2> QED BY <1>7, <2>1, RaiseKeeps, AbandonKeeps, SoftForward DEF IngestFault
<1> QED BY <1>2, <1>3, <1>4, <1>5, <1>6, <1>7 DEF IngestStep

(* ... and every step of an embed worker, ... *)
LEMMA EmbedKeeps ==
  ASSUME BaseInv, NEW w \in Workers, EmbedStep(w) \/ EmbedFault(w), UNCHANGED <<req, issued>>
  PROVE  BaseInv' /\ Forward
<1>1. \A l \in EmbedLabels : l \in Labels /\ LabelStage(l) = "embed"
  BY LabelFacts
<1>2. CASE \/ WriteStage(w, "embed", "embed", "processing", "embedding")
           \/ WriteStage(w, "nothing", "embed", "failed", "nothing_failed")
           \/ WriteStage(w, "embedded", "embed", "done", "to_index")
           \/ WriteStage(w, "embed_failed", "embed", "failed", "embed_error")
  BY <1>1, <1>2, MoveKeeps DEF StageNames, StageStatus, EmbedLabels, EmbedBody, EmbedExcept
<1>3. CASE \/ WriteStatus(w, "embedding", "embedding", "load")
           \/ WriteStatus(w, "nothing_failed", "embed_failed", "embed_ack")
           \/ WriteStatus(w, "embed_error", "embed_failed", "embed_nack")
  BY <1>1, <1>3, MoveKeeps DEF DocStatus, Terminal, Failed, EmbedLabels, EmbedBody, EmbedExcept
<1>4. CASE EnqueueNext(w, "to_index", "index", "embed_ack")
  BY <1>1, <1>4, MoveKeeps DEF JobStages, EmbedLabels, EmbedBody
<1>5. CASE Guard(w) \/ LoadChunks(w) \/ CommitEmbedded(w)
  BY <1>5, GuardKeeps, LoadKeeps, CommitKeeps, SoftForward
<1>6. CASE Upsert(w) \/ UpsertPart(w) \/ DropCollection(w) \/ CreateCollection(w) \/ RetryUpsert(w)
  BY <1>6, UpsertKeeps, SoftForward
<1>7. CASE AckJob(w, "embed_ack") \/ NackJob(w, "embed_nack")
  BY <1>1, <1>7, EndingKeeps DEF EmbedLabels, EmbedBody, EmbedExcept
<1>8. CASE Raise(w, EmbedBody) \/ Abandon(w, EmbedExcept)
  <2>1. EmbedBody \in SUBSET Labels
    BY <1>1 DEF EmbedLabels
  <2> QED BY <1>8, <2>1, RaiseKeeps, AbandonKeeps, SoftForward
<1> QED BY <1>2, <1>3, <1>4, <1>5, <1>6, <1>7, <1>8 DEF EmbedStep, EmbedFault

(* ... of an index worker ... *)
LEMMA IndexKeeps ==
  ASSUME BaseInv, NEW w \in Workers, IndexStep(w) \/ IndexFault(w), UNCHANGED <<req, issued>>
  PROVE  BaseInv' /\ Forward
<1>1. \A l \in IndexLabels : l \in Labels /\ LabelStage(l) = "index"
  BY LabelFacts
<1>2. CASE \/ WriteStage(w, "index", "index", "processing", "fts")
           \/ WriteStage(w, "indexed", "index", "done", "index_ack")
           \/ WriteStage(w, "index_failed", "index", "failed", "index_nack")
  BY <1>1, <1>2, MoveKeeps DEF StageNames, StageStatus, IndexLabels, IndexBody, IndexExcept
<1>3. CASE WriteStatus(w, "fts", "indexed", "indexed")
  BY <1>1, <1>3, MoveKeeps DEF DocStatus, Terminal, IndexLabels, IndexBody
<1>4. CASE AckJob(w, "index_ack") \/ NackJob(w, "index_nack")
  BY <1>1, <1>4, EndingKeeps DEF IndexLabels, IndexBody, IndexExcept
<1>5. CASE IndexFault(w)
  <2>1. IndexBody \in SUBSET Labels
    BY <1>1 DEF IndexLabels
  <2> QED BY <1>5, <2>1, RaiseKeeps, AbandonKeeps, SoftForward DEF IndexFault
<1> QED BY <1>2, <1>3, <1>4, <1>5 DEF IndexStep

(* The last step of a purge. *)
LEMMA DeleteKeeps ==
  ASSUME BaseInv, NEW w \in Workers, PurgeRow(w), UNCHANGED <<req, issued>>
  PROVE  BaseInv' /\ Forward
<1> DEFINE d == DocOf(w)
<1>1. "row" \in PurgeLabels /\ pc[w] = "row"
  BY DEF PurgeLabels, PurgeRow
<1>2. pc[w] # "idle" /\ d \in Docs
  BY <1>1, LabelFacts, RunFacts
<1>3. WorkersOK' /\ job' = [job EXCEPT ![w] = 0]
  BY ReturnKeeps DEF PurgeRow, BaseInv
<1> HIDE DEF d
<1>4. \A v \in Workers : job'[v] = IF v = w THEN 0 ELSE job[v]
  BY <1>3 DEF BaseInv, WorkersOK
<1>5. CASE ~Exists(d)
  <2>1. Soft
    BY <1>5, SoftStore, Unmoved DEF PurgeRow, DeleteDoc, d, rows, storage
  <2>2. HeldOK'
    <3>1. \A i \in JobIds : jobs[i].doc \in Docs
      BY JobsAreRows DEF BaseInv, StoreTypeOK, JobIds, JobRow
    <3> QED BY <1>4, <2>1, <3>1 DEF BaseInv, HeldOK, Soft, JobsAdded
  <2> QED BY <1>3, <2>1, <2>2, SoftKeepsJobs, SoftKeepsRequests, SoftForward DEF BaseInv, Soft
<1>6. CASE Exists(d)
  <2> DEFINE S == {i \in JobIds : jobs[i].doc = d}
  <2>1. /\ jobs' = [i \in DOMAIN jobs |-> IF i \in S THEN [jobs[i] EXCEPT !.row = RemovedRow]
                                          ELSE jobs[i]]
        /\ status' = [status EXCEPT ![d] = "purged"] /\ info' = info
        /\ stage' = [stage EXCEPT ![d] = [s \in StageNames |-> "none"]]
        /\ chunks' \subseteq chunks
        /\ UNCHANGED <<storage, faults>>
    BY <1>6 DEF PurgeRow, DeleteDoc, d, JobIds
  <2>2. jobs \in Seq(JobRow)
    BY DEF BaseInv, StoreTypeOK, JobRow
  <2>3. /\ jobs' \in Seq(JobRow) /\ JobIds' = JobIds
        /\ \A k \in JobIds : /\ jobs'[k].stage = jobs[k].stage /\ jobs'[k].doc = jobs[k].doc
                             /\ jobs'[k].by = jobs[k].by
                             /\ jobs'[k].row = IF k \in S THEN RemovedRow ELSE jobs[k].row
    <3> DEFINE f(k) == IF k \in S THEN [jobs[k] EXCEPT !.row = RemovedRow] ELSE jobs[k]
    <3> HIDE DEF S
    <3>1. jobs' = [k \in DOMAIN jobs |-> f(k)]
      BY <2>1
    <3>2. \A k \in DOMAIN jobs : jobs[k] \in JobRow
      BY <2>2, JobsAreRows
    <3>3. \A k \in DOMAIN jobs :
            /\ f(k) \in JobRow /\ f(k).stage = jobs[k].stage /\ f(k).doc = jobs[k].doc
            /\ f(k).by = jobs[k].by /\ f(k).row = IF k \in S THEN RemovedRow ELSE jobs[k].row
      BY <3>2, RowFacts, RowReplaced
    <3> HIDE DEF f
    <3>4. jobs' = [k \in DOMAIN jobs |-> jobs'[k]] /\ \A k \in DOMAIN jobs : jobs'[k] = f(k)
      BY <3>1
    <3>5. jobs' \in Seq(JobRow) /\ DOMAIN jobs' = DOMAIN jobs
      BY <2>2, <3>3, <3>4, JobsRewritten
    <3> QED BY <3>3, <3>4, <3>5 DEF JobIds
  <2>4. \A e \in Docs : status'[e] = IF e = d THEN "purged" ELSE status[e]
    BY <2>1, <1>2 DEF BaseInv, StoreTypeOK
  <2>5. StoreTypeOK'
    <3>1. status' \in [Docs -> DocStatus]
      BY <2>1 DEF BaseInv, StoreTypeOK, DocStatus
    <3>2. stage' \in [Docs -> [StageNames -> StageStatus]]
      BY <2>1 DEF BaseInv, StoreTypeOK, StageStatus
    <3> QED BY <2>1, <2>3, <3>1, <3>2 DEF BaseInv, StoreTypeOK, StageStatus, JobRow, storage
  <2>6. JobsOK'
    <3> SUFFICES ASSUME NEW i \in JobIds
                 PROVE  /\ status'[jobs'[i].doc] # "absent"
                        /\ jobs'[i].row.status # "absent"
                        /\ status'[jobs'[i].doc] = "purged" => jobs'[i].row.status = "removed"
      BY <2>3 DEF JobsOK
    <3>1. jobs[i].doc \in Docs
      BY <2>2, JobsAreRows DEF JobIds
    <3> QED BY <2>3, <2>4, <3>1, RowFacts DEF BaseInv, JobsOK
  <2>7. HeldOK'
    <3>1. \A i \in JobIds : jobs[i].doc \in Docs
      BY <2>2, JobsAreRows DEF JobIds
    <3> QED BY <1>4, <2>3, <2>4, <3>1, RowFacts DEF BaseInv, HeldOK
  <2>8. RequestsOK'
    BY DEF BaseInv, RequestsOK
  <2>9. FreshOK'
    <3>1. \A c \in Clients :
            /\ req[c].at \in Fresh \cup (Early \ {"reprocess", "delete"}) => req[c].doc \in Docs
            /\ req[c].at \in {"replace", "purge_old"} => req[c].old \in Docs
      BY DEF BaseInv, RequestsOK, Fresh, Early
    <3> QED BY <1>6, <2>4, <3>1 DEF BaseInv, FreshOK, Exists
  <2>10. Forward
    BY <2>3, <2>4 DEF Forward
  <2> QED BY <1>3, <2>5, <2>6, <2>7, <2>8, <2>9, <2>10 DEF BaseInv
<1> QED BY <1>5, <1>6

(* ... and of a purge worker. *)
LEMMA PurgeKeeps ==
  ASSUME BaseInv, NEW w \in Workers, PurgeStep(w) \/ PurgeFault(w), UNCHANGED <<req, issued>>
  PROVE  BaseInv' /\ Forward
<1>1. \A l \in PurgeLabels : l \in Labels /\ l # "idle" /\ LabelStage(l) = "purge"
  BY LabelFacts
<1>2. CASE PurgeVectors(w) \/ PurgeTable(w) \/ PurgeObject(w)
  <2>1. faults' \in 0 .. MaxFaults
    BY <1>2, Unmoved, FaultCounted DEF PurgeVectors, PurgeTable, PurgeObject
  <2>2. vectors' \subseteq vectors /\ tables' \subseteq tables /\ objects' \subseteq objects
    BY <1>2 DEF PurgeVectors, PurgeTable, PurgeObject
  <2>3. UNCHANGED <<rows, collection>>
    BY <1>2 DEF PurgeVectors, PurgeTable, PurgeObject
  <2>4. Soft
    BY <2>1, <2>2, <2>3, SoftStore, Unmoved DEF rows
  <2>5. pc[w] # "idle" /\ \E next : Along(w, pc[w], next) /\ Goto(w, next)
    BY <1>1, <1>2 DEF PurgeVectors, PurgeTable, PurgeObject, Along, PurgeLabels
  <2> QED BY <2>4, <2>5, MovesKeep, SoftForward DEF Moves
<1>3. CASE PurgeRow(w)
  BY <1>3, DeleteKeeps
<1>4. CASE MarkPurgeError(w)
  <2>1. pc[w] # "idle" /\ Along(w, pc[w], "purge_nack") /\ Goto(w, "purge_nack")
    BY <1>1, <1>4 DEF MarkPurgeError, Along, PurgeLabels
  <2>2. faults' \in 0 .. MaxFaults
    BY <1>4, Unmoved, FaultCounted DEF MarkPurgeError
  <2>3. "error" \in DocStatus \ {"absent", "purged"} /\ DocOf(w) \in Docs
    BY <2>1, RunFacts DEF DocStatus, Terminal, Failed
  <2>4. ASSUME SetStatus(DocOf(w), "error") PROVE Soft
    BY <1>4, <2>2, <2>3, <2>4, SoftStatus DEF MarkPurgeError
  <2>5. ASSUME UNCHANGED status PROVE Soft
    BY <1>4, <2>2, <2>5, SoftStore, Unmoved DEF MarkPurgeError, storage
  <2> QED BY <1>4, <2>1, <2>4, <2>5, MovesKeep, SoftForward DEF Moves, MarkPurgeError
<1>5. CASE NackJob(w, "purge_nack")
  BY <1>1, <1>5, EndingKeeps DEF PurgeLabels
<1>6. CASE PurgeFault(w)
  <2>1. {"row"} \in SUBSET Labels
    BY <1>1 DEF PurgeLabels
  <2> QED BY <1>6, <2>1, RaiseKeeps, AbandonKeeps, SoftForward DEF PurgeFault
<1> QED BY <1>2, <1>3, <1>4, <1>5, <1>6 DEF PurgeStep

(* Every step of a worker does. *)
LEMMA WorkerKeeps ==
  ASSUME BaseInv, WorkerNext
  PROVE  BaseInv' /\ Forward
<1>1. PICK w \in Workers : Claim(w) \/ Step(w) \/ Fault(w)
  BY DEF WorkerNext
<1>2. UNCHANGED <<req, issued>>
  BY DEF WorkerNext
<1>3. CASE Claim(w)
  <2>1. status' = status
    BY <1>3 DEF Claim
  <2> QED BY <1>2, <1>3, <2>1, ClaimKeeps, RowForward
<1>4. CASE Step(w) \/ Fault(w)
  BY <1>2, <1>4, IngestKeeps, EmbedKeeps, IndexKeeps, PurgeKeeps DEF Step, Fault
<1> QED BY <1>1, <1>3, <1>4
-----------------------------------------------------------------------------
(* The steps of the requests.                                                *)

\* What a request at its label carries, as RequestsOK says it of every client.
Carries(r) ==
  /\ r \in Request
  /\ r.at # "idle" => r.doc \in Docs
  /\ r.at \in Fresh => r.content \in Contents /\ r.name \in Names
  /\ r.at \in (Fresh \cup Early) \ {"delete", "purge"} => r.by \in Strategies
  /\ r.at \in {"replace", "purge_old"} => r.old \in Docs
  /\ r.at = "reset" => r.reset \in 0 .. 3
  /\ r.at \notin {"reset", "enqueue"} => r.reset = 0

(* Every request carries what its label needs. *)
LEMMA RequestCarries == BaseInv => \A c \in Clients : Carries(req[c])
BY DEF BaseInv, RequestsOK, Carries

\* A request goes on, about a document that is there or about one of its own.
Follows(r, old) ==
  /\ r.at \in Fresh => old.at \in Fresh /\ r.doc = old.doc
  /\ r.at \in Early \ {"reprocess", "delete"} => status[r.doc] # "absent"
  /\ r.at \in {"replace", "purge_old"} => status[r.old] # "absent"

(* A request that goes on with what its new label needs keeps the invariant. *)
LEMMA RequestWritten ==
  ASSUME BaseInv, NEW c \in Clients, NEW r, Carries(r), Follows(r, req[c]),
         req' = [req EXCEPT ![c] = r], Soft, UNCHANGED handlers,
         issued' \in [upload : 0 .. Cardinality(Docs), reprocess : Nat, delete : Nat],
         issued'.upload = issued.upload
  PROVE  BaseInv' /\ Forward
<1>1. \A b \in Clients : req'[b] = IF b = c THEN r ELSE req[b]
  BY DEF BaseInv, RequestsOK
<1>2. \A b \in Clients : Carries(req[b])
  BY RequestCarries
<1>3. RequestsOK'
  <2>1. req' \in [Clients -> Request]
    BY DEF BaseInv, RequestsOK, Carries
  <2> QED BY <1>1, <1>2, <2>1 DEF RequestsOK, Carries
<1>4. FreshOK'
  <2>1. \A d \in Docs : d > issued'.upload => status'[d] = "absent"
    BY DEF BaseInv, FreshOK, Soft
  <2>2. \A b \in Clients :
          /\ req[b].at \in Fresh \cup Early => req[b].doc \in Docs
          /\ req[b].at \in {"replace", "purge_old"} => req[b].old \in Docs
    BY <1>2 DEF Carries, Fresh, Early
  <2>3. /\ r.at \in Fresh \cup Early => r.doc \in Docs
        /\ r.at \in {"replace", "purge_old"} => r.old \in Docs
    BY DEF Carries, Fresh, Early
  <2>4. ASSUME NEW b \in Clients
        PROVE  /\ req'[b].at \in Fresh => status'[req'[b].doc] = "absent" /\ req'[b].doc <= issued'.upload
               /\ req'[b].at \in Early \ {"reprocess", "delete"} => status'[req'[b].doc] # "absent"
               /\ req'[b].at \in {"replace", "purge_old"} => status'[req'[b].old] # "absent"
    <3> DEFINE x == IF b = c THEN r ELSE req[b]
    <3>1. req'[b] = x
      BY <1>1
    <3>2. /\ x.at \in Fresh \cup Early => x.doc \in Docs
          /\ x.at \in {"replace", "purge_old"} => x.old \in Docs
      BY <2>2, <2>3
    <3>3. /\ x.at \in Fresh => status[x.doc] = "absent" /\ x.doc <= issued.upload
          /\ x.at \in Early \ {"reprocess", "delete"} => status[x.doc] # "absent"
          /\ x.at \in {"replace", "purge_old"} => status[x.old] # "absent"
      <4>1. FreshOK
        BY DEF BaseInv
      <4>2. CASE b # c
        BY <4>1, <4>2 DEF FreshOK
      <4>3. CASE b = c
        BY <4>1, <4>3 DEF FreshOK, Follows
      <4> QED BY <4>2, <4>3
    <3> HIDE DEF x
    <3> QED BY <3>1, <3>2, <3>3 DEF Soft, Early
  <2>5. ASSUME NEW a \in Clients, NEW b \in Clients,
               req'[a].at \in Fresh, req'[b].at \in Fresh, req'[a].doc = req'[b].doc
        PROVE  a = b
    <3>1. FreshOK
      BY DEF BaseInv
    <3>2. /\ req[a].at \in Fresh /\ req[a].doc = req'[a].doc
          /\ req[b].at \in Fresh /\ req[b].doc = req'[b].doc
      BY <1>1, <2>5 DEF Follows
    <3> QED BY <2>5, <3>1, <3>2 DEF FreshOK
  <2> QED BY <2>1, <2>4, <2>5 DEF FreshOK
<1>5. WorkersOK'
  BY DEF BaseInv, WorkersOK, handlers
<1>6. HeldOK' /\ JobsOK'
  BY SoftKeepsHeld, SoftKeepsJobs DEF BaseInv, handlers
<1> QED BY <1>3, <1>4, <1>5, <1>6, SoftForward DEF BaseInv, Soft

\* Labels a request may go to when it stays about its document.
LEMMA ProceedKeeps ==
  ASSUME BaseInv, NEW c \in Clients, NEW label, Proceed(c, label), Soft, UNCHANGED handlers,
         Carries([req[c] EXCEPT !.at = label]), Follows([req[c] EXCEPT !.at = label], req[c])
  PROVE  BaseInv' /\ Forward
<1>1. req' = [req EXCEPT ![c] = [req[c] EXCEPT !.at = label]] /\ issued' = issued
  BY DEF Proceed
<1>2. issued \in [upload : 0 .. Cardinality(Docs), reprocess : Nat, delete : Nat]
  BY DEF BaseInv, RequestsOK
<1> QED BY <1>1, <1>2, RequestWritten

(* A reply ends the request. *)
LEMMA ReplyKeeps ==
  ASSUME BaseInv, NEW c \in Clients, NEW says \in Says, NEW d \in Docs \cup {0}, Reply(c, says, d),
         Soft, UNCHANGED handlers
  PROVE  BaseInv' /\ Forward
<1> DEFINE r == [Idle EXCEPT !.reply = [says |-> says, doc |-> d]]
<1>1. /\ r \in Request /\ r.at = "idle" /\ r.reset = 0
  BY DEF Request, Idle, Says
<1>2. req' = [req EXCEPT ![c] = r] /\ issued' = issued
  BY DEF Reply
<1> HIDE DEF r
<1>3. Carries(r) /\ Follows(r, req[c])
  BY <1>1 DEF Carries, Follows, Fresh, Early
<1>4. issued \in [upload : 0 .. Cardinality(Docs), reprocess : Nat, delete : Nat]
  BY DEF BaseInv, RequestsOK
<1> QED BY <1>2, <1>3, <1>4, RequestWritten

(* A request that goes on from one label to another one.                     *)
LEMMA Onward ==
  ASSUME BaseInv, NEW c \in Clients, NEW label,
         \/ req[c].at \in {"find", "name"} /\ label \in {"name", "put"}
         \/ req[c].at \in {"replace"} /\ label = "purge_old"
         \/ req[c].at \in {"purge_old", "put"} /\ label \in {"put", "insert"}
         \/ req[c].at \in {"requeue", "uploaded"} /\ label \in {"reset", "enqueue"}
         \/ req[c].at = "reprocess" /\ Exists(req[c].doc) /\ label = "reset"
         \/ req[c].at = "delete" /\ Exists(req[c].doc) /\ label = "purge"
  PROVE  /\ Carries([req[c] EXCEPT !.at = label])
         /\ Follows([req[c] EXCEPT !.at = label], req[c])
<1> DEFINE r == [req[c] EXCEPT !.at = label]
<1>1. Carries(req[c])
  BY RequestCarries
<1>2. /\ req[c] \in Request
      /\ label \in Fresh \cup Early
  BY <1>1 DEF Carries, Fresh, Early
<1>3. /\ r \in Request /\ r.at = label /\ r.doc = req[c].doc /\ r.content = req[c].content
      /\ r.name = req[c].name /\ r.by = req[c].by /\ r.old = req[c].old /\ r.reset = req[c].reset
  BY <1>2 DEF Request
<1> HIDE DEF r
<1>4. Carries(r)
  <2>1. CASE req[c].at \in Fresh
    BY <1>1, <1>3, <2>1 DEF Carries, Fresh, Early
  <2>2. CASE req[c].at \in {"requeue", "uploaded", "reprocess"} /\ label \in {"reset", "enqueue"}
    <3>1. req[c].doc \in Docs /\ req[c].by \in Strategies /\ req[c].reset = 0
      BY <1>1, <2>2 DEF Carries, Early
    <3> QED BY <1>3, <2>2, <3>1 DEF Carries, Fresh
  <2>3. CASE req[c].at = "delete" /\ label = "purge"
    <3>1. req[c].doc \in Docs /\ req[c].reset = 0
      BY <1>1, <2>3 DEF Carries
    <3> QED BY <1>3, <2>3, <3>1 DEF Carries, Fresh
  <2> QED BY <2>1, <2>2, <2>3 DEF Fresh
<1>5. Follows(r, req[c])
  BY <1>3 DEF Follows, BaseInv, FreshOK, Fresh, Early, Exists
<1> QED BY <1>4, <1>5 DEF r

(* An idle client has no document. *)
LEMMA IdleFacts ==
  Idle \in Request /\ Idle.at = "idle" /\ Idle.doc = 0 /\ Idle.old = 0 /\ Idle.reset = 0
BY DEF Idle, NoReply, Request, Says

(* The records that new requests are. *)
UploadOf(r, d, k, n, b) == [r EXCEPT !.at = "find", !.doc = d, !.content = k, !.name = n, !.by = b]
AskOf(r, d, b)          == [r EXCEPT !.at = "reprocess", !.doc = d, !.by = b]
DeleteOf(r, d)          == [r EXCEPT !.at = "delete", !.doc = d]

(* They carry what their labels need: an upload, ... *)
LEMMA UploadBegun ==
  ASSUME NEW d \in Docs, NEW k \in Contents, NEW n \in Names, NEW b \in Strategies, NEW r \in Request
  PROVE  LET m == UploadOf(r, d, k, n, b) IN
         /\ m \in Request /\ m.at = "find" /\ m.doc = d /\ m.content = k /\ m.name = n /\ m.by = b
         /\ m.reset = r.reset
<1>1. /\ "find" \in Fresh \cup Early \cup {"idle"} /\ d \in Docs \cup {0}
      /\ k \in Contents \cup {NoInfo} /\ n \in Names \cup {NoInfo} /\ b \in Strategies \cup {NoInfo}
  BY DEF Fresh
<1> QED BY <1>1 DEF Request, UploadOf

(* ... a reprocess request and a delete request. *)
LEMMA AskBegun ==
  ASSUME NEW d \in Docs, NEW b \in Strategies, NEW r \in Request
  PROVE  /\ LET m == AskOf(r, d, b) IN
            m \in Request /\ m.at = "reprocess" /\ m.doc = d /\ m.by = b /\ m.reset = r.reset
         /\ LET m == DeleteOf(r, d) IN
            m \in Request /\ m.at = "delete" /\ m.doc = d /\ m.reset = r.reset
<1>1. /\ {"reprocess", "delete"} \subseteq Fresh \cup Early \cup {"idle"} /\ d \in Docs \cup {0}
      /\ b \in Strategies \cup {NoInfo}
  BY DEF Early
<1>2. LET m == AskOf(r, d, b) IN
      m \in Request /\ m.at = "reprocess" /\ m.doc = d /\ m.by = b /\ m.reset = r.reset
  BY <1>1 DEF Request, AskOf
<1>3. LET m == DeleteOf(r, d) IN
      m \in Request /\ m.at = "delete" /\ m.doc = d /\ m.reset = r.reset
  BY <1>1 DEF Request, DeleteOf
<1> QED BY <1>2, <1>3

(* An upload gets an id that nobody has. *)
LEMMA UploadStarts ==
  ASSUME BaseInv, NEW c \in Clients, StartUpload(c), UNCHANGED handlers
  PROVE  BaseInv' /\ Forward
<1> DEFINE d == issued.upload + 1
<1>1. PICK content \in Contents, name \in Names, by \in Strategies :
        req' = [req EXCEPT ![c] = UploadOf(Idle, d, content, name, by)]
  BY Zenon DEF StartUpload, Begin, UploadOf
<1> DEFINE r == UploadOf(Idle, d, content, name, by)
<1>2. /\ issued \in [upload : 0 .. Cardinality(Docs), reprocess : Nat, delete : Nat]
      /\ issued.upload < Cardinality(Docs) /\ issued' = [issued EXCEPT !.upload = d]
  BY DEF BaseInv, RequestsOK, StartUpload, Issue
<1>3. Cardinality(Docs) \in Nat /\ Docs = 1 .. Cardinality(Docs)
  BY StoreAssumption, FS_CardinalityType
<1>4. /\ d \in Docs /\ issued'.upload = d /\ issued.upload < d
      /\ issued' \in [upload : 0 .. Cardinality(Docs), reprocess : Nat, delete : Nat]
  BY <1>2, <1>3
<1> HIDE DEF d
<1>5. /\ r \in Request /\ r.at = "find" /\ r.doc = d /\ r.content = content /\ r.name = name
      /\ r.by = by /\ r.reset = 0
  BY <1>4, IdleFacts, UploadBegun
<1> HIDE DEF r
<1>6. Soft
  BY SoftStore, Unmoved DEF StartUpload, store, rows, storage
<1>7. \A b \in Clients : req'[b] = IF b = c THEN r ELSE req[b]
  BY <1>1 DEF r, BaseInv, RequestsOK
<1>8. RequestsOK'
  <2>1. req' \in [Clients -> Request]
    BY <1>1, <1>5 DEF BaseInv, RequestsOK, r
  <2>2. Carries(r)
    BY <1>4, <1>5 DEF Carries, Early
  <2>3. \A b \in Clients : Carries(req'[b])
    BY <1>7, <2>2, RequestCarries
  <2> QED BY <1>4, <2>1, <2>3 DEF RequestsOK, Carries
<1>9. FreshOK'
  <2>1. FreshOK /\ status' = status /\ issued.upload \in Nat /\ issued'.upload = issued.upload + 1
    BY <1>2, <1>4 DEF BaseInv, StartUpload, store, rows, d
  <2>2. \A b \in Clients : /\ req[b].at \in Fresh => req[b].doc \in Docs
                           /\ req[b].doc \in Docs => req[b].doc \in Nat
    BY <1>3 DEF BaseInv, RequestsOK, Fresh
  <2>3. status[d] = "absent"
    BY <1>4, <2>1 DEF FreshOK
  <2>4. \A e \in Docs : e > issued'.upload => status'[e] = "absent"
    BY <1>3, <2>1 DEF FreshOK
  <2>5. ASSUME NEW b \in Clients
        PROVE  /\ req'[b].at \in Fresh => status'[req'[b].doc] = "absent" /\ req'[b].doc <= issued'.upload
               /\ req'[b].at \in Early \ {"reprocess", "delete"} => status'[req'[b].doc] # "absent"
               /\ req'[b].at \in {"replace", "purge_old"} => status'[req'[b].old] # "absent"
    <3>1. CASE b = c
      BY <1>4, <1>5, <1>7, <2>1, <2>3, <3>1, d \in Nat, <1>3 DEF Early
    <3>2. CASE b # c
      BY <1>7, <2>1, <2>2, <3>2 DEF FreshOK
    <3> QED BY <3>1, <3>2
  <2>6. \A b \in Clients : req[b].at \in Fresh => req[b].doc # d
    BY <1>4, <2>1, <2>2 DEF FreshOK
  <2>7. \A a, b \in Clients :
          req'[a].at \in Fresh /\ req'[b].at \in Fresh /\ req'[a].doc = req'[b].doc => a = b
    BY <1>5, <1>7, <2>1, <2>6 DEF FreshOK
  <2> QED BY <2>4, <2>5, <2>7 DEF FreshOK
<1>10. WorkersOK' /\ HeldOK' /\ JobsOK'
  <2>1. WorkersOK'
    BY DEF BaseInv, WorkersOK, handlers
  <2> QED BY <1>6, <2>1, SoftKeepsHeld, SoftKeepsJobs DEF BaseInv, handlers
<1> QED BY <1>6, <1>8, <1>9, <1>10, SoftForward DEF BaseInv, Soft

(* The insert makes it a document's. *)
LEMMA InsertKeeps ==
  ASSUME BaseInv, NEW c \in Clients, InsertDocument(c), UNCHANGED handlers
  PROVE  BaseInv' /\ Forward
<1> DEFINE d == req[c].doc
           r == [req[c] EXCEPT !.at = "uploaded"]
<1>1. Carries(req[c]) /\ req[c].at = "insert" /\ req[c].at \in Fresh
  BY RequestCarries DEF InsertDocument, Fresh
<1>2. /\ d \in Docs /\ req[c].content \in Contents /\ req[c].name \in Names
      /\ req[c].by \in Strategies /\ req[c].reset = 0 /\ req[c] \in Request
  BY <1>1 DEF Carries, Fresh
<1>3. /\ r \in Request /\ r.at = "uploaded" /\ r.doc = d /\ r.by = req[c].by /\ r.reset = 0
  BY <1>2 DEF Request, Early
<1>4. req' = [req EXCEPT ![c] = r] /\ issued' = issued
  BY DEF InsertDocument, Proceed
<1>5. status[d] = "absent"
  BY <1>1 DEF BaseInv, FreshOK
<1>6. /\ status' = [status EXCEPT ![d] = "pending"]
      /\ info' = [info EXCEPT ![d] = [content |-> req[c].content, name |-> req[c].name]]
      /\ UNCHANGED <<stage, chunks, jobs, storage, faults>>
  BY DEF InsertDocument, InsertDoc
<1> HIDE DEF d, r
<1>7. \A e \in Docs : status'[e] = IF e = d THEN "pending" ELSE status[e]
  BY <1>6 DEF BaseInv, StoreTypeOK
<1>8. StoreTypeOK'
  <2>1. status' \in [Docs -> DocStatus]
    BY <1>6 DEF BaseInv, StoreTypeOK, DocStatus
  <2>2. info' \in [Docs -> [content : Contents, name : Names] \cup {NoInfo}]
    BY <1>2, <1>6 DEF BaseInv, StoreTypeOK
  <2> QED BY <1>6, <2>1, <2>2 DEF BaseInv, StoreTypeOK, storage
<1>9. JobsOK'
  <2>1. \A i \in JobIds : jobs[i].doc \in Docs
    BY JobsAreRows DEF BaseInv, StoreTypeOK, JobIds, JobRow
  <2>2. \A i \in JobIds : jobs[i].doc # d
    BY <1>5 DEF BaseInv, JobsOK
  <2>3. JobsOK /\ jobs' = jobs /\ JobIds' = JobIds
    BY <1>6 DEF BaseInv, JobIds
  <2> QED BY <1>7, <2>1, <2>2, <2>3 DEF JobsOK
<1>10. \A b \in Clients : req'[b] = IF b = c THEN r ELSE req[b]
  BY <1>4 DEF BaseInv, RequestsOK
<1>11. RequestsOK'
  <2>1. req' \in [Clients -> Request]
    BY <1>3, <1>4 DEF BaseInv, RequestsOK
  <2>2. Carries(r)
    BY <1>2, <1>3 DEF Carries, Fresh
  <2>3. \A b \in Clients : Carries(req'[b])
    BY <1>10, <2>2, RequestCarries
  <2> QED BY <1>4, <2>1, <2>3 DEF BaseInv, RequestsOK, Carries
<1>12. FreshOK'
  <2>1. FreshOK
    BY DEF BaseInv
  <2>2. \A b \in Clients :
          /\ req[b].at \in Fresh \cup Early => req[b].doc \in Docs
          /\ req[b].at \in {"replace", "purge_old"} => req[b].old \in Docs
    BY DEF BaseInv, RequestsOK, Fresh, Early
  <2>3. d <= issued.upload /\ issued.upload \in Nat /\ \A e \in Docs : e \in Nat
    <3>1. Docs = 1 .. Cardinality(Docs)
      BY StoreAssumption
    <3>2. issued.upload \in 0 .. Cardinality(Docs) /\ Cardinality(Docs) \in Nat
      BY StoreAssumption, FS_CardinalityType DEF BaseInv, RequestsOK
    <3>3. d <= issued.upload
      BY <1>1, <2>1 DEF FreshOK, d
    <3> QED BY <3>1, <3>2, <3>3
  <2>4. \A e \in Docs : e > issued'.upload => status'[e] = "absent"
    BY <1>4, <1>7, <2>1, <2>3, <1>2 DEF FreshOK, d
  <2>5. \A b \in Clients : b # c /\ req[b].at \in Fresh => req[b].doc # d
    BY <1>1, <2>1 DEF FreshOK, d
  <2>6. ASSUME NEW b \in Clients
        PROVE  /\ req'[b].at \in Fresh => status'[req'[b].doc] = "absent" /\ req'[b].doc <= issued'.upload
               /\ req'[b].at \in Early \ {"reprocess", "delete"} => status'[req'[b].doc] # "absent"
               /\ req'[b].at \in {"replace", "purge_old"} => status'[req'[b].old] # "absent"
    <3>1. CASE b = c
      BY <1>2, <1>3, <1>7, <1>10, <3>1 DEF Fresh, d
    <3>2. CASE b # c
      BY <1>4, <1>7, <1>10, <2>1, <2>2, <2>5, <3>2 DEF FreshOK, Early
    <3> QED BY <3>1, <3>2
  <2>7. \A a, b \in Clients :
          req'[a].at \in Fresh /\ req'[b].at \in Fresh /\ req'[a].doc = req'[b].doc => a = b
    <3>1. r.at \notin Fresh
      BY <1>3 DEF Fresh
    <3> QED BY <1>10, <2>1, <3>1 DEF FreshOK
  <2> QED BY <2>4, <2>6, <2>7 DEF FreshOK
<1>13. WorkersOK' /\ HeldOK'
  <2>1. \A i \in JobIds : jobs[i].doc \in Docs /\ status[jobs[i].doc] # "absent"
    BY JobsAreRows DEF BaseInv, JobsOK, StoreTypeOK, JobIds, JobRow
  <2>2. \A i \in JobIds : status'[jobs[i].doc] = status[jobs[i].doc]
    BY <1>5, <1>7, <2>1
  <2>3. WorkersOK'
    BY <1>6 DEF BaseInv, WorkersOK, handlers
  <2>4. UNCHANGED <<job, jobs>> /\ JobIds' = JobIds
    BY <1>6 DEF handlers, JobIds
  <2> QED BY <2>2, <2>3, <2>4 DEF BaseInv, HeldOK
<1>14. Forward
  BY <1>5, <1>6, <1>7 DEF Forward, JobIds
<1> QED BY <1>8, <1>9, <1>11, <1>12, <1>13, <1>14 DEF BaseInv

(* The steps of a request that stays about its document. *)
LEMMA RequestProceeds ==
  ASSUME BaseInv, NEW c \in Clients, UNCHANGED handlers,
         \/ Requeue(c) \/ Replace(c) \/ PurgeOld(c) \/ PutObject(c) \/ StageUploaded(c)
         \/ Reprocess(c) \/ MarkDeleting(c)
  PROVE  BaseInv' /\ Forward
<1>1. Carries(req[c])
  BY RequestCarries
<1>2. {"pending", "deleting"} \subseteq DocStatus \ {"absent", "purged"}
  BY DEF DocStatus
<1>3. faults \in 0 .. MaxFaults
  BY Unmoved
<1>4. CASE Requeue(c)
  <2>1. Soft
    BY <1>1, <1>2, <1>3, <1>4, SoftStatus DEF Requeue, Carries
  <2> QED BY <1>4, <2>1, Onward, ProceedKeeps DEF Requeue
<1>5. CASE Replace(c)
  <2>1. Soft
    BY <1>1, <1>2, <1>3, <1>5, SoftStatus DEF Replace, Carries
  <2> QED BY <1>5, <2>1, Onward, ProceedKeeps DEF Replace
<1>6. CASE PurgeOld(c)
  <2>1. req[c].old \in Docs /\ req[c].by \in Strategies /\ "purge" \in JobStages
    BY <1>1, <1>6 DEF PurgeOld, Carries, Fresh, JobStages
  <2>2. JobsAdded
    BY <1>6, <2>1, JobEnqueued DEF PurgeOld, BaseInv
  <2>3. Soft
    BY <1>6, <2>2 DEF PurgeOld, BaseInv, StoreTypeOK, JobsAdded, JobRow, storage, Soft
  <2> QED BY <1>6, <2>3, Onward, ProceedKeeps DEF PurgeOld
<1>7. CASE PutObject(c)
  <2>1. objects' \subseteq Docs
    BY <1>1, <1>7, Unmoved DEF PutObject, Carries
  <2>2. Soft
    BY <1>7, <2>1, SoftStore, Unmoved DEF PutObject, rows
  <2> QED BY <1>7, <2>2, Onward, ProceedKeeps DEF PutObject
<1>8. CASE StageUploaded(c)
  <2>1. req[c].doc \in Docs /\ "upload" \in StageNames /\ "done" \in StageStatus
    BY <1>1, <1>8 DEF StageUploaded, Carries, StageNames, StageStatus
  <2>2. stage' \in [Docs -> [StageNames -> StageStatus]]
    BY <1>8, <2>1, StageWritten DEF StageUploaded, BaseInv
  <2>3. Soft
    BY <1>8, <2>2, JobsUnchanged DEF StageUploaded, BaseInv, StoreTypeOK, StageStatus, storage, Soft
  <2> QED BY <1>8, <2>3, Onward, ProceedKeeps DEF StageUploaded
<1>9. CASE Reprocess(c)
  <2>1. Soft
    BY <1>1, <1>2, <1>3, <1>9, SoftStatus DEF Reprocess, Carries
  <2>2. req[c].doc \in Docs
    BY <1>1, <1>9 DEF Reprocess, Carries
  <2> QED BY <1>9, <2>1, <2>2, Onward, ProceedKeeps, ReplyKeeps DEF Reprocess, Says
<1>10. CASE MarkDeleting(c)
  <2>1. Soft
    BY <1>1, <1>2, <1>3, <1>10, SoftStatus DEF MarkDeleting, Carries
  <2>2. req[c].doc \in Docs
    BY <1>1, <1>10 DEF MarkDeleting, Carries
  <2> QED BY <1>10, <2>1, <2>2, Onward, ProceedKeeps, ReplyKeeps DEF MarkDeleting, Says
<1> QED BY <1>4, <1>5, <1>6, <1>7, <1>8, <1>9, <1>10

(* The look for duplicates goes on with the upload, or with the document it finds. *)
LEMMA FindKeeps ==
  ASSUME BaseInv, NEW c \in Clients, UNCHANGED handlers, Find(c) \/ FindName(c)
  PROVE  BaseInv' /\ Forward
<1>1. Carries(req[c]) /\ req[c].at \in {"find", "name"}
  BY RequestCarries DEF Find, FindName
<1>2. /\ req[c] \in Request /\ req[c].doc \in Docs /\ req[c].by \in Strategies /\ req[c].reset = 0
      /\ req[c].content \in Contents /\ req[c].name \in Names /\ req[c].at \in Fresh
  BY <1>1 DEF Carries, Fresh
<1>3. Soft
  BY SoftStore, Unmoved DEF Find, FindName, store, rows, storage
<1>4. issued \in [upload : 0 .. Cardinality(Docs), reprocess : Nat, delete : Nat]
  BY DEF BaseInv, RequestsOK
<1>5. CASE Proceed(c, "name") /\ req[c].at = "find"
  BY <1>3, <1>5, Onward, ProceedKeeps
<1>6. CASE Proceed(c, "put") /\ req[c].at = "name"
  BY <1>3, <1>6, Onward, ProceedKeeps
<1>7. CASE Reply(c, "error", req[c].doc)
  BY <1>2, <1>3, <1>7, ReplyKeeps DEF Says
<1>8. CASE \E d \in Docs : Reply(c, "already_indexed", d) \/ Reply(c, "being_processed", d)
  BY <1>3, <1>8, ReplyKeeps DEF Says
<1>9. ASSUME NEW d \in Docs, status[d] \in Failed,
             req' = [req EXCEPT ![c].at = "requeue", ![c].doc = d], issued' = issued
      PROVE  BaseInv' /\ Forward
  <2> DEFINE r == [req[c] EXCEPT !.at = "requeue", !.doc = d]
  <2>1. req' = [req EXCEPT ![c] = r]
    BY <1>9
  <2>2. r \in Request /\ r.at = "requeue" /\ r.doc = d /\ r.by = req[c].by /\ r.reset = 0
    BY <1>2 DEF Request, Early
  <2> HIDE DEF r
  <2>3. Carries(r) /\ Follows(r, req[c])
    BY <1>2, <1>9, <2>2 DEF Carries, Follows, Fresh, Early, Failed
  <2> QED BY <1>3, <1>4, <1>9, <2>1, <2>3, RequestWritten
<1>10. ASSUME NEW d \in Docs, Exists(d),
              req' = [req EXCEPT ![c].at = "replace", ![c].old = d], issued' = issued
       PROVE  BaseInv' /\ Forward
  <2> DEFINE r == [req[c] EXCEPT !.at = "replace", !.old = d]
  <2>1. req' = [req EXCEPT ![c] = r]
    BY <1>10
  <2>2. /\ r \in Request /\ r.at = "replace" /\ r.doc = req[c].doc /\ r.by = req[c].by /\ r.reset = 0
        /\ r.old = d /\ r.content = req[c].content /\ r.name = req[c].name
    BY <1>2 DEF Request, Fresh
  <2> HIDE DEF r
  <2>3. Carries(r) /\ Follows(r, req[c])
    BY <1>2, <1>10, <2>2 DEF Carries, Follows, Fresh, Early, Exists
  <2> QED BY <1>3, <1>4, <1>10, <2>1, <2>3, RequestWritten
<1>11. CASE Find(c)
  <2>1. SameContent(req[c]) \subseteq Docs
    BY DEF SameContent
  <2> QED BY <1>5, <1>7, <1>8, <1>9, <1>11, <2>1 DEF Find
<1>12. CASE FindName(c)
  <2>1. \A d \in SameName(req[c]) : d \in Docs /\ Exists(d)
    BY DEF SameName
  <2> QED BY <1>6, <1>7, <1>10, <1>12, <2>1 DEF FindName
<1> QED BY <1>11, <1>12

(* A stage that is set back is followed by the next. *)
LEMMA ResetKeeps ==
  ASSUME BaseInv, NEW c \in Clients, UNCHANGED handlers, ResetStage(c)
  PROVE  BaseInv' /\ Forward
<1> DEFINE k == req[c].reset
           label == IF k + 1 = Len(ResetOrder) THEN "enqueue" ELSE "reset"
           r == [req[c] EXCEPT !.at = label, !.reset = k + 1]
<1>1. Carries(req[c]) /\ req[c].at = "reset"
  BY RequestCarries DEF ResetStage
<1>2. req[c] \in Request /\ req[c].doc \in Docs /\ req[c].by \in Strategies /\ k \in 0 .. 3
  BY <1>1 DEF Carries, Early
<1>3. Len(ResetOrder) = 4 /\ ResetOrder[k + 1] \in StageNames /\ "pending" \in StageStatus
  <2>1. Len(ResetOrder) = 4
    BY DEF ResetOrder
  <2>2. /\ ResetOrder[1] = "parse" /\ ResetOrder[2] = "chunk"
        /\ ResetOrder[3] = "embed" /\ ResetOrder[4] = "index"
    BY DEF ResetOrder
  <2>3. k + 1 = 1 \/ k + 1 = 2 \/ k + 1 = 3 \/ k + 1 = 4
    BY <1>2
  <2> QED BY <2>1, <2>2, <2>3 DEF StageNames, StageStatus
<1>4. req' = [req EXCEPT ![c] = r] /\ issued' = issued
  BY DEF ResetStage
<1>5. /\ r \in Request /\ r.doc = req[c].doc /\ r.by = req[c].by /\ r.reset = k + 1
      /\ r.at = IF k = 3 THEN "enqueue" ELSE "reset"
  <2>1. k + 1 \in 0 .. 4 /\ label \in Early /\ label = IF k = 3 THEN "enqueue" ELSE "reset"
    BY <1>2, <1>3 DEF Early
  <2> DEFINE n == k + 1
  <2> HIDE DEF label, n
  <2>2. r = [req[c] EXCEPT !.at = label, !.reset = n]
    BY DEF n
  <2> HIDE DEF r
  <2>3. n \in 0 .. 4
    BY <2>1 DEF n
  <2> QED BY <1>2, <2>1, <2>2, <2>3 DEF Request, n
<1>6. stage' \in [Docs -> [StageNames -> StageStatus]]
  BY <1>2, <1>3, StageWritten DEF ResetStage, BaseInv
<1>7. Soft
  BY <1>6, JobsUnchanged DEF ResetStage, BaseInv, StoreTypeOK, StageStatus, storage, Soft
<1>8. status[r.doc] # "absent"
  BY <1>1, <1>5 DEF BaseInv, FreshOK, Early
<1>9. k \in 0 .. 3
  BY <1>2
<1> HIDE DEF r, k
<1>10. Carries(r) /\ Follows(r, req[c])
  BY <1>2, <1>5, <1>8, <1>9 DEF Carries, Follows, Fresh, Early
<1>11. issued \in [upload : 0 .. Cardinality(Docs), reprocess : Nat, delete : Nat]
  BY DEF BaseInv, RequestsOK
<1> QED BY <1>4, <1>7, <1>10, <1>11, RequestWritten

(* The last steps: a job is enqueued, or the request fails. *)
LEMMA EnqueueKeeps ==
  ASSUME BaseInv, NEW c \in Clients, UNCHANGED handlers, EnqueueIngest(c) \/ EnqueuePurge(c)
  PROVE  BaseInv' /\ Forward
<1>1. Carries(req[c]) /\ req[c].at \in {"enqueue", "purge"}
  BY RequestCarries DEF EnqueueIngest, EnqueuePurge
<1>2. req[c].doc \in Docs
  BY <1>1 DEF Carries
<1>3. UNCHANGED <<status, info, stage, chunks, storage, faults>>
  BY DEF EnqueueIngest, EnqueuePurge
<1>4. JobsAdded
  <2>1. (CHOOSE by \in Strategies : TRUE) \in Strategies
    BY StoreAssumption
  <2>2. CASE EnqueueIngest(c)
    <3>1. req[c].by \in Strategies /\ "ingest" \in JobStages
      BY <1>1, <2>2 DEF EnqueueIngest, Carries, Early, JobStages
    <3> QED BY <1>2, <2>2, <3>1, JobEnqueued DEF EnqueueIngest, BaseInv
  <2>3. CASE EnqueuePurge(c)
    BY <1>2, <2>1, <2>3, JobEnqueued DEF EnqueuePurge, BaseInv, JobStages
  <2> QED BY <2>2, <2>3
<1>5. Soft
  BY <1>3, <1>4 DEF BaseInv, StoreTypeOK, JobsAdded, JobRow, storage, Soft
<1> QED BY <1>2, <1>5, ReplyKeeps DEF EnqueueIngest, EnqueuePurge, Says

(* A request that raises ends. *)
LEMMA RequestFails ==
  ASSUME BaseInv, NEW c \in Clients, UNCHANGED handlers, RequestFault(c)
  PROVE  BaseInv' /\ Forward
<1>1. req[c].doc \in Docs \cup {0}
  BY DEF BaseInv, RequestsOK, Request
<1>2. Soft
  BY SoftStore, Unmoved, FaultCounted DEF RequestFault, store, rows, storage
<1> QED BY <1>1, <1>2, ReplyKeeps DEF RequestFault, Says

(* A request for a document that has been inserted. *)
LEMMA AskKeeps ==
  ASSUME BaseInv, NEW c \in Clients, UNCHANGED handlers, StartReprocess(c) \/ StartDelete(c)
  PROVE  BaseInv' /\ Forward
<1>1. \/ \E d \in Docs, by \in Strategies : req' = [req EXCEPT ![c] = AskOf(Idle, d, by)]
      \/ \E d \in Docs : req' = [req EXCEPT ![c] = DeleteOf(Idle, d)]
  <2>1. CASE StartReprocess(c)
    BY <2>1, Zenon DEF StartReprocess, Begin, AskOf
  <2>2. CASE StartDelete(c)
    BY <2>2, Zenon DEF StartDelete, Begin, DeleteOf
  <2> QED BY <2>1, <2>2
<1>2. PICK r : req' = [req EXCEPT ![c] = r] /\ \E d \in Docs : \/ \E by \in Strategies : r = AskOf(Idle, d, by)
                                                           \/ r = DeleteOf(Idle, d)
  BY <1>1
<1>3. /\ r \in Request /\ r.at \in {"reprocess", "delete"} /\ r.doc \in Docs /\ r.reset = 0
      /\ r.at = "reprocess" => r.by \in Strategies
  <2>1. PICK d \in Docs : (\E by \in Strategies : r = AskOf(Idle, d, by)) \/ r = DeleteOf(Idle, d)
    BY <1>2
  <2>2. CASE r = DeleteOf(Idle, d)
    <3>1. PICK b \in Strategies : TRUE
      BY StoreAssumption
    <3> QED BY <2>2, IdleFacts, AskBegun
  <2>3. ASSUME NEW by \in Strategies, r = AskOf(Idle, d, by)
        PROVE  r \in Request /\ r.at = "reprocess" /\ r.doc = d /\ r.by = by /\ r.reset = 0
    BY <2>3, IdleFacts, AskBegun
  <2> QED BY <2>1, <2>2, <2>3
<1>4. Carries(r) /\ Follows(r, req[c])
  BY <1>3 DEF Carries, Follows, Fresh, Early
<1>5. Soft
  BY SoftStore, Unmoved DEF StartReprocess, StartDelete, store, rows, storage
<1>6. /\ issued' \in [upload : 0 .. Cardinality(Docs), reprocess : Nat, delete : Nat]
      /\ issued'.upload = issued.upload
  <2>1. issued \in [upload : 0 .. Cardinality(Docs), reprocess : Nat, delete : Nat]
    BY DEF BaseInv, RequestsOK
  <2>2. Issue("reprocess", MaxReprocess) \/ Issue("delete", MaxDeletes)
    BY Zenon DEF StartReprocess, StartDelete
  <2> QED BY <2>1, <2>2 DEF Issue
<1> QED BY <1>2, <1>4, <1>5, <1>6, RequestWritten

(* Every step of a request keeps the invariant and goes forward. *)
LEMMA RequestKeeps ==
  ASSUME BaseInv, RequestNext
  PROVE  BaseInv' /\ Forward
<1>1. PICK c \in Clients : UploadStep(c) \/ ReprocessStep(c) \/ DeleteStep(c) \/ RequestFault(c)
  BY DEF RequestNext
<1>2. UNCHANGED handlers
  BY DEF RequestNext
<1>3. CASE UploadStep(c)
  BY <1>2, <1>3, UploadStarts, FindKeeps, RequestProceeds, InsertKeeps DEF UploadStep
<1>4. CASE ReprocessStep(c)
  BY <1>2, <1>4, AskKeeps, RequestProceeds, ResetKeeps, EnqueueKeeps DEF ReprocessStep
<1>5. CASE DeleteStep(c)
  BY <1>2, <1>5, AskKeeps, RequestProceeds, EnqueueKeeps DEF DeleteStep
<1>6. CASE RequestFault(c)
  BY <1>2, <1>6, RequestFails
<1> QED BY <1>1, <1>3, <1>4, <1>5, <1>6
-----------------------------------------------------------------------------
(* The instance dies and starts again, or one of another model does.         *)

(* The start recovers jobs, cleans others up, and adds none. *)
LEMMA RestartRows ==
  ASSUME BaseInv, Restart
  PROVE  /\ jobs' \in Seq(JobRow) /\ JobIds' = JobIds
         /\ \A i \in JobIds :
              /\ jobs'[i].stage = jobs[i].stage /\ jobs'[i].doc = jobs[i].doc /\ jobs'[i].by = jobs[i].by
              /\ \/ jobs'[i].row = jobs[i].row
                 \/ jobs[i].row.status = "processing" /\ jobs'[i].row = RecoveredRow(jobs[i].row)
                 \/ jobs[i].row.status \in Final /\ jobs'[i].row = RemovedRow
<1>1. PICK old \in SUBSET {i \in JobIds : IsStale(jobs[i].row)}, last \in 0 .. Len(jobs) :
        jobs' = Cleaned(Recovered(old), last)
  BY DEF Restart
<1>2. jobs \in Seq(JobRow)
  BY DEF BaseInv, StoreTypeOK, JobRow
<1> DEFINE q == Recovered(old)
           f(i) == IF i \in old THEN [jobs[i] EXCEPT !.row = RecoveredRow(jobs[i].row)] ELSE jobs[i]
           g(i) == IF i <= last /\ q[i].row.status \in Final
                   THEN [q[i] EXCEPT !.row = RemovedRow] ELSE q[i]
<1>3. q = [i \in DOMAIN jobs |-> f(i)]
  BY DEF Recovered, JobIds
<1>4. \A i \in DOMAIN jobs :
        /\ f(i) \in JobRow /\ f(i).stage = jobs[i].stage /\ f(i).doc = jobs[i].doc /\ f(i).by = jobs[i].by
        /\ f(i).row = IF i \in old THEN RecoveredRow(jobs[i].row) ELSE jobs[i].row
  BY <1>2, JobsAreRows, RowFacts, RowReplaced
<1> HIDE DEF f
<1>5. q = [i \in DOMAIN jobs |-> q[i]] /\ \A i \in DOMAIN jobs : q[i] = f(i)
  BY <1>3
<1>6. q \in Seq(JobRow) /\ DOMAIN q = DOMAIN jobs
  BY <1>2, <1>4, <1>5, JobsRewritten
<1>7. jobs' = [i \in DOMAIN q |-> g(i)]
  BY <1>1 DEF Cleaned
<1> HIDE DEF q
<1>8. \A i \in DOMAIN q :
        /\ g(i) \in JobRow /\ g(i).stage = q[i].stage /\ g(i).doc = q[i].doc /\ g(i).by = q[i].by
        /\ g(i).row = IF i <= last /\ q[i].row.status \in Final THEN RemovedRow ELSE q[i].row
  BY <1>6, JobsAreRows, RowFacts, RowReplaced
<1> HIDE DEF g
<1>9. jobs' = [i \in DOMAIN q |-> jobs'[i]] /\ \A i \in DOMAIN q : jobs'[i] = g(i)
  BY <1>7
<1>10. jobs' \in Seq(JobRow) /\ DOMAIN jobs' = DOMAIN q
  BY <1>6, <1>8, <1>9, JobsRewritten
<1>11. ASSUME NEW i \in JobIds
       PROVE  /\ jobs'[i].stage = jobs[i].stage /\ jobs'[i].doc = jobs[i].doc /\ jobs'[i].by = jobs[i].by
              /\ \/ jobs'[i].row = jobs[i].row
                 \/ jobs[i].row.status = "processing" /\ jobs'[i].row = RecoveredRow(jobs[i].row)
                 \/ jobs[i].row.status \in Final /\ jobs'[i].row = RemovedRow
  <2>1. i \in DOMAIN jobs /\ i \in DOMAIN q /\ jobs[i].row \in Row
    BY <1>2, <1>6, JobsAreRows DEF JobIds
  <2>2. q[i].row = IF i \in old THEN RecoveredRow(jobs[i].row) ELSE jobs[i].row
    BY <1>4, <1>5, <2>1
  <2>3. jobs'[i].row = IF i <= last /\ q[i].row.status \in Final THEN RemovedRow ELSE q[i].row
    BY <1>8, <1>9, <2>1
  <2>4. i \in old => jobs[i].row.status = "processing" /\ q[i].row.status = "pending"
    BY <2>1, <2>2, RowFacts DEF IsStale
  <2>5. jobs'[i].stage = jobs[i].stage /\ jobs'[i].doc = jobs[i].doc /\ jobs'[i].by = jobs[i].by
    BY <1>4, <1>5, <1>8, <1>9, <2>1
  <2> QED BY <2>2, <2>3, <2>4, <2>5 DEF Final
<1> QED BY <1>6, <1>10, <1>11 DEF JobIds

LEMMA RestartKeeps ==
  ASSUME BaseInv, Restart
  PROVE  BaseInv' /\ Forward /\ UNCHANGED <<status, info, stage, chunks, objects, tables, faults, issued>>
<1>1. /\ jobs' \in Seq(JobRow) /\ JobIds' = JobIds
      /\ \A i \in JobIds :
           /\ jobs'[i].stage = jobs[i].stage /\ jobs'[i].doc = jobs[i].doc /\ jobs'[i].by = jobs[i].by
           /\ jobs'[i].row.status # "absent" \/ jobs[i].row.status = "absent"
           /\ jobs[i].row.status = "removed" => jobs'[i].row.status = "removed"
  <2>1. \A i \in JobIds : jobs[i].row \in Row
    BY JobsAreRows DEF BaseInv, StoreTypeOK, JobIds, JobRow
  <2> QED BY <2>1, RestartRows, RowFacts DEF Final
<1>2. /\ UNCHANGED <<status, info, stage, chunks, objects, tables, faults, issued>>
      /\ collection' = "right" /\ vectors' \subseteq vectors
  BY DEF Restart, ProbedVectors
<1>3. StoreTypeOK'
  BY <1>1, <1>2 DEF BaseInv, StoreTypeOK, JobRow
<1>4. JobsOK'
  BY <1>1, <1>2 DEF BaseInv, JobsOK
<1>5. /\ pc' = [w \in Workers |-> "idle"] /\ job' = [w \in Workers |-> 0]
      /\ loaded' = [w \in Workers |-> {}] /\ req' = [c \in Clients |-> Idle]
  BY DEF Restart
<1>6. WorkersOK' /\ HeldOK'
  BY <1>5 DEF WorkersOK, HeldOK
<1>7. RequestsOK' /\ FreshOK'
  <2>1. \A c \in Clients : req'[c] = Idle
    BY <1>5
  <2>2. req' \in [Clients -> Request]
    BY <1>5, IdleFacts
  <2> QED BY <1>2, <2>1, <2>2, IdleFacts DEF BaseInv, RequestsOK, FreshOK, Fresh, Early
<1>8. Forward
  BY <1>1, <1>2 DEF SameDocuments, Forward
<1> QED BY <1>2, <1>3, <1>4, <1>6, <1>7, <1>8 DEF BaseInv

(* The start of another instance touches neither documents nor jobs. *)
LEMMA ForeignKeeps ==
  ASSUME BaseInv, ForeignStart
  PROVE  BaseInv' /\ Forward
<1>1. Soft
  BY SoftStore, Unmoved DEF ForeignStart, rows
<1>2. WorkersOK' /\ job' = job /\ UNCHANGED <<req, issued>>
  BY DEF ForeignStart, handlers, BaseInv, WorkersOK
<1> QED BY <1>1, <1>2, SoftKeeps, SoftForward

(* The invariant holds at first. *)
LEMMA BaseInit == Init => BaseInv
<1> SUFFICES ASSUME Init PROVE BaseInv
  OBVIOUS
<1> USE DEF Init, StoreInit, HandlersInit, RequestsInit
<1>1. StoreTypeOK
  <2>1. jobs \in Seq(JobRow)
    BY EmptySeq
  <2> QED BY <2>1, StoreAssumption DEF StoreTypeOK, DocStatus, JobRow
<1>2. WorkersOK
  BY DEF WorkersOK
<1>3. HeldOK /\ JobsOK
  <2>1. JobIds = {}
    BY EmptySeq DEF JobIds
  <2> QED BY <2>1 DEF HeldOK, JobsOK
<1>4. RequestsOK
  <2>1. \A c \in Clients : req[c] = Idle
    OBVIOUS
  <2>2. req \in [Clients -> Request]
    BY IdleFacts
  <2>3. issued \in [upload : 0 .. Cardinality(Docs), reprocess : Nat, delete : Nat]
    BY StoreAssumption, FS_CardinalityType
  <2> QED BY <2>1, <2>2, <2>3, IdleFacts DEF RequestsOK, Fresh, Early
<1>5. FreshOK
  <2>1. \A c \in Clients : req[c] = Idle
    OBVIOUS
  <2> QED BY <2>1, IdleFacts DEF FreshOK, Fresh, Early
<1> QED BY <1>1, <1>2, <1>3, <1>4, <1>5 DEF BaseInv

(* Every step keeps it and goes forward. *)
LEMMA BaseStep ==
  ASSUME BaseInv, [Next]_vars
  PROVE  BaseInv' /\ Forward
<1>1. CASE UNCHANGED vars
  <2>1. UNCHANGED <<store, faults, handlers, req, issued>>
    BY <1>1 DEF vars
  <2>2. Soft
    BY <2>1, SoftStore, Unmoved DEF store, rows, storage
  <2>3. WorkersOK' /\ job' = job
    BY <2>1 DEF handlers, BaseInv, WorkersOK
  <2> QED BY <2>1, <2>2, <2>3, SoftKeeps, SoftForward
<1> QED BY <1>1, WorkerKeeps, RequestKeeps, RestartKeeps, ForeignKeeps DEF Next

\* Types, and what holds of every job, handler and request.
THEOREM PipelineBase == Spec => []BaseInv
<1>1. BaseInv /\ [Next]_vars => BaseInv'
  BY BaseStep
<1> QED BY <1>1, BaseInit, PTL DEF Spec

\* Whatever fails, is retried, overtakes another or is restarted: the rows stay
\* well-formed, a worker that is not idle has a job, and a request is about
\* documents that there are.
THEOREM PipelineTypes == Spec => []TypeOK
<1> DEFINE Counts == restarts \in 0 .. MaxRestarts /\ foreign \in 0 .. MaxForeign
<1>1. Init => Counts
  BY PipelineAssumption DEF Init
<1>2. Counts /\ [Next]_vars => Counts'
  BY PipelineAssumption DEF Next, WorkerNext, RequestNext, Restart, ForeignStart, vars
<1>3. Spec => []Counts
  <2> HIDE DEF Counts
  <2> QED BY <1>1, <1>2, PTL DEF Spec
<1>4. BaseInv /\ Counts => TypeOK
  <2> SUFFICES ASSUME BaseInv, Counts PROVE TypeOK
    OBVIOUS
  <2>1. HandlersTypeOK
    BY DEF BaseInv, WorkersOK, HeldOK, HandlersTypeOK, ChunkRow
  <2>2. \A c \in Clients : req[c].doc \in Docs \cup {0} /\ req[c].old \in Docs \cup {0}
    BY DEF BaseInv, RequestsOK, Request
  <2> QED BY <2>1, <2>2 DEF TypeOK, BaseInv
<1> QED BY <1>3, <1>4, PipelineBase, PTL
-----------------------------------------------------------------------------
(* What each part of the system leaves alone in the stores.                  *)

LEMMA IngestLeaves ==
  ASSUME NEW w \in Workers, IngestStep(w) \/ IngestFault(w)
  PROVE  UNCHANGED <<info, objects, vectors, collection>> /\ (chunks' = chunks \/ InsertChunks(w))
<1>1. CASE InsertChunks(w)
  BY <1>1 DEF InsertChunks, storage
<1>2. CASE FetchAndParse(w) \/ UploadTable(w) \/ Cut(w) \/ IngestFault(w)
  BY <1>2 DEF FetchAndParse, UploadTable, Cut, IngestFault, Raise, Abandon, store, rows, storage
<1> QED BY <1>1, <1>2 DEF IngestStep, WriteStage, WriteStatus, EnqueueNext, AckJob, NackJob, storage

(* An embed worker writes the vectors of the chunks it has loaded. *)
LEMMA EmbedLeaves ==
  ASSUME NEW w \in Workers, EmbedStep(w) \/ EmbedFault(w)
  PROVE  /\ UNCHANGED <<info, objects, tables, chunks>>
         /\ vectors' \subseteq vectors \cup PointIds(loaded[w])
         /\ vectors' \subseteq vectors \/ vectors \subseteq vectors'
<1>1. CASE Upsert(w) \/ UpsertPart(w) \/ DropCollection(w) \/ CreateCollection(w) \/ RetryUpsert(w)
  BY <1>1 DEF Upsert, UpsertPart, DropCollection, CreateCollection, RetryUpsert, rows
<1>2. CASE Guard(w) \/ LoadChunks(w) \/ CommitEmbedded(w) \/ Raise(w, EmbedBody) \/ Abandon(w, EmbedExcept)
  BY <1>2 DEF Guard, LoadChunks, CommitEmbedded, Raise, Abandon, store, rows, storage
<1> QED
  BY <1>1, <1>2 DEF EmbedStep, EmbedFault, WriteStage, WriteStatus, EnqueueNext, AckJob, NackJob, storage

(* An index worker writes to no store. *)
LEMMA IndexLeaves ==
  ASSUME NEW w \in Workers, IndexStep(w) \/ IndexFault(w)
  PROVE  UNCHANGED <<info, chunks, storage>>
BY DEF IndexStep, IndexFault, WriteStage, WriteStatus, AckJob, NackJob, Raise, Abandon, store, rows

(* A purge worker only deletes. *)
LEMMA PurgeLeaves ==
  ASSUME NEW w \in Workers, PurgeStep(w) \/ PurgeFault(w)
  PROVE  /\ UNCHANGED <<info, collection>> /\ vectors' \subseteq vectors
         /\ chunks' = chunks \/ PurgeRow(w)
         /\ objects' = objects \/ PurgeObject(w)
<1>1. CASE PurgeRow(w)
  BY <1>1 DEF PurgeRow, DeleteDoc, rows, storage
<1>2. CASE PurgeVectors(w) \/ PurgeTable(w) \/ PurgeObject(w) \/ MarkPurgeError(w)
  BY <1>2 DEF PurgeVectors, PurgeTable, PurgeObject, MarkPurgeError, rows, storage
<1>3. CASE NackJob(w, "purge_nack") \/ PurgeFault(w)
  BY <1>3 DEF NackJob, PurgeFault, Raise, Abandon, store, rows, storage
<1> QED BY <1>1, <1>2, <1>3 DEF PurgeStep

(* A request puts files and inserts rows. *)
LEMMA RequestLeaves ==
  ASSUME NEW c \in Clients, UploadStep(c) \/ ReprocessStep(c) \/ DeleteStep(c) \/ RequestFault(c)
  PROVE  /\ UNCHANGED <<tables, vectors, collection, chunks>>
         /\ info' = info \/ InsertDocument(c)
         /\ objects' = objects \/ PutObject(c)
<1>1. CASE StartUpload(c) \/ Find(c) \/ FindName(c) \/ StartReprocess(c) \/ StartDelete(c) \/ RequestFault(c)
  BY <1>1, Zenon DEF StartUpload, Find, FindName, StartReprocess, StartDelete, RequestFault, store, rows, storage
<1>2. CASE Requeue(c) \/ Replace(c) \/ PurgeOld(c) \/ PutObject(c) \/ InsertDocument(c) \/ StageUploaded(c)
  BY <1>2 DEF Requeue, Replace, PurgeOld, PutObject, InsertDocument, StageUploaded, rows, storage
<1>3. CASE ResetStage(c) \/ EnqueueIngest(c) \/ Reprocess(c) \/ MarkDeleting(c) \/ EnqueuePurge(c)
  BY <1>3 DEF ResetStage, EnqueueIngest, Reprocess, MarkDeleting, EnqueuePurge, storage
<1> QED BY <1>1, <1>2, <1>3 DEF UploadStep, ReprocessStep, DeleteStep

(* The same for a step of the whole system. *)
LEMMA StepLeaves ==
  ASSUME [Next]_vars
  PROVE  /\ info' = info \/ \E c \in Clients : InsertDocument(c)
         /\ \/ objects' = objects \/ (\E c \in Clients : PutObject(c))
            \/ \E w \in Workers : (PurgeStep(w) \/ PurgeFault(w)) /\ PurgeObject(w)
<1>1. CASE WorkerNext
  <2>1. PICK w \in Workers : Claim(w) \/ Step(w) \/ Fault(w)
    BY <1>1 DEF WorkerNext
  <2>2. CASE Claim(w)
    BY <2>2 DEF Claim, storage
  <2> QED BY <2>1, <2>2, IngestLeaves, EmbedLeaves, IndexLeaves, PurgeLeaves DEF Step, Fault, storage
<1>2. CASE RequestNext
  BY <1>2, RequestLeaves DEF RequestNext
<1>3. CASE Restart \/ ForeignStart \/ UNCHANGED vars
  BY <1>3 DEF Restart, ForeignStart, vars, store, rows, storage
<1> QED BY <1>1, <1>2, <1>3 DEF Next
-----------------------------------------------------------------------------
(* Where the step of a request takes it.                                     *)

LEMMA ProceedMoves ==
  ASSUME BaseInv, NEW c \in Clients, NEW label, Proceed(c, label)
  PROVE  \E r : /\ req' = [req EXCEPT ![c] = r] /\ r.at = label
                /\ r.doc = req[c].doc /\ r.content = req[c].content
<1> DEFINE r == [req[c] EXCEPT !.at = label]
<1>1. req[c] \in Request
  BY DEF BaseInv, RequestsOK
<1>2. r.at = label /\ r.doc = req[c].doc /\ r.content = req[c].content
  BY <1>1 DEF Request
<1>3. req' = [req EXCEPT ![c] = r]
  BY DEF Proceed
<1> HIDE DEF r
<1> QED BY <1>2, <1>3

(* A reply leaves the client idle. *)
LEMMA ReplyMoves ==
  ASSUME NEW c \in Clients, NEW says, NEW d, Reply(c, says, d)
  PROVE  \E r : req' = [req EXCEPT ![c] = r] /\ r.at = "idle"
<1> DEFINE r == [Idle EXCEPT !.reply = [says |-> says, doc |-> d]]
<1>1. r.at = "idle"
  BY DEF Idle
<1>2. req' = [req EXCEPT ![c] = r]
  BY DEF Reply
<1> HIDE DEF r
<1> QED BY <1>1, <1>2

\* Labels that a request reaches with another document than before, or with none.
Anew == {"idle", "find", "reprocess", "delete", "requeue"}

(* Which labels a request reaches with its document, and by which step. *)
LEMMA RequestMoves ==
  ASSUME BaseInv, NEW c \in Clients, UNCHANGED handlers,
         UploadStep(c) \/ ReprocessStep(c) \/ DeleteStep(c) \/ RequestFault(c)
  PROVE  \E r : /\ req' = [req EXCEPT ![c] = r]
                /\ \/ r.at \in Anew
                   \/ /\ r.doc = req[c].doc /\ r.content = req[c].content
                      /\ \/ Find(c) /\ SameContent(req[c]) = {} /\ r.at = "name"
                         \/ FindName(c) /\ r.at \in {"put", "replace"}
                         \/ Replace(c) /\ r.at = "purge_old"
                         \/ PurgeOld(c) /\ r.at = "put"
                         \/ PutObject(c) /\ r.at = "insert"
                         \/ InsertDocument(c) /\ r.at = "uploaded"
                         \/ r.at \in {"reset", "enqueue", "purge"}
<1>1. req[c] \in Request
  BY DEF BaseInv, RequestsOK
<1>2. CASE StartUpload(c)
  <2>1. BaseInv' /\ \E r : req' = [req EXCEPT ![c] = r] /\ r.at = "find"
    <3>1. PICK d \in {issued.upload + 1}, content \in Contents, name \in Names, by \in Strategies :
            req' = [req EXCEPT ![c] = UploadOf(Idle, d, content, name, by)]
      BY <1>2, Zenon DEF StartUpload, Begin, UploadOf
    <3>2. UploadOf(Idle, d, content, name, by).at = "find"
      BY IdleFacts DEF UploadOf, Request
    <3> QED BY <1>2, <3>1, <3>2, UploadStarts
  <2> QED BY <2>1 DEF Anew
<1>3. CASE StartReprocess(c) \/ StartDelete(c)
  <2>1. CASE StartReprocess(c)
    <3>1. PICK d \in Docs, by \in Strategies : req' = [req EXCEPT ![c] = AskOf(Idle, d, by)]
      BY <2>1, Zenon DEF StartReprocess, Begin, AskOf
    <3>2. AskOf(Idle, d, by).at = "reprocess"
      BY IdleFacts, AskBegun
    <3> QED BY <3>1, <3>2 DEF Anew
  <2>2. CASE StartDelete(c)
    <3>1. PICK d \in Docs : req' = [req EXCEPT ![c] = DeleteOf(Idle, d)]
      BY <2>2, Zenon DEF StartDelete, Begin, DeleteOf
    <3>2. DeleteOf(Idle, d).at = "delete"
      BY IdleFacts, AskBegun, StoreAssumption
    <3> QED BY <3>1, <3>2 DEF Anew
  <2> QED BY <1>3, <2>1, <2>2
<1>4. CASE \E says \in Says : \E d : Reply(c, says, d)
  BY <1>4, ReplyMoves DEF Anew
<1>5. CASE Find(c)
  <2>1. CASE SameContent(req[c]) = {} /\ Proceed(c, "name")
    BY <1>5, <2>1, ProceedMoves
  <2>2. ASSUME NEW d, req' = [req EXCEPT ![c].at = "requeue", ![c].doc = d]
        PROVE  \E r : req' = [req EXCEPT ![c] = r] /\ r.at \in Anew
    <3> DEFINE r == [req[c] EXCEPT !.at = "requeue", !.doc = d]
    <3>1. r.at = "requeue"
      BY <1>1 DEF Request
    <3>2. req' = [req EXCEPT ![c] = r]
      BY <2>2
    <3> HIDE DEF r
    <3> QED BY <3>1, <3>2 DEF Anew
  <2> QED BY <1>4, <1>5, <2>1, <2>2 DEF Find, Says
<1>6. CASE FindName(c)
  <2>1. CASE Proceed(c, "put")
    BY <1>6, <2>1, ProceedMoves
  <2>2. ASSUME NEW d, req' = [req EXCEPT ![c].at = "replace", ![c].old = d]
        PROVE  \E r : /\ req' = [req EXCEPT ![c] = r] /\ r.at = "replace"
                      /\ r.doc = req[c].doc /\ r.content = req[c].content
    <3> DEFINE r == [req[c] EXCEPT !.at = "replace", !.old = d]
    <3>1. r.at = "replace" /\ r.doc = req[c].doc /\ r.content = req[c].content
      BY <1>1 DEF Request
    <3>2. req' = [req EXCEPT ![c] = r]
      BY <2>2
    <3> HIDE DEF r
    <3> QED BY <3>1, <3>2
  <2> QED BY <1>4, <1>6, <2>1, <2>2 DEF FindName, Says
<1>7. CASE Requeue(c) \/ Reprocess(c) \/ StageUploaded(c) \/ MarkDeleting(c)
  BY <1>4, <1>7, ProceedMoves DEF Requeue, Reprocess, StageUploaded, MarkDeleting, Says
<1>8. CASE ResetStage(c)
  <2> DEFINE n == req[c].reset + 1
             label == IF n = Len(ResetOrder) THEN "enqueue" ELSE "reset"
             r == [req[c] EXCEPT !.at = label, !.reset = n]
  <2>1. label \in {"reset", "enqueue"} /\ req' = [req EXCEPT ![c] = r]
    BY <1>8 DEF ResetStage
  <2> HIDE DEF label, n
  <2>2. r.at = label /\ r.doc = req[c].doc /\ r.content = req[c].content
    BY <1>1 DEF Request
  <2> HIDE DEF r
  <2> QED BY <2>1, <2>2
<1>9. CASE Replace(c) \/ PurgeOld(c) \/ PutObject(c) \/ InsertDocument(c)
  BY <1>9, ProceedMoves DEF Replace, PurgeOld, PutObject, InsertDocument
<1>10. CASE EnqueueIngest(c) \/ EnqueuePurge(c) \/ RequestFault(c)
  BY <1>4, <1>10 DEF EnqueueIngest, EnqueuePurge, RequestFault, Says
<1> QED BY <1>2, <1>3, <1>5, <1>6, <1>7, <1>8, <1>9, <1>10 DEF UploadStep, ReprocessStep, DeleteStep
-----------------------------------------------------------------------------
(* The stored file.                                                          *)

(* A document that is being purged stays so. *)
LEMMA PurgeStays ==
  ASSUME Forward, NEW d \in Docs, ToBePurged(d)
  PROVE  ToBePurged(d)'
BY DEF Forward, ToBePurged, JobsOf, JobIds

(* A purge worker works on a document that is being purged. *)
LEMMA PurgeWorkerPurges ==
  ASSUME BaseInv, NEW w \in Workers, pc[w] \in PurgeLabels
  PROVE  ToBePurged(DocOf(w)) /\ status[DocOf(w)] # "absent" /\ DocOf(w) \in Docs
<1>1. pc[w] # "idle" /\ LabelStage(pc[w]) = "purge"
  BY LabelFacts
<1>2. job[w] \in JobIds /\ jobs[job[w]].stage = "purge" /\ DocOf(w) \in Docs
  BY <1>1, RunFacts
<1> QED BY <1>2 DEF ToBePurged, JobsOf, DocOf, BaseInv, JobsOK

(* A request comes to "insert" by putting the file. *)
LEMMA InsertAt ==
  ASSUME BaseInv, [Next]_vars, NEW c \in Clients, req'[c].at = "insert"
  PROVE  \/ PutObject(c)
         \/ req[c].at = "insert" /\ req'[c].doc = req[c].doc
<1>1. CASE UNCHANGED req
  BY <1>1
<1>2. CASE Restart
  BY <1>2, IdleFacts DEF Restart
<1>3. CASE RequestNext
  <2>1. PICK b \in Clients : UploadStep(b) \/ ReprocessStep(b) \/ DeleteStep(b) \/ RequestFault(b)
    BY <1>3 DEF RequestNext
  <2>2. PICK r : /\ req' = [req EXCEPT ![b] = r]
                 /\ r.at = "insert" => PutObject(b)
    BY <1>3, <2>1, RequestMoves DEF RequestNext, Anew
  <2> QED BY <2>2 DEF BaseInv, RequestsOK
<1> QED BY <1>1, <1>2, <1>3 DEF Next, WorkerNext, ForeignStart, vars
-----------------------------------------------------------------------------
(* The stored file.                                                          *)

\* A document that nobody has asked to purge has its file, ...
SourceKept == \A d \in Docs : Exists(d) /\ ~ToBePurged(d) => d \in objects

\* ... which is put before the row is inserted, and deleted by purges only.
SourceInv ==
  /\ \A c \in Clients : req[c].at = "insert" => req[c].doc \in objects
  /\ \A d \in Docs : status[d] = "purged" => ToBePurged(d)
  /\ SourceKept

(* Every step keeps the invariant. *)
LEMMA SourceStep ==
  ASSUME BaseInv, SourceInv, [Next]_vars
  PROVE  SourceInv'
<1>1. BaseInv' /\ Forward
  BY BaseStep
<1>2. \A d \in objects : \/ d \in objects'
                         \/ ToBePurged(d) /\ status[d] # "absent"
  <2>1. CASE objects' = objects
    BY <2>1
  <2>2. CASE \E c \in Clients : PutObject(c)
    BY <2>2 DEF PutObject
  <2>3. ASSUME NEW w \in Workers, PurgeObject(w)
        PROVE  \A d \in objects : d \in objects' \/ (ToBePurged(d) /\ status[d] # "absent")
    <3>1. pc[w] \in PurgeLabels
      BY <2>3 DEF PurgeObject, PurgeLabels
    <3>2. objects' = objects \/ objects' = objects \ {DocOf(w)}
      BY <2>3 DEF PurgeObject
    <3>3. ToBePurged(DocOf(w)) /\ status[DocOf(w)] # "absent"
      BY <3>1, PurgeWorkerPurges
    <3> QED BY <3>2, <3>3
  <2> QED BY <2>1, <2>2, <2>3, StepLeaves
<1>3. ASSUME NEW c \in Clients, req'[c].at = "insert"
      PROVE  req'[c].doc \in objects'
  <2>1. CASE PutObject(c)
    BY <2>1 DEF PutObject, Proceed, BaseInv, RequestsOK
  <2>2. CASE req[c].at = "insert" /\ req'[c].doc = req[c].doc
    <3>1. req[c].doc \in objects /\ status[req[c].doc] = "absent"
      BY <2>2 DEF SourceInv, BaseInv, FreshOK, Fresh
    <3> QED BY <1>2, <2>2, <3>1
  <2> QED BY <1>3, <2>1, <2>2, InsertAt
<1>4. ASSUME NEW d \in Docs, status'[d] = "purged"
      PROVE  ToBePurged(d)'
  <2>1. CASE status[d] = "purged"
    BY <1>1, <2>1, PurgeStays DEF SourceInv
  <2>2. CASE status[d] # "purged"
    <3>1. CASE \E c \in Clients : InsertDocument(c)
      BY <1>4, <2>2, <3>1 DEF InsertDocument, InsertDoc, BaseInv, StoreTypeOK
    <3>2. ASSUME NEW w \in Workers, PurgeRow(w)
          PROVE  ToBePurged(d)
      <4>1. pc[w] \in PurgeLabels
        BY <3>2 DEF PurgeRow, PurgeLabels
      <4>2. d = DocOf(w)
        BY <1>4, <2>2, <3>2 DEF PurgeRow, DeleteDoc, rows, BaseInv, StoreTypeOK
      <4> QED BY <4>1, <4>2, PurgeWorkerPurges
    <3> QED BY <1>1, <1>4, <2>2, <3>1, <3>2, PurgeStays DEF Forward, SameDocuments
  <2> QED BY <2>1, <2>2
<1>5. ASSUME NEW d \in Docs, Exists(d)', ~ToBePurged(d)'
      PROVE  d \in objects'
  <2>1. ~ToBePurged(d)
    BY <1>1, <1>5, PurgeStays
  <2>2. CASE Exists(d)
    BY <1>2, <2>1, <2>2 DEF SourceInv, SourceKept
  <2>3. CASE ~Exists(d)
    <3>1. status[d] = "absent"
      BY <2>1, <2>3 DEF SourceInv, Exists
    <3>2. status'[d] # "absent"
      BY <1>5 DEF Exists
    <3>3. PICK c \in Clients : InsertDocument(c)
      <4>1. ~SameDocuments
        BY <3>1, <3>2 DEF SameDocuments
      <4>2. \A w \in Workers : ~PurgeRow(w)
        <5>1. ASSUME NEW w \in Workers, PurgeRow(w) PROVE status'[d] = "absent" \/ status'[d] = "purged"
          BY <3>1, <5>1 DEF PurgeRow, DeleteDoc, rows, BaseInv, StoreTypeOK
        <5> QED BY <1>5, <5>1 DEF Exists
      <4> QED BY <1>1, <4>1, <4>2 DEF Forward
    <3>4. d = req[c].doc /\ req[c].at = "insert"
      BY <3>1, <3>2, <3>3 DEF InsertDocument, InsertDoc, BaseInv, StoreTypeOK
    <3> QED BY <3>3, <3>4 DEF SourceInv, InsertDocument, storage
  <2> QED BY <2>2, <2>3
<1> QED BY <1>3, <1>4, <1>5 DEF SourceInv, SourceKept

(* The file of a document stays until somebody asks to purge it. *)
LEMMA SourceIsKept == Spec => []SourceKept
<1>1. Init => SourceInv
  <2> SUFFICES ASSUME Init PROVE SourceInv
    OBVIOUS
  <2>1. \A c \in Clients : req[c].at # "insert"
    BY IdleFacts DEF Init, RequestsInit
  <2>2. \A d \in Docs : status[d] = "absent"
    BY DEF Init, StoreInit
  <2> QED BY <2>1, <2>2 DEF SourceInv, SourceKept, Exists
<1>2. BaseInv /\ SourceInv /\ [Next]_vars => SourceInv'
  BY SourceStep
<1>3. SourceInv => SourceKept
  BY DEF SourceInv
<1> QED BY <1>1, <1>2, <1>3, PipelineBase, PTL DEF Spec
-----------------------------------------------------------------------------
(* Documents of the same content.                                            *)

RowsOf(content) == {d \in Docs : Exists(d) /\ info[d].content = content}

\* Uploads that have looked for a duplicate and found none.
Admitted(content) ==
  {c \in Clients : /\ req[c].at \in {"name", "replace", "purge_old", "put", "insert"}
                   /\ req[c].content = content}

\* Each of them may insert one row more.
AdmitInv ==
  \A content \in Contents : Cardinality(RowsOf(content)) + Cardinality(Admitted(content)) <= Cardinality(Clients)

(* A subset of the clients is no larger than the clients. *)
LEMMA Counted ==
  /\ IsFiniteSet(Clients) /\ Cardinality(Clients) \in Nat
  /\ \A S \in SUBSET Clients : IsFiniteSet(S) /\ Cardinality(S) \in Nat /\ Cardinality(S) <= Cardinality(Clients)
  /\ \A S \in SUBSET Docs : IsFiniteSet(S) /\ Cardinality(S) \in Nat
BY RequestsAssumption, StoreAssumption, FS_Subset, FS_CardinalityType

(* A row goes into the table by InsertDocument alone. *)
LEMMA NewRows ==
  ASSUME BaseInv, [Next]_vars, NEW d \in Docs, Exists(d)'
  PROVE  \/ Exists(d)
         \/ \E c \in Clients : InsertDocument(c) /\ d = req[c].doc
<1>1. Forward
  BY BaseStep
<1>2. CASE \E w \in Workers : PurgeRow(w)
  BY <1>2 DEF PurgeRow, DeleteDoc, rows, BaseInv, StoreTypeOK, Exists
<1>3. CASE \E c \in Clients : InsertDocument(c)
  BY <1>3 DEF InsertDocument, InsertDoc, BaseInv, StoreTypeOK, Exists
<1>4. CASE SameDocuments
  BY <1>4 DEF SameDocuments, Exists
<1> QED BY <1>1, <1>2, <1>3, <1>4 DEF Forward

(* A row is inserted by an upload that was counted before; another upload is counted only where there is no row. *)
LEMMA AdmitStep ==
  ASSUME BaseInv, AdmitInv, [Next]_vars
  PROVE  AdmitInv'
<1> SUFFICES ASSUME NEW content \in Contents
             PROVE  Cardinality(RowsOf(content)') + Cardinality(Admitted(content)') <= Cardinality(Clients)
  BY DEF AdmitInv
<1> DEFINE R == RowsOf(content)
           A == Admitted(content)
<1>1. /\ R \in SUBSET Docs /\ R' \in SUBSET Docs
      /\ A \in SUBSET Clients /\ A' \in SUBSET Clients
      /\ Cardinality(R) + Cardinality(A) <= Cardinality(Clients)
  BY DEF RowsOf, Admitted, AdmitInv
<1>2. ASSUME R' \subseteq R, A' \subseteq A
      PROVE  Cardinality(R') + Cardinality(A') <= Cardinality(Clients)
  <2> HIDE DEF R, A
  <2>1. Cardinality(R') <= Cardinality(R) /\ Cardinality(A') <= Cardinality(A)
    BY <1>1, <1>2, Counted, FS_Subset
  <2> QED BY <1>1, <2>1, Counted
<1>3. CASE UNCHANGED req
  <2>1. \A c \in Clients : ~InsertDocument(c)
    BY <1>3 DEF InsertDocument, Proceed, BaseInv, RequestsOK, Request
  <2>2. info' = info /\ \A d \in Docs : Exists(d)' => Exists(d)
    BY <2>1, NewRows, StepLeaves
  <2>3. R' \subseteq R /\ A' \subseteq A
    BY <1>3, <2>2 DEF RowsOf, Admitted
  <2> QED BY <1>2, <2>3
<1>4. CASE Restart
  <2>1. \A c \in Clients : ~InsertDocument(c)
    BY <1>4, IdleFacts DEF Restart, InsertDocument, Proceed, BaseInv, RequestsOK, Request
  <2>2. info' = info /\ \A d \in Docs : Exists(d)' => Exists(d)
    BY <2>1, NewRows, StepLeaves
  <2>3. R' \subseteq R
    BY <2>2 DEF RowsOf
  <2>4. \A c \in Clients : req'[c].at = "idle"
    BY <1>4, IdleFacts DEF Restart
  <2>5. A' \subseteq A
    BY <2>4 DEF Admitted
  <2> QED BY <1>2, <2>3, <2>5
<1>5. CASE RequestNext
  <2>1. PICK c \in Clients : UploadStep(c) \/ ReprocessStep(c) \/ DeleteStep(c) \/ RequestFault(c)
    BY <1>5 DEF RequestNext
  <2>2. UNCHANGED handlers
    BY <1>5 DEF RequestNext
  <2>3. PICK r : /\ req' = [req EXCEPT ![c] = r]
                 /\ \/ r.at \in Anew
                    \/ /\ r.doc = req[c].doc /\ r.content = req[c].content
                       /\ \/ Find(c) /\ SameContent(req[c]) = {} /\ r.at = "name"
                          \/ FindName(c) /\ r.at \in {"put", "replace"}
                          \/ Replace(c) /\ r.at = "purge_old"
                          \/ PurgeOld(c) /\ r.at = "put"
                          \/ PutObject(c) /\ r.at = "insert"
                          \/ InsertDocument(c) /\ r.at = "uploaded"
                          \/ r.at \in {"reset", "enqueue", "purge"}
    BY <2>1, <2>2, RequestMoves
  <2>4. \A b \in Clients : req'[b] = IF b = c THEN r ELSE req[b]
    BY <2>3 DEF BaseInv, RequestsOK
  <2>5. ASSUME NEW b \in Clients, InsertDocument(b) PROVE b = c
    <3>1. req[b].at = "insert" /\ req'[b].at = "uploaded"
      BY <2>5 DEF InsertDocument, Proceed, BaseInv, RequestsOK, Request
    <3> QED BY <2>4, <3>1
  <2>6. CASE InsertDocument(c)
    <3> DEFINE d == req[c].doc
    <3>1. /\ req[c].at = "insert" /\ req'[c].at = "uploaded" /\ d \in Docs /\ req[c].content \in Contents
      BY <2>6 DEF InsertDocument, Proceed, BaseInv, RequestsOK, Request, Fresh
    <3>2. /\ info' = [info EXCEPT ![d] = [content |-> req[c].content, name |-> req[c].name]]
          /\ status' = [status EXCEPT ![d] = "pending"]
      BY <2>6 DEF InsertDocument, InsertDoc
    <3>3. status[d] = "absent"
      BY <3>1 DEF BaseInv, FreshOK, Fresh
    <3> HIDE DEF d
    <3>4. \A e \in Docs : e # d => info'[e] = info[e] /\ status'[e] = status[e]
      BY <3>2 DEF BaseInv, StoreTypeOK
    <3>5. info'[d].content = req[c].content
      BY <3>1, <3>2 DEF BaseInv, StoreTypeOK
    <3>6. CASE req[c].content # content
      <4>1. R' \subseteq R
        BY <3>4, <3>5, <3>6 DEF RowsOf, Exists
      <4>2. A' \subseteq A
        BY <2>4, <3>1 DEF Admitted
      <4> QED BY <1>2, <4>1, <4>2
    <3>7. CASE req[c].content = content
      <4>1. R' \subseteq R \cup {d} /\ d \notin R
        BY <3>3, <3>4 DEF RowsOf, Exists
      <4>2. A' \subseteq A \ {c} /\ c \in A
        BY <2>4, <3>1, <3>7 DEF Admitted
      <4> HIDE DEF R, A
      <4>3. /\ IsFiniteSet(R) /\ Cardinality(R) \in Nat /\ IsFiniteSet(A) /\ Cardinality(A) \in Nat
            /\ Cardinality(R') \in Nat /\ Cardinality(A') \in Nat
        BY <1>1, Counted
      <4>4. Cardinality(R \cup {d}) = Cardinality(R) + 1 /\ IsFiniteSet(R \cup {d})
        BY <4>1, <4>3, FS_AddElement
      <4>5. Cardinality(A \ {c}) = Cardinality(A) - 1 /\ IsFiniteSet(A \ {c})
        BY <4>2, <4>3, FS_RemoveElement
      <4>6. Cardinality(R') <= Cardinality(R) + 1
        BY <4>1, <4>4, FS_Subset
      <4>7. Cardinality(A') <= Cardinality(A) - 1
        BY <4>2, <4>5, FS_Subset
      <4>8. Cardinality(R') + Cardinality(A') <= Cardinality(Clients)
        BY <1>1, <4>3, <4>6, <4>7, Counted
      <4> QED BY <4>8 DEF R, A
    <3> QED BY <3>6, <3>7
  <2>7. CASE ~InsertDocument(c)
    <3>1. info' = info /\ \A d \in Docs : Exists(d)' => Exists(d)
      BY <2>5, <2>7, NewRows, StepLeaves
    <3>2. R' \subseteq R
      BY <3>1 DEF RowsOf
    <3>3. CASE Find(c) /\ SameContent(req[c]) = {} /\ req[c].content = content
      <4>1. R' = {}
        BY <3>2, <3>3 DEF RowsOf, SameContent
      <4>2. Cardinality(R') = 0
        BY <4>1, FS_EmptySet
      <4> HIDE DEF R, A
      <4>3. Cardinality(A') \in Nat /\ Cardinality(A') <= Cardinality(Clients) /\ Cardinality(Clients) \in Nat
        BY <1>1, Counted
      <4>4. Cardinality(R') + Cardinality(A') <= Cardinality(Clients)
        BY <4>2, <4>3
      <4> QED BY <4>4 DEF R, A
    <3>4. CASE ~(Find(c) /\ SameContent(req[c]) = {} /\ req[c].content = content)
      <4>1. c \in A' => c \in A
        BY <2>3, <2>4, <2>7, <3>4 DEF Admitted, Anew, FindName, Replace, PurgeOld, PutObject
      <4>2. A' \subseteq A
        BY <2>4, <4>1 DEF Admitted
      <4> QED BY <1>2, <3>2, <4>2
    <3> QED BY <3>3, <3>4
  <2> QED BY <2>6, <2>7
<1> QED BY <1>3, <1>4, <1>5 DEF Next, WorkerNext, ForeignStart, vars

\* There are never more documents of one content than uploads that could overlap:
\* the second transaction of an upload, which inserts, may be late, but each client
\* can be late only once, since its next upload finds the row of the last one.
THEOREM DuplicatesAreBounded == Spec => []DuplicatesBound
<1>1. Init => AdmitInv
  <2> SUFFICES ASSUME Init, NEW content \in Contents
               PROVE  Cardinality(RowsOf(content)) + Cardinality(Admitted(content)) <= Cardinality(Clients)
    BY DEF AdmitInv
  <2>1. RowsOf(content) = {}
    BY DEF Init, StoreInit, RowsOf, Exists
  <2>2. Admitted(content) = {}
    BY IdleFacts DEF Init, RequestsInit, Admitted
  <2> QED BY <2>1, <2>2, FS_EmptySet, Counted
<1>2. BaseInv /\ AdmitInv /\ [Next]_vars => AdmitInv'
  BY AdmitStep
<1>3. AdmitInv => DuplicatesBound
  <2> SUFFICES ASSUME AdmitInv, NEW content \in Contents
               PROVE  Cardinality(RowsOf(content)) <= Cardinality(Clients)
    BY DEF DuplicatesBound, RowsOf
  <2>1. RowsOf(content) \in SUBSET Docs /\ Admitted(content) \in SUBSET Clients
    BY DEF RowsOf, Admitted
  <2>2. Cardinality(RowsOf(content)) + Cardinality(Admitted(content)) <= Cardinality(Clients)
    BY DEF AdmitInv
  <2> QED BY <2>1, <2>2, Counted
<1> QED BY <1>1, <1>2, <1>3, PipelineBase, PTL DEF Spec
-----------------------------------------------------------------------------
(* What a search reads.                                                      *)

\* A document that has, or had, chunk rows.
Seen(d) == ChunksOf(d) # {} \/ status[d] = "purged"

SearchInv ==
  /\ \A c \in chunks : Exists(c.doc)
  /\ \A v \in vectors : Seen(v[1])
  /\ \A w \in Workers : \A c \in loaded[w] : Seen(c.doc)

SamePurged == \A d \in Docs : status'[d] = "purged" <=> status[d] = "purged"

\* The ways in which a step changes rows and vectors.
VectorsChange ==
  /\ chunks' = chunks /\ SamePurged
  /\ \/ vectors' \subseteq vectors
     \/ vectors \subseteq vectors' /\ \E w \in Workers : vectors' \subseteq vectors \cup PointIds(loaded[w])

RowsChange ==
  /\ vectors' = vectors
  /\ (SamePurged /\ \E w \in Workers : InsertChunks(w)) \/ \E w \in Workers : PurgeRow(w)

\* What a handler holds has been read from the table.
LoadedChange ==
  \A w \in Workers : loaded'[w] \subseteq loaded[w] \/ (loaded'[w] \subseteq chunks /\ chunks' = chunks)

(* A handler loads chunks from the table and from nowhere else. *)
LEMMA LoadedStep ==
  ASSUME BaseInv, [Next]_vars
  PROVE  LoadedChange
<1>1. CASE UNCHANGED loaded
  BY <1>1 DEF LoadedChange
<1>2. CASE Restart
  BY <1>2 DEF Restart, LoadedChange
<1>3. CASE WorkerNext
  <2>1. PICK w \in Workers : Claim(w) \/ Step(w) \/ Fault(w)
    BY <1>3 DEF WorkerNext
  <2>2. CASE LoadChunks(w)
    BY <2>2 DEF LoadChunks, ChunksOf, LoadedChange, BaseInv, WorkersOK, store, rows
  <2>3. CASE loaded' = [loaded EXCEPT ![w] = {}]
    BY <2>3 DEF LoadedChange, BaseInv, WorkersOK
  <2>4. UNCHANGED loaded \/ LoadChunks(w) \/ loaded' = [loaded EXCEPT ![w] = {}]
    <3> USE DEF WriteStage, WriteStatus, EnqueueNext, AckJob, NackJob, Raise, Abandon, Except, Goto, Return
    <3>1. CASE Claim(w)
      BY <3>1 DEF Claim
    <3>2. CASE IngestStep(w) \/ IngestFault(w)
      BY <3>2 DEF IngestStep, IngestFault, FetchAndParse, UploadTable, Cut, InsertChunks
    <3>3. CASE EmbedStep(w) \/ EmbedFault(w)
      <4>1. CASE Upsert(w)
        BY <4>1 DEF Upsert, BaseInv, StoreTypeOK
      <4> QED BY <3>3, <4>1 DEF EmbedStep, EmbedFault, Guard, UpsertPart, DropCollection,
                               CreateCollection, RetryUpsert, CommitEmbedded
    <3>4. CASE IndexStep(w) \/ IndexFault(w)
      BY <3>4 DEF IndexStep, IndexFault
    <3>5. CASE PurgeStep(w) \/ PurgeFault(w)
      BY <3>5 DEF PurgeStep, PurgeFault, PurgeVectors, PurgeTable, PurgeObject, PurgeRow, MarkPurgeError
    <3> QED BY <2>1, <3>1, <3>2, <3>3, <3>4, <3>5 DEF Step, Fault
  <2> QED BY <1>1, <2>2, <2>3, <2>4
<1> QED BY <1>1, <1>2, <1>3 DEF Next, RequestNext, ForeignStart, handlers, vars

(* A step changes either vectors or rows. *)
LEMMA SearchChanges ==
  ASSUME BaseInv, [Next]_vars
  PROVE  VectorsChange \/ RowsChange
<1>1. SamePurged \/ \E w \in Workers : PurgeRow(w)
  <2>1. CASE \E c \in Clients : InsertDocument(c)
    <3>1. PICK c \in Clients : InsertDocument(c)
      BY <2>1
    <3>2. status[req[c].doc] = "absent"
      BY <3>1 DEF InsertDocument, BaseInv, FreshOK, Fresh
    <3> QED BY <3>1, <3>2 DEF InsertDocument, InsertDoc, SamePurged, BaseInv, StoreTypeOK
  <2> QED BY <2>1, BaseStep DEF Forward, SameDocuments, SamePurged
<1>2. ASSUME NEW w \in Workers, PurgeRow(w) PROVE RowsChange
  BY <1>2 DEF PurgeRow, RowsChange, storage
<1>3. ASSUME SamePurged, WorkerNext PROVE VectorsChange \/ RowsChange
  <2>1. PICK w \in Workers : Claim(w) \/ Step(w) \/ Fault(w)
    BY <1>3 DEF WorkerNext
  <2>2. CASE Claim(w)
    BY <1>3, <2>2 DEF Claim, storage, VectorsChange
  <2>3. CASE IngestStep(w) \/ IngestFault(w)
    BY <1>3, <2>3, IngestLeaves DEF VectorsChange, RowsChange
  <2>4. CASE EmbedStep(w) \/ EmbedFault(w)
    BY <1>3, <2>4, EmbedLeaves DEF VectorsChange
  <2>5. CASE IndexStep(w) \/ IndexFault(w)
    BY <1>3, <2>5, IndexLeaves DEF storage, VectorsChange
  <2>6. CASE PurgeStep(w) \/ PurgeFault(w)
    BY <1>2, <1>3, <2>6, PurgeLeaves DEF VectorsChange
  <2> QED BY <2>1, <2>2, <2>3, <2>4, <2>5, <2>6 DEF Step, Fault
<1>4. ASSUME SamePurged, RequestNext PROVE VectorsChange
  BY <1>4, RequestLeaves DEF RequestNext, VectorsChange
<1>5. ASSUME SamePurged, Restart \/ ForeignStart \/ UNCHANGED vars PROVE VectorsChange
  BY <1>5 DEF Restart, ProbedVectors, ForeignStart, vars, store, rows, storage, VectorsChange
<1> QED BY <1>1, <1>2, <1>3, <1>4, <1>5 DEF Next

(* A point is of the document of its chunk. *)
LEMMA PointsOf == \A cs, v : v \in PointIds(cs) => \E c \in cs : v = <<c.doc, c.index>> /\ v[1] = c.doc
BY DEF PointIds

(* A document that has been seen stays so. *)
LEMMA SeenStays ==
  ASSUME BaseInv, [Next]_vars, NEW d \in Docs, Seen(d)
  PROVE  Seen(d)'
<1>1. CASE chunks' = chunks
  BY <1>1, BaseStep DEF Seen, ChunksOf, Forward
<1>2. CASE RowsChange
  <2>1. CASE \E w \in Workers : InsertChunks(w)
    BY <2>1, BaseStep DEF InsertChunks, MergeChunks, Seen, ChunksOf, Forward
  <2>2. ASSUME NEW w \in Workers, PurgeRow(w)
        PROVE  Seen(d)'
    <3>1. CASE d = DocOf(w) /\ Exists(d)
      BY <2>2, <3>1 DEF PurgeRow, DeleteDoc, Seen, BaseInv, StoreTypeOK
    <3>2. CASE ~(d = DocOf(w) /\ Exists(d))
      BY <2>2, <3>2, BaseStep DEF PurgeRow, DeleteDoc, rows, Seen, ChunksOf, Forward
    <3> QED BY <3>1, <3>2
  <2> QED BY <1>2, <2>1, <2>2 DEF RowsChange
<1> QED BY <1>1, <1>2, SearchChanges DEF VectorsChange

(* Every step keeps the invariant. *)
LEMMA SearchStep ==
  ASSUME BaseInv, SearchInv, [Next]_vars
  PROVE  SearchInv'
<1>1. BaseInv'
  BY BaseStep
<1>2. /\ \A c \in chunks : c.doc \in Docs
      /\ \A v \in vectors : v[1] \in Docs
      /\ \A w \in Workers : \A c \in loaded[w] : c.doc \in Docs
  BY DEF BaseInv, StoreTypeOK, WorkersOK, ChunkRow
<1>3. ASSUME NEW c \in chunks' PROVE Exists(c.doc)'
  <2>1. CASE VectorsChange
    <3>1. c \in chunks /\ c.doc \in Docs /\ Exists(c.doc)
      BY <1>2, <2>1 DEF VectorsChange, SearchInv
    <3> QED BY <2>1, <3>1, BaseStep DEF VectorsChange, SamePurged, Forward, Exists
  <2>2. ASSUME SamePurged, NEW w \in Workers, InsertChunks(w)
        PROVE  Exists(c.doc)'
    <3>1. c \in chunks \/ (Exists(DocOf(w)) /\ c \in CutChunks(DocOf(w), jobs[job[w]].by))
      BY <2>2 DEF InsertChunks, MergeChunks
    <3>2. pc[w] # "idle"
      BY <2>2 DEF InsertChunks
    <3>3. DocOf(w) \in Docs /\ jobs[job[w]].by \in Strategies
      BY <3>2, RunFacts
    <3>4. c.doc \in Docs /\ Exists(c.doc)
      BY <1>2, <3>1, <3>3, CutTyped DEF SearchInv
    <3> QED BY <2>2, <3>4, BaseStep DEF SamePurged, Forward, Exists
  <2>3. ASSUME NEW w \in Workers, PurgeRow(w)
        PROVE  Exists(c.doc)'
    <3>1. c \in chunks /\ c.doc \in Docs /\ Exists(c.doc)
      BY <1>2, <2>3 DEF PurgeRow, DeleteDoc, rows, SearchInv
    <3>2. CASE Exists(DocOf(w))
      BY <2>3, <3>1, <3>2 DEF PurgeRow, DeleteDoc, ChunksOf, Exists, BaseInv, StoreTypeOK
    <3>3. CASE ~Exists(DocOf(w))
      BY <2>3, <3>1, <3>3 DEF PurgeRow, DeleteDoc, rows, Exists
    <3> QED BY <3>2, <3>3
  <2> QED BY <2>1, <2>2, <2>3, SearchChanges DEF RowsChange
<1>4. ASSUME NEW v \in vectors' PROVE Seen(v[1])'
  <2>1. CASE v \in vectors
    BY <1>2, <2>1, SeenStays DEF SearchInv
  <2>2. CASE v \notin vectors
    <3>1. PICK w \in Workers : v \in PointIds(loaded[w])
      BY <1>4, <2>2, SearchChanges DEF VectorsChange, RowsChange
    <3>2. PICK c \in loaded[w] : v[1] = c.doc
      BY <3>1, PointsOf
    <3> QED BY <1>2, <3>2, SeenStays DEF SearchInv
  <2> QED BY <2>1, <2>2
<1>5. ASSUME NEW w \in Workers, NEW c \in loaded'[w] PROVE Seen(c.doc)'
  <2>1. CASE c \in loaded[w]
    BY <1>2, <2>1, SeenStays DEF SearchInv
  <2>2. CASE c \notin loaded[w]
    <3>1. c \in chunks
      BY <1>5, <2>2, LoadedStep DEF LoadedChange
    <3>2. c.doc \in Docs /\ Seen(c.doc)
      BY <1>2, <3>1 DEF Seen, ChunksOf
    <3> QED BY <3>2, SeenStays
  <2> QED BY <2>1, <2>2
<1> QED BY <1>3, <1>4, <1>5 DEF SearchInv

(* It holds at first. *)
LEMMA SearchInit == Init => SearchInv
BY DEF Init, StoreInit, HandlersInit, SearchInv

(* What a search sees of one document, and how that changes. *)
LifeOf(d) == IF ChunksOf(d) # {}          THEN IF HasVectors(d) THEN "embedded" ELSE "chunked"
             ELSE IF HasVectors(d)        THEN "orphaned"
             ELSE IF status[d] = "purged" THEN "purged" ELSE "absent"

Evolves(d, from, to) ==
  \/ from = to
  \/ from = "absent" /\ to \in {"chunked", "purged"}
  \/ from = "chunked" /\ to \in {"embedded", "purged"}
  \/ from = "embedded" /\ to \in {"chunked", "orphaned"}
  \/ from = "purged" /\ to = "orphaned"
  \/ from = "orphaned" /\ to = "purged"

(* Every step takes a document on in its life, as DocumentIndex has it, or leaves it where it is. *)
LEMMA LifeEvolves ==
  ASSUME BaseInv, SearchInv, [Next]_vars, NEW d \in Docs
  PROVE  Evolves(d, LifeOf(d), LifeOf(d)')
<1>1. ChunksOf(d) # {} => status[d] # "purged"
  BY DEF SearchInv, ChunksOf, Exists
<1>2. HasVectors(d) => Seen(d)
  BY DEF SearchInv, HasVectors
<1>3. BaseInv' /\ SearchInv' /\ Forward
  BY BaseStep, SearchStep
<1>4. CASE VectorsChange
  <2>1. /\ ChunksOf(d)' = ChunksOf(d)
        /\ status'[d] = "purged" <=> status[d] = "purged"
    BY <1>4 DEF VectorsChange, ChunksOf, SamePurged
  <2>2. HasVectors(d)' => Seen(d)'
    BY <1>3 DEF SearchInv, HasVectors
  <2> QED BY <1>1, <1>2, <2>1, <2>2 DEF LifeOf, Evolves, Seen
<1>5. ASSUME SamePurged, NEW w \in Workers, InsertChunks(w), vectors' = vectors
      PROVE  Evolves(d, LifeOf(d), LifeOf(d)')
  <2>1. ChunksOf(d) \subseteq ChunksOf(d)'
    BY <1>5 DEF InsertChunks, MergeChunks, ChunksOf
  <2>2. /\ HasVectors(d)' = HasVectors(d)
        /\ status'[d] = "purged" <=> status[d] = "purged"
    BY <1>5 DEF HasVectors, SamePurged
  <2>3. ChunksOf(d)' # {} => status'[d] # "purged"
    BY <1>3 DEF SearchInv, ChunksOf, Exists
  <2> QED BY <1>1, <1>2, <2>1, <2>2, <2>3 DEF LifeOf, Evolves, Seen
<1>6. ASSUME NEW w \in Workers, PurgeRow(w)
      PROVE  Evolves(d, LifeOf(d), LifeOf(d)')
  <2>1. HasVectors(d)' = HasVectors(d)
    BY <1>6 DEF PurgeRow, storage, HasVectors
  <2>2. CASE d = DocOf(w) /\ Exists(d)
    <3>1. status'[d] = "purged" /\ ChunksOf(d)' = {} /\ status[d] # "purged"
      BY <1>6, <2>2 DEF PurgeRow, DeleteDoc, ChunksOf, BaseInv, StoreTypeOK, Exists
    <3> QED BY <1>2, <2>1, <3>1 DEF LifeOf, Evolves, Seen
  <2>3. CASE ~(d = DocOf(w) /\ Exists(d))
    <3>1. status'[d] = status[d] /\ ChunksOf(d)' = ChunksOf(d)
      BY <1>6, <2>3 DEF PurgeRow, DeleteDoc, rows, ChunksOf, BaseInv, StoreTypeOK
    <3> QED BY <2>1, <3>1 DEF LifeOf, Evolves
  <2> QED BY <2>2, <2>3
<1> QED BY <1>4, <1>5, <1>6, SearchChanges DEF RowsChange

\* The pipeline implements what SearchEngine is checked on: rows and vectors of a
\* document come and go in the order that DocumentIndex says, and once a document's
\* rows are deleted no worker that still runs brings them back.
THEOREM PipelineFeedsSearch == Spec => FeedsSearch
<1> USE DEF SearchIndex!Life
<1>1. IndexLife = [d \in Docs |-> LifeOf(d)]
  BY DEF IndexLife, LifeOf
<1>2. Init => IndexLife = [d \in Docs |-> "absent"]
  <2> SUFFICES ASSUME Init PROVE \A d \in Docs : LifeOf(d) = "absent"
    BY <1>1
  <2> QED BY DEF Init, StoreInit, LifeOf, ChunksOf, HasVectors
<1>3. BaseInv /\ SearchInv /\ [Next]_vars => [SearchIndex!IndexNext]_IndexLife
  <2> SUFFICES ASSUME BaseInv, SearchInv, [Next]_vars PROVE SearchIndex!IndexNext
    OBVIOUS
  <2>1. IndexLife' = [d \in Docs |-> LifeOf(d)']
    BY DEF IndexLife, LifeOf
  <2>2. IndexLife' \in [Docs -> SearchIndex!Life]
    BY <2>1 DEF LifeOf
  <2>3. ASSUME NEW d \in Docs PROVE SearchIndex!Write(d) \/ IndexLife'[d] = IndexLife[d]
    <3>1. IndexLife[d] = LifeOf(d) /\ IndexLife'[d] = LifeOf(d)'
      BY <1>1, <2>1
    <3>2. Evolves(d, IndexLife[d], IndexLife'[d])
      BY <3>1, LifeEvolves
    <3> QED BY <3>2 DEF Evolves, SearchIndex!Write, SearchIndex!CutChunks, SearchIndex!UpsertVectors,
                        SearchIndex!DropVectors, SearchIndex!PurgeRow, SearchIndex!Becomes
  <2> QED BY <2>2, <2>3 DEF SearchIndex!IndexNext
<1>4. SearchInv /\ BaseInv /\ [Next]_vars => SearchInv'
  BY SearchStep
<1> QED BY <1>2, <1>3, <1>4, SearchInit, PipelineBase, PTL DEF Spec, FeedsSearch, SearchIndex!IndexSpec
-----------------------------------------------------------------------------
(* The collection.                                                           *)

(* Which steps change the collection. *)
LEMMA CollectionStep ==
  ASSUME [Next]_vars
  PROVE  \/ collection' = collection
         \/ ForeignStart /\ collection' = "wrong"
         \/ Restart
         \/ \E w \in Workers : DropCollection(w) \/ CreateCollection(w)
<1>1. ASSUME WorkerNext
      PROVE  collection' = collection \/ \E w \in Workers : DropCollection(w) \/ CreateCollection(w)
  <2>1. PICK w \in Workers : Claim(w) \/ Step(w) \/ Fault(w)
    BY <1>1 DEF WorkerNext
  <2>2. CASE Claim(w)
    BY <2>2 DEF Claim, storage
  <2>3. CASE EmbedStep(w) \/ EmbedFault(w)
    BY <2>3 DEF EmbedStep, EmbedFault, Guard, LoadChunks, Upsert, UpsertPart, RetryUpsert, CommitEmbedded,
           WriteStage, WriteStatus, EnqueueNext, AckJob, NackJob, Raise, Abandon, store, storage
  <2> QED BY <2>1, <2>2, <2>3, IngestLeaves, IndexLeaves, PurgeLeaves DEF Step, Fault, storage
<1>2. RequestNext => collection' = collection
  BY RequestLeaves DEF RequestNext
<1>3. ForeignStart => collection' = "wrong"
  BY DEF ForeignStart
<1>4. UNCHANGED vars => collection' = collection
  BY DEF vars, store, storage
<1> QED BY <1>1, <1>2, <1>3, <1>4 DEF Next
=============================================================================
