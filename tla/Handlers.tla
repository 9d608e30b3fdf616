------------------------------ MODULE Handlers ------------------------------
(***************************************************************************)
(* The worker loops and the moves their handlers are made of.  A handler   *)
(* is a program over labels: pc says which statement or external call of   *)
(* it comes next, and each of them is one step.  Everything a handler does *)
(* is inside one try, so any of its steps may raise instead, which takes   *)
(* it to the label of its except branch.                                   *)
(***************************************************************************)
EXTENDS Store

CONSTANTS
  Workers,
  WorkerStage    \* the stage a worker polls

ASSUME HandlersAssumption == WorkerStage \in [Workers -> JobStages]

VARIABLES
  pc,            \* where a worker is, "idle" when it polls
  job,           \* the job it runs, 0 when it polls
  loaded         \* the chunk rows an embed worker has read

DocOf(w) == jobs[job[w]].doc
RowOf(w) == jobs[job[w]].row

\* Mutants: the row is deleted first; an except branch does nothing but nack.
EntryRowFirst == [ingest |-> "parse", embed |-> "guard", index |-> "index", purge |-> "row"]
HandlerNackOnly == [ingest |-> "ingest_nack", embed |-> "embed_nack",
                    index  |-> "index_nack",  purge |-> "purge_nack"]

\* Where a handler starts, and where its except branch does.
Entry   == [ingest |-> "parse", embed |-> "guard", index |-> "index", purge |-> "vectors"]
Handler == [ingest |-> "ingest_failed", embed |-> "embed_failed",
            index  |-> "index_failed",  purge |-> "purge_failed"]

HandlersInit ==
  /\ pc = [w \in Workers |-> "idle"]
  /\ job = [w \in Workers |-> 0]
  /\ loaded = [w \in Workers |-> {}]

Goto(w, label) ==
  /\ pc' = [pc EXCEPT ![w] = label]
  /\ UNCHANGED <<job, loaded>>

\* A mutant: the loop forgets to drop the job.
ReturnKeepsJob(w) ==
  /\ pc' = [pc EXCEPT ![w] = "idle"]
  /\ loaded' = [loaded EXCEPT ![w] = {}]
  /\ UNCHANGED job

Return(w) ==
  /\ pc' = [pc EXCEPT ![w] = "idle"]
  /\ job' = [job EXCEPT ![w] = 0]
  /\ loaded' = [loaded EXCEPT ![w] = {}]

Except(w) == Goto(w, Handler[WorkerStage[w]])

\* wait_for_job: claim any pending job of the stage.
Claim(w) ==
  /\ pc[w] = "idle"
  /\ \E i \in JobIds :
       /\ jobs[i].stage = WorkerStage[w]
       /\ IsDue(jobs[i].row)
       /\ jobs' = [jobs EXCEPT ![i].row = ClaimedRow(@)]
       /\ job' = [job EXCEPT ![w] = i]
  /\ pc' = [pc EXCEPT ![w] = Entry[WorkerStage[w]]]
  /\ UNCHANGED <<status, info, stage, chunks, storage, loaded, faults>>

\* await update_stage(document_id, tenant_id, st, s)
WriteStage(w, here, st, s, next) ==
  /\ pc[w] = here
  /\ SetStage(DocOf(w), st, s)
  /\ Goto(w, next)
  /\ UNCHANGED <<status, info, chunks, jobs, storage, faults>>

\* await _set_doc_status(document_id, s)
WriteStatus(w, here, s, next) ==
  /\ pc[w] = here
  /\ SetStatus(DocOf(w), s)
  /\ Goto(w, next)
  /\ UNCHANGED <<info, stage, chunks, jobs, storage, faults>>

\* await enqueue(st, document_id, tenant_id, ...)
EnqueueNext(w, here, st, next) ==
  /\ pc[w] = here
  /\ Enqueue(st, DocOf(w), jobs[job[w]].by)
  /\ Goto(w, next)
  /\ UNCHANGED <<status, info, stage, chunks, storage, faults>>

\* await ack(job_id), then return
AckJob(w, here) ==
  /\ pc[w] = here
  /\ jobs' = [jobs EXCEPT ![job[w]].row = AckedRow(@)]
  /\ Return(w)
  /\ UNCHANGED <<status, info, stage, chunks, storage, faults>>

\* await nack(job_id, ...), then return.  JobQueue has its two statements apart.
NackJob(w, here) ==
  /\ pc[w] = here
  /\ jobs' = [jobs EXCEPT ![job[w]].row = NackedRow(@, RowOf(w).attempt)]
  /\ Return(w)
  /\ UNCHANGED <<status, info, stage, chunks, storage, faults>>

\* A statement or a call of the try block raises before it takes effect.
Raise(w, body) ==
  /\ pc[w] \in body
  /\ MayFault(WorkerStage[w])
  /\ Except(w)
  /\ UNCHANGED store

\* One of the except branch does: the loop catches it and polls again, the job
\* stays "processing".
Abandon(w, branch) ==
  /\ pc[w] \in branch
  /\ MayFault(WorkerStage[w])
  /\ Return(w)
  /\ UNCHANGED store
-----------------------------------------------------------------------------
HandlersTypeOK ==
  /\ \A w \in Workers : job[w] \in JobIds \cup {0} /\ (job[w] = 0 <=> pc[w] = "idle")
  /\ \A w \in Workers : loaded[w] \subseteq [doc : Docs, index : Nat, by : Strategies]
=============================================================================
