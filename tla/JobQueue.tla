------------------------------ MODULE JobQueue ------------------------------
(***************************************************************************)
(* The durable job queue of workers/db_queue.py with the worker loops and  *)
(* application instances that use it (workers/*_worker.py, main.py).       *)
(*                                                                         *)
(* A worker of an instance claims a job of its stage, runs the stage's     *)
(* handler and ends it with ack or nack.  An instance may stop at any      *)
(* point (crash, or shutdown_workers, which cancels the handlers without   *)
(* a nack) and starts again with recover_stale_jobs, cleanup_old_jobs and  *)
(* the launch of its workers.  What the handlers do is left to Pipeline;   *)
(* of the documents only the foreign key matters here: deleting a document *)
(* deletes its jobs.                                                       *)
(***************************************************************************)
EXTENDS JobTable, FiniteSets

CONSTANTS
  Jobs, Docs, Workers, Instances,
  NoJob,         \* "held" of a worker that runs no job
  JobDoc,        \* the document a job row belongs to
  JobStage,      \* the stage column of a job row
  WorkerStage,   \* the stage a worker polls
  Home,          \* the instance a worker runs in
  FastRestart,   \* TRUE: an instance may restart before the locks of its jobs time out
  Horizon,       \* bound: scheduled_at is told apart up to Horizon ticks in the past
  MaxStops,      \* bound: stops of instances in a behaviour
  MaxFaults      \* bound: handlers that die outside ack and nack in a behaviour

Stages == {"ingest", "embed", "index", "purge"}

ASSUME QueueAssumption ==
  /\ JobDoc \in [Jobs -> Docs]
  /\ JobStage \in [Jobs -> Stages]
  /\ WorkerStage \in [Workers -> Stages]
  /\ Home \in [Workers -> Instances]
  /\ IsFiniteSet(Workers)
  /\ NoJob \notin Jobs
  /\ FastRestart \in BOOLEAN
  /\ Horizon \in Nat
  /\ MaxStops \in Nat
  /\ MaxFaults \in Nat

VARIABLES
  row,           \* [Jobs -> Row], the table
  docs,          \* documents whose row exists
  instance,      \* [Instances -> {"down", "booting", "up"}]
  pc,            \* [Workers -> {"off", "idle", "busy", "nacking"}]
  held,          \* [Workers -> Jobs \cup {NoJob}], the job a worker runs
  seen,          \* [Workers -> Nat], the attempt count a nacking worker read
  recoveries,    \* history: how often recover_stale_jobs has reset a job
  steals,        \* history: how often it did so while a worker still ran it
  stops, faults  \* how many of MaxStops, MaxFaults have happened

vars == <<row, docs, instance, pc, held, seen, recoveries, steals, stops, faults>>

Engaged     == {"busy", "nacking"}
Holders(j)  == {w \in Workers : held[w] = j}
Orphaned(j) == row[j].status = "processing" /\ Holders(j) = {}

Init ==
  /\ row = [j \in Jobs |-> AbsentRow]
  /\ docs = Docs
  /\ instance = [i \in Instances |-> "down"]
  /\ pc = [w \in Workers |-> "off"]
  /\ held = [w \in Workers |-> NoJob]
  /\ seen = [w \in Workers |-> 0]
  /\ recoveries = [j \in Jobs |-> 0]
  /\ steals = [j \in Jobs |-> 0]
  /\ stops = 0
  /\ faults = 0

-----------------------------------------------------------------------------
(* Producers: the API handlers and the workers of the previous stage.       *)

\* enqueue.  A missing document makes the INSERT fail on the foreign key, which
\* enqueue swallows: no row, no change.
Enqueue(j) ==
  /\ \E i \in Instances : instance[i] = "up"
  /\ row[j].status = "absent"
  /\ JobDoc[j] \in docs
  /\ row' = [row EXCEPT ![j] = NewRow]
  /\ UNCHANGED <<docs, instance, pc, held, seen, recoveries, steals, stops, faults>>

-----------------------------------------------------------------------------
(* Workers.                                                                 *)

DueJobs(stage)     == {j \in Jobs : JobStage[j] = stage /\ IsDue(row[j])}
IdleWorkers(stage) == {w \in Workers : WorkerStage[w] = stage /\ pc[w] = "idle"}

\* ORDER BY scheduled_at LIMIT 1 FOR UPDATE SKIP LOCKED: an older row is passed
\* over only while another poller's open transaction has it locked.
Selectable(j, stage) ==
  /\ j \in DueJobs(stage)
  /\ Cardinality({k \in DueJobs(stage) : row[k].due < row[j].due})
       < Cardinality(IdleWorkers(stage))

\* claim, from the polling loop of wait_for_job.
Claim(w) ==
  /\ pc[w] = "idle"
  /\ \E j \in Jobs :
       /\ Selectable(j, WorkerStage[w])
       /\ row' = [row EXCEPT ![j] = ClaimedRow(@)]
       /\ held' = [held EXCEPT ![w] = j]
  /\ pc' = [pc EXCEPT ![w] = "busy"]
  /\ UNCHANGED <<docs, instance, seen, recoveries, steals, stops, faults>>

\* A mutant: the loop forgets to drop the job.
ReleaseKeepsJob(w) ==
  /\ pc' = [pc EXCEPT ![w] = "idle"]
  /\ UNCHANGED held

\* The handler has returned; the worker polls again.
Release(w) ==
  /\ pc' = [pc EXCEPT ![w] = "idle"]
  /\ held' = [held EXCEPT ![w] = NoJob]

\* The handler succeeds, or ends for good on a document it cannot process: ack.
Ack(w) ==
  /\ pc[w] = "busy"
  /\ JobStage[held[w]] # "purge"
  /\ row' = [row EXCEPT ![held[w]] = AckedRow(@)]
  /\ Release(w)
  /\ UNCHANGED <<docs, instance, seen, recoveries, steals, stops, faults>>

\* The purge handler deletes the document; its jobs, this one among them, go
\* with it (ON DELETE CASCADE), so the handler returns without an ack.
PurgeDoc(w) ==
  /\ pc[w] = "busy"
  /\ JobStage[held[w]] = "purge"
  /\ docs' = docs \ {JobDoc[held[w]]}
  /\ row' = [j \in Jobs |-> IF JobDoc[j] = JobDoc[held[w]] /\ row[j].status \notin Gone
                            THEN RemovedRow ELSE row[j]]
  /\ Release(w)
  /\ UNCHANGED <<instance, seen, recoveries, steals, stops, faults>>

\* The handler raises: nack, first the SELECT.  A deleted row ends it there.
NackRead(w) ==
  /\ pc[w] = "busy"
  /\ IF row[held[w]].status \in Gone
       THEN Release(w) /\ UNCHANGED seen
       ELSE /\ pc' = [pc EXCEPT ![w] = "nacking"]
            /\ seen' = [seen EXCEPT ![w] = row[held[w]].attempt]
            /\ UNCHANGED held
  /\ UNCHANGED <<row, docs, instance, recoveries, steals, stops, faults>>

\* Then the UPDATE, by id and without a lock in between.
NackWrite(w) ==
  /\ pc[w] = "nacking"
  /\ row' = [row EXCEPT ![held[w]] = NackedRow(@, seen[w])]
  /\ seen' = [seen EXCEPT ![w] = 0]
  /\ Release(w)
  /\ UNCHANGED <<docs, instance, recoveries, steals, stops, faults>>

\* The handler's own except branch, ack or nack raises (the database is away):
\* the worker loop logs it and goes on with the next job.
Abandon(w) ==
  /\ pc[w] \in Engaged
  /\ faults < MaxFaults
  /\ faults' = faults + 1
  /\ seen' = [seen EXCEPT ![w] = 0]
  /\ Release(w)
  /\ UNCHANGED <<row, docs, instance, recoveries, steals, stops>>

-----------------------------------------------------------------------------
(* Instances.                                                               *)

\* A mutant: the handlers of a stopped instance run on.
StopKeepsWorkers(i) ==
  /\ instance[i] # "down"
  /\ stops < MaxStops
  /\ stops' = stops + 1
  /\ instance' = [instance EXCEPT ![i] = "down"]
  /\ UNCHANGED <<row, docs, pc, held, seen, recoveries, steals, faults>>

\* A crash, or shutdown_workers: CancelledError is no Exception, so a cancelled
\* handler does not nack.  Either way the rows stay "processing".
Stop(i) ==
  /\ instance[i] # "down"
  /\ stops < MaxStops
  /\ stops' = stops + 1
  /\ instance' = [instance EXCEPT ![i] = "down"]
  /\ pc' = [w \in Workers |-> IF Home[w] = i THEN "off" ELSE pc[w]]
  /\ held' = [w \in Workers |-> IF Home[w] = i THEN NoJob ELSE held[w]]
  /\ seen' = [w \in Workers |-> IF Home[w] = i THEN 0 ELSE seen[w]]
  /\ UNCHANGED <<row, docs, recoveries, steals, faults>>

Stolen(j) == IsStale(row[j]) /\ Holders(j) # {}

\* lifespan, first half: recover_stale_jobs.
Recover(i) ==
  /\ instance[i] = "down"
  /\ FastRestart \/ \A j \in Jobs : Orphaned(j) => IsStale(row[j])
  /\ instance' = [instance EXCEPT ![i] = "booting"]
  /\ row' = [j \in Jobs |-> IF IsStale(row[j]) THEN RecoveredRow(row[j]) ELSE row[j]]
  /\ recoveries' = [j \in Jobs |-> IF IsStale(row[j]) THEN recoveries[j] + 1 ELSE recoveries[j]]
  /\ steals' = [j \in Jobs |-> IF Stolen(j) THEN steals[j] + 1 ELSE steals[j]]
  /\ UNCHANGED <<docs, pc, held, seen, stops, faults>>

\* lifespan, second half: cleanup_old_jobs deletes the finished jobs of more
\* than a week ago (any of them here), then the workers start.
Launch(i) ==
  /\ instance[i] = "booting"
  /\ instance' = [instance EXCEPT ![i] = "up"]
  /\ \E old \in SUBSET {j \in Jobs : row[j].status \in Final} :
       row' = [j \in Jobs |-> IF j \in old THEN RemovedRow ELSE row[j]]
  /\ pc' = [w \in Workers |-> IF Home[w] = i THEN "idle" ELSE pc[w]]
  /\ UNCHANGED <<docs, held, seen, recoveries, steals, stops, faults>>

\* A tick of the clock.  Nothing reads scheduled_at of a finished job again
\* before a nack sets it anew.
Aged(r) ==
  [r EXCEPT
     !.due = IF r.status \in {"pending", "processing"} /\ r.due > -Horizon
             THEN r.due - 1 ELSE r.due,
     !.age = IF r.status = "processing" /\ r.age < LockTimeout THEN r.age + 1 ELSE r.age]

Tick ==
  /\ row' = [j \in Jobs |-> Aged(row[j])]
  /\ UNCHANGED <<docs, instance, pc, held, seen, recoveries, steals, stops, faults>>

-----------------------------------------------------------------------------
Next ==
  \/ \E j \in Jobs : Enqueue(j)
  \/ \E w \in Workers :
       Claim(w) \/ Ack(w) \/ PurgeDoc(w) \/ NackRead(w) \/ NackWrite(w) \/ Abandon(w)
  \/ \E i \in Instances : Stop(i) \/ Recover(i) \/ Launch(i)
  \/ Tick

Spec == Init /\ [][Next]_vars

\* What asyncio and PostgreSQL give: pollers poll, handlers end, statements of a
\* nack end, an instance that is down is restarted (restart: unless-stopped) and
\* boots, the clock runs.  Enqueue, Stop and Abandon are never forced.
Finish(w) == Ack(w) \/ PurgeDoc(w) \/ NackRead(w)

Fairness ==
  /\ WF_vars(Tick)
  /\ \A w \in Workers : WF_vars(Claim(w)) /\ WF_vars(Finish(w)) /\ WF_vars(NackWrite(w))
  /\ \A i \in Instances : WF_vars(Recover(i)) /\ WF_vars(Launch(i))

FairSpec == Spec /\ Fairness
-----------------------------------------------------------------------------
\* A worker holds a job while it runs one, and runs while its instance is up.
LoopsOK ==
  \A w \in Workers : /\ pc[w] \in Engaged <=> held[w] # NoJob
                     /\ pc[w] = "off" <=> instance[Home[w]] # "up"

\* The types of the state, and the state of the worker loops.
TypeOK ==
  /\ row \in [Jobs -> Row]
  /\ docs \subseteq Docs
  /\ instance \in [Instances -> {"down", "booting", "up"}]
  /\ pc \in [Workers -> {"off", "idle", "busy", "nacking"}]
  /\ held \in [Workers -> Jobs \cup {NoJob}]
  /\ seen \in [Workers -> Nat]
  /\ recoveries \in [Jobs -> Nat]
  /\ steals \in [Jobs -> Nat]
  /\ stops \in Nat
  /\ faults \in Nat
  /\ LoopsOK

\* A row a worker may be running without having been robbed of it: it is
\* processing, or has been deleted under the worker.
MayBeHeld(j) == row[j].status \in {"processing", "removed"}

\* How many workers may run a job: one, and one more for each steal.
HolderLimit(j) == steals[j] + (IF MayBeHeld(j) THEN 1 ELSE 0)

\* claim is "safe with N concurrent workers" (db_queue.py:71) up to what
\* recover_stale_jobs takes away: a job has at most one worker, plus one for
\* every time a starting instance reset it under a worker that was still
\* running it (a parse may take twice the lock timeout).
HoldersBound ==
  \A j \in Jobs : Cardinality(Holders(j)) <= HolderLimit(j)

\* One instance only (docker-compose.yml, uvicorn --workers 1) never steals, so
\* there no job ever runs twice at once.
SoleInstanceNeverSteals ==
  (\E i \in Instances : Instances = {i}) => \A j \in Jobs : steals[j] = 0

\* max_attempts is no bound on how often a job runs: a crash costs an attempt
\* and recover_stale_jobs does not look at the count, so each recovery may add
\* one.  No interleaving of stale nacks adds more.
AttemptBound ==
  \A j \in Jobs : row[j].attempt <= MaxAttempts + recoveries[j]

EndedStep ==
  \A j \in Jobs : row[j].status \in Final /\ steals[j] = 0
                  => row'[j].status \in {row[j].status, "removed"}

\* Neither ack nor nack looks at the status it overwrites.  Still, a job that has
\* ended stays ended, until its row is deleted, unless it was stolen before: only
\* then is another worker left whose late nack puts it back to pending.
EndedUnlessStolen == [][EndedStep]_vars

RemovedStep ==
  \A j \in Jobs : row[j].status = "removed" => row'[j] = row[j]

\* A deleted job stays deleted: every late claim, ack or nack of a worker that
\* still runs it is a statement that matches no row.
RemovedForGood == [][RemovedStep]_vars

\* Every job ends, also when its worker crashes on it, provided that no handler
\* dies outside ack and nack and that an instance does not come back before the
\* locks it left have timed out.
JobEnds ==
  \A j \in Jobs : row[j].status = "pending" ~> row[j].status \in Final \cup {"removed"}

\* The life of a job as the users of the queue see it: its status, and who runs it.
Lifecycle == INSTANCE TaskLifecycle WITH
  Tasks   <- Jobs,
  Agents  <- Workers,
  state   <- [j \in Jobs |-> row[j].status],
  runners <- [j \in Jobs |-> Holders(j)]

\* With one instance the queue keeps the promise of TaskLifecycle in every step: a
\* job waits, is run by one worker at a time, ends only by the hand of that worker,
\* is given out again only when nobody runs it any more, and is removed for good;
\* although ack, nack and recover_stale_jobs (db_queue.py:102-180) all write by id
\* without a look at who holds the job.
ExclusiveLifecycle == Lifecycle!Spec

\* What main.py:50 says of the start: "Recover jobs that were 'processing' when
\* the last instance died".  No running handler has died here (MaxFaults = 0).
StartupRecovers ==
  (\A i \in Instances : instance[i] = "up") => \A j \in Jobs : ~Orphaned(j)
=============================================================================
