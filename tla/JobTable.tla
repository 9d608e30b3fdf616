------------------------------ MODULE JobTable ------------------------------
(***************************************************************************)
(* Rows of the table pipeline_jobs (db/models.py) and what each statement  *)
(* of workers/db_queue.py does to one of them.                             *)
(*                                                                         *)
(* Time is relative and counted in ticks: "due" is scheduled_at - now,     *)
(* "age" is now - locked_at (0 while locked_at is NULL).  A row is never   *)
(* inserted twice: "absent" is an id not used yet, "removed" one whose row *)
(* has been deleted.                                                       *)
(***************************************************************************)
EXTENDS Integers

CONSTANTS
  MaxAttempts,   \* PipelineJob.max_attempts, 3 in the code
  BackoffUnit,   \* ticks in 10 seconds, the unit of the back-off
  LockTimeout    \* ticks in LOCK_TIMEOUT_MINUTES

ASSUME TableAssumption ==
  /\ MaxAttempts \in Nat \ {0}
  /\ BackoffUnit \in Nat
  /\ LockTimeout \in Nat

Status == {"absent", "pending", "processing", "done", "failed", "removed"}
Row    == [status : Status, attempt : Nat, due : Int, age : Nat]

Final  == {"done", "failed"}
Gone   == {"absent", "removed"}

AbsentRow == [status |-> "absent", attempt |-> 0, due |-> 0, age |-> 0]

\* enqueue: INSERT with the defaults of PipelineJob.
NewRow == [status |-> "pending", attempt |-> 0, due |-> 0, age |-> 0]

\* A deleted row, by cleanup_old_jobs or by the cascade from its document.
RemovedRow == [AbsentRow EXCEPT !.status = "removed"]

\* Mutants of the statements, for the runs to find.
IsDueOrRunning(r)    == r.status \in {"pending", "processing"} /\ r.due <= 0
AckedOrInserted(r)   == [r EXCEPT !.status = "done", !.age = 0]
MayRetryOnce(attempt) == attempt <= MaxAttempts
FailedStillRunning(r) == [r EXCEPT !.age = 0]

\* claim: the WHERE clause, and the assignments to the row it selects.
IsDue(r)      == r.status = "pending" /\ r.due <= 0
ClaimedRow(r) == [r EXCEPT !.status = "processing", !.age = 0, !.attempt = @ + 1]

\* ack: UPDATE by id, whatever the status; zero rows match a deleted job.
AckedRow(r) == IF r.status \in Gone THEN r ELSE [r EXCEPT !.status = "done", !.age = 0]

\* nack: the decision taken from the attempt count it SELECTed, ...
MayRetry(attempt) == attempt < MaxAttempts

\* ... the delay of 2^attempt * 10 seconds, ...
BackoffTicks == [a \in 0 .. MaxAttempts |-> 2 ^ a * BackoffUnit]

\* ... and the UPDATE by id that follows, again whatever the status is by then.
RetriedRow(r, seen) == [r EXCEPT !.status = "pending", !.age = 0, !.due = BackoffTicks[seen]]
FailedRow(r)        == [r EXCEPT !.status = "failed", !.age = 0]
NackedRow(r, seen)  == IF r.status \in Gone THEN r
                       ELSE IF MayRetry(seen) THEN RetriedRow(r, seen)
                       ELSE FailedRow(r)

\* recover_stale_jobs: its WHERE clause, and what it writes (scheduled_at and
\* attempt stay as they are).
IsStale(r)      == r.status = "processing" /\ r.age >= LockTimeout
RecoveredRow(r) == [r EXCEPT !.status = "pending", !.age = 0]

\* The back-off is a number of ticks (TLC evaluates this on every run).
ASSUME BackoffAssumption == \A a \in 0 .. MaxAttempts : BackoffTicks[a] \in Nat
=============================================================================
