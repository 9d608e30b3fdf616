------------------------- MODULE JobQueueRefinement -------------------------
(* JobQueue implements TaskLifecycle when there is one instance only.        *)
EXTENDS JobQueueProofs

\* docker-compose.yml and the Dockerfile run one instance (uvicorn --workers 1).
OneInstance == \E i \in Instances : Instances = {i}

(* What is known of the state of a queue with one instance. *)
SoleInv == TypeOK /\ HoldersBound /\ SoleInstanceNeverSteals

(* A worker that runs a job runs it alone, and the job is processing unless it  *)
(* has been deleted under the worker (claim and recover_stale_jobs, db_queue.py). *)
LEMMA HolderAlone ==
  ASSUME OneInstance, SoleInv, NEW j \in Jobs, NEW w \in Workers, held[w] = j
  PROVE  Holders(j) = {w} /\ row[j].status \in {"processing", "removed"}
<1>1. Cardinality(Holders(j)) <= (IF MayBeHeld(j) THEN 1 ELSE 0)
  <2>1. steals[j] = 0
    BY DEF OneInstance, SoleInv, SoleInstanceNeverSteals
  <2> QED BY <2>1 DEF SoleInv, HoldersBound, HolderLimit
<1>2. IsFiniteSet(Holders(j)) /\ Cardinality(Holders(j)) \in Nat
  BY HoldersFinite
<1>3. w \in Holders(j)
  BY DEF Holders
<1>4. Cardinality(Holders(j)) # 0
  BY <1>2, <1>3, FS_EmptySet
<1>5. Cardinality(Holders(j)) = 1 /\ MayBeHeld(j)
  BY <1>1, <1>2, <1>4
<1>6. PICK x : Holders(j) = {x}
  BY <1>2, <1>5, FS_Singleton
<1> QED BY <1>3, <1>5, <1>6 DEF MayBeHeld
-----------------------------------------------------------------------------
(* The empty queue is an empty set of tasks. *)
LEMMA LifecycleInit == Init => Lifecycle!Init
<1> SUFFICES ASSUME Init PROVE Lifecycle!Init
  OBVIOUS
<1>1. \A j \in Jobs : row[j].status = "absent" /\ Holders(j) = {}
  BY QueueAssumption DEF Init, AbsentRow, Holders
<1> QED BY <1>1 DEF Lifecycle!Init

(* A job that keeps its status and its holders stays as it is. *)
LEMMA Stays ==
  ASSUME NEW j \in Jobs, row'[j].status = row[j].status, Holders(j)' = Holders(j)
  PROVE  Lifecycle!Live(j)
BY DEF Lifecycle!Live, Lifecycle!Stay

(* Every statement of the queue is, for each job, a step of that job's life. *)
LEMMA LifecycleLive ==
  ASSUME OneInstance, SoleInv, [Next]_vars, NEW j \in Jobs
  PROVE  Lifecycle!Live(j)
<1> USE QueueAssumption
<1> DEFINE Alone(w) == Holders(j) = {w} /\ row[j].status \in {"processing", "removed"}
<1>0. /\ row[j] \in Row /\ row \in [Jobs -> Row] /\ held \in [Workers -> Jobs \cup {NoJob}]
      /\ TypeOK /\ SoleInv /\ OneInstance
  BY DEF SoleInv, TypeOK
\* Who has left has left the job to nobody.
<1>a. ASSUME NEW w \in Workers, held[w] = j, Release(w)
      PROVE  Alone(w) /\ Holders(j)' = {}
  <2>1. Alone(w)
    BY <1>0, <1>a, HolderAlone
  <2>2. Holders(j)' = Holders(j) \ {w}
    BY <1>0, <1>a DEF Holders, Release
  <2> QED BY <2>1, <2>2
<1>b. ASSUME NEW w \in Workers, held[w] # j, Release(w)
      PROVE  Holders(j)' = Holders(j)
  BY <1>0, <1>b DEF Holders, Release
<1>1. ASSUME NEW k \in Jobs, Enqueue(k) PROVE Lifecycle!Live(j)
  <2>1. Holders(j)' = Holders(j)
    BY <1>1 DEF Enqueue, Holders
  <2>2. CASE j = k
    BY <1>0, <1>1, <2>1, <2>2 DEF Enqueue, NewRow, Lifecycle!Live, Lifecycle!Submit
  <2>3. CASE j # k
    BY <1>0, <1>1, <2>1, <2>3, Stays DEF Enqueue
  <2> QED BY <2>2, <2>3
<1>2. ASSUME NEW w \in Workers, Claim(w) PROVE Lifecycle!Live(j)
  <2>1. PICK k \in Jobs : /\ IsDue(row[k])
                          /\ row' = [row EXCEPT ![k] = ClaimedRow(@)]
                          /\ held' = [held EXCEPT ![w] = k]
    BY <1>2 DEF Claim, Selectable, DueJobs
  <2>2. held[w] = NoJob
    BY <1>0, <1>2 DEF Claim, TypeOK, LoopsOK, Engaged
  <2>3. CASE j = k
    <3>1. row[j].status = "pending" /\ row'[j].status = "processing"
      BY <1>0, <2>1, <2>3, RowStatus DEF IsDue
    <3>2. Holders(j) = {}
      <4>1. ASSUME NEW v \in Workers, held[v] = j PROVE FALSE
        BY <1>0, <3>1, <4>1, HolderAlone
      <4> QED BY <4>1 DEF Holders
    <3>3. Holders(j)' = {w}
      BY <1>0, <2>1, <2>3, <3>2 DEF Holders
    <3>4. \A u \in Jobs : w \notin Holders(u)
      BY <2>2 DEF Holders
    <3> QED BY <3>1, <3>2, <3>3, <3>4 DEF Lifecycle!Live, Lifecycle!Begin
  <2>4. CASE j # k
    <3>1. Holders(j)' = Holders(j)
      BY <1>0, <2>1, <2>2, <2>4 DEF Holders
    <3> QED BY <1>0, <2>1, <2>4, <3>1, Stays
  <2> QED BY <2>3, <2>4
<1>3. ASSUME NEW w \in Workers, Ack(w) PROVE Lifecycle!Live(j)
  <2>1. row'[j] = IF held[w] = j THEN AckedRow(row[j]) ELSE row[j]
    BY <1>0, <1>3 DEF Ack
  <2>2. Release(w)
    BY <1>3 DEF Ack
  <2>3. CASE held[w] = j
    <3>1. Alone(w) /\ Holders(j)' = {}
      BY <1>a, <2>2, <2>3
    <3>2. row'[j].status = IF row[j].status = "removed" THEN "removed" ELSE "done"
      BY <1>0, <2>1, <2>3, <3>1, RowStatus DEF Gone
    <3> QED BY <3>1, <3>2 DEF Lifecycle!Live, Lifecycle!End, Lifecycle!Leave
  <2>4. CASE held[w] # j
    BY <1>b, <2>1, <2>2, <2>4, Stays
  <2> QED BY <2>3, <2>4
<1>4. ASSUME NEW w \in Workers, PurgeDoc(w) PROVE Lifecycle!Live(j)
  <2>1. Release(w) /\ held[w] \in Jobs
    BY <1>0, <1>4 DEF PurgeDoc, TypeOK, LoopsOK, Engaged
  <2>2. Holders(j)' \subseteq Holders(j)
    BY <1>0, <2>1 DEF Release, Holders
  <2>3. CASE JobDoc[j] = JobDoc[held[w]] /\ row[j].status \notin Gone
    <3>1. row'[j].status = "removed"
      BY <1>4, <2>3 DEF PurgeDoc, RemovedRow, AbsentRow
    <3> QED BY <2>2, <2>3, <3>1 DEF Gone, Lifecycle!Live, Lifecycle!Remove
  <2>4. CASE ~(JobDoc[j] = JobDoc[held[w]] /\ row[j].status \notin Gone)
    <3>1. row'[j] = row[j]
      BY <1>4, <2>4 DEF PurgeDoc
    <3>2. CASE held[w] = j
      <4>1. Alone(w) /\ Holders(j)' = {}
        BY <1>a, <2>1, <3>2
      <4> QED BY <3>1, <4>1 DEF Lifecycle!Live, Lifecycle!Leave
    <3>3. CASE held[w] # j
      BY <1>b, <2>1, <3>1, <3>3, Stays
    <3> QED BY <3>2, <3>3
  <2> QED BY <2>3, <2>4
<1>5. ASSUME NEW w \in Workers, NackRead(w) PROVE Lifecycle!Live(j)
  <2>1. row' = row
    BY <1>5 DEF NackRead
  <2>2. CASE UNCHANGED held
    BY <2>1, <2>2, Stays DEF Holders
  <2>3. CASE Release(w) /\ held[w] = j
    <3>1. Alone(w) /\ Holders(j)' = {}
      BY <1>a, <2>3
    <3> QED BY <2>1, <3>1 DEF Lifecycle!Live, Lifecycle!Leave
  <2>4. CASE Release(w) /\ held[w] # j
    BY <1>b, <2>1, <2>4, Stays
  <2> QED BY <1>5, <2>2, <2>3, <2>4 DEF NackRead
<1>6. ASSUME NEW w \in Workers, NackWrite(w) PROVE Lifecycle!Live(j)
  <2>1. row'[j] = IF held[w] = j THEN NackedRow(row[j], seen[w]) ELSE row[j]
    BY <1>0, <1>6 DEF NackWrite
  <2>2. Release(w) /\ seen[w] \in Nat
    BY <1>0, <1>6 DEF NackWrite, TypeOK
  <2>3. CASE held[w] = j
    <3>1. Alone(w) /\ Holders(j)' = {}
      BY <1>a, <2>2, <2>3
    <3>2. IF row[j].status = "removed" THEN row'[j].status = "removed"
                                       ELSE row'[j].status \in {"pending", "failed"}
      BY <1>0, <2>1, <2>2, <2>3, <3>1, RowStatus DEF Gone
    <3> QED BY <3>1, <3>2 DEF Lifecycle!Live, Lifecycle!End, Lifecycle!Leave
  <2>4. CASE held[w] # j
    BY <1>b, <2>1, <2>2, <2>4, Stays
  <2> QED BY <2>3, <2>4
<1>7. ASSUME NEW w \in Workers, Abandon(w) PROVE Lifecycle!Live(j)
  <2>1. row' = row /\ Release(w)
    BY <1>7 DEF Abandon
  <2>2. CASE held[w] = j
    <3>1. Alone(w) /\ Holders(j)' = {}
      BY <1>a, <2>1, <2>2
    <3> QED BY <2>1, <3>1 DEF Lifecycle!Live, Lifecycle!Leave
  <2>3. CASE held[w] # j
    BY <1>b, <2>1, <2>3, Stays
  <2> QED BY <2>2, <2>3
<1>8. ASSUME NEW i \in Instances, Stop(i) PROVE Lifecycle!Live(j)
  <2>1. row' = row /\ \A w \in Workers : held'[w] = NoJob
    BY <1>8 DEF Stop, OneInstance
  <2>2. Holders(j)' = {}
    BY <2>1 DEF Holders
  <2>3. CASE Holders(j) = {}
    BY <2>1, <2>2, <2>3, Stays
  <2>4. CASE Holders(j) # {}
    <3>1. PICK w \in Workers : held[w] = j
      BY <2>4 DEF Holders
    <3>2. row[j].status \in {"processing", "removed"}
      BY <1>0, <3>1, HolderAlone
    <3> QED BY <2>1, <2>2, <3>2 DEF Lifecycle!Live, Lifecycle!Leave
  <2> QED BY <2>3, <2>4
<1>9. ASSUME NEW i \in Instances, Recover(i) PROVE Lifecycle!Live(j)
  <2>1. \A w \in Workers : held[w] = NoJob
    BY <1>0, <1>9 DEF Recover, OneInstance, TypeOK, LoopsOK, Engaged
  <2>2. Holders(j) = {} /\ Holders(j)' = {}
    BY <1>9, <2>1 DEF Recover, Holders
  <2>3. CASE IsStale(row[j])
    <3>1. row[j].status = "processing" /\ row'[j].status = "pending"
      BY <1>0, <1>9, <2>3, RowStatus, row'[j] = RecoveredRow(row[j]) DEF Recover, IsStale
    <3> QED BY <2>2, <3>1 DEF Lifecycle!Live, Lifecycle!Reissue
  <2>4. CASE ~IsStale(row[j])
    BY <1>9, <2>2, <2>4, Stays DEF Recover
  <2> QED BY <2>3, <2>4
<1>10. ASSUME NEW i \in Instances, Launch(i) PROVE Lifecycle!Live(j)
  <2>1. Holders(j)' = Holders(j)
    BY <1>10 DEF Launch, Holders
  <2>2. CASE row'[j] = row[j]
    BY <2>1, <2>2, Stays
  <2>3. CASE row'[j] = RemovedRow /\ row[j].status \in Final
    BY <2>1, <2>3 DEF Final, RemovedRow, AbsentRow, Lifecycle!Live, Lifecycle!Remove
  <2> QED BY <1>10, <2>2, <2>3 DEF Launch
<1>11. CASE Tick
  <2>1. row'[j].status = row[j].status
    BY <1>0, <1>11, RowStatus DEF Tick
  <2> QED BY <1>11, <2>1, Stays DEF Tick, Holders
<1>12. CASE UNCHANGED vars
  BY <1>12, Stays DEF vars, Holders
<1> QED BY <1>1, <1>2, <1>3, <1>4, <1>5, <1>6, <1>7, <1>8, <1>9, <1>10, <1>11, <1>12 DEF Next

(* So every step of the queue is a step of TaskLifecycle. *)
LEMMA LifecycleStep ==
  ASSUME OneInstance, SoleInv, TypeOK', [Next]_vars
  PROVE  Lifecycle!Next
<1>1. \A j \in Jobs : Lifecycle!Live(j)
  BY LifecycleLive
<1>2. \A j \in Jobs : /\ row'[j].status \in Lifecycle!TaskStates
                      /\ Holders(j)' \in SUBSET Workers
  BY DEF TypeOK, Row, Status, Lifecycle!TaskStates, Holders
<1> QED BY <1>1, <1>2 DEF Lifecycle!Next

(* With one instance, however often it stops and however fast it restarts, the  *)
(* queue of db_queue.py implements TaskLifecycle: one worker a job, which ends  *)
(* only by its hand, and no job given out while somebody runs it.               *)
THEOREM LifecycleImplemented ==
  ASSUME OneInstance
  PROVE  Spec => ExclusiveLifecycle
<1>1. Spec => []SoleInv
  BY TypeCorrect, HoldersBounded, SoleInstance, PTL DEF SoleInv
<1>2. Spec => []TypeOK
  BY TypeCorrect
<1>3. SoleInv /\ TypeOK' /\ [Next]_vars => [Lifecycle!Next]_(Lifecycle!vars)
  BY LifecycleStep
<1> QED BY <1>1, <1>2, <1>3, LifecycleInit, PTL DEF Spec, ExclusiveLifecycle, Lifecycle!Spec
=============================================================================
