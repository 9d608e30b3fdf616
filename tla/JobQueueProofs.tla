--------------------------- MODULE JobQueueProofs ---------------------------
(* Theorems about JobQueue, for every number of jobs, workers and instances. *)
EXTENDS JobQueue, FiniteSetTheorems, TLAPS

(* The rows that the statements of db_queue.py write are rows. *)
LEMMA RowTypes ==
  /\ AbsentRow \in Row /\ NewRow \in Row /\ RemovedRow \in Row
  /\ \A r \in Row : /\ ClaimedRow(r) \in Row
                    /\ AckedRow(r) \in Row
                    /\ FailedRow(r) \in Row
                    /\ RecoveredRow(r) \in Row
                    /\ Aged(r) \in Row
<1>1. AbsentRow \in Row /\ NewRow \in Row /\ RemovedRow \in Row
  BY DEF AbsentRow, NewRow, RemovedRow, Row, Status
<1>2. ASSUME NEW r \in Row
      PROVE  ClaimedRow(r) \in Row /\ AckedRow(r) \in Row /\ FailedRow(r) \in Row
             /\ RecoveredRow(r) \in Row
  <2>1. ClaimedRow(r) \in Row
    <3> DEFINE n == r.attempt + 1
    <3>1. n \in Nat
      BY DEF Row
    <3> HIDE DEF n
    <3>2. [r EXCEPT !.status = "processing", !.age = 0, !.attempt = n] \in Row
      BY <3>1 DEF Row, Status
    <3> QED BY <3>2 DEF n, ClaimedRow
  <2>2. AckedRow(r) \in Row
    BY DEF AckedRow, Row, Status, Gone
  <2>3. FailedRow(r) \in Row /\ RecoveredRow(r) \in Row
    BY DEF FailedRow, RecoveredRow, Row, Status
  <2> QED BY <2>1, <2>2, <2>3
<1>3. ASSUME NEW r \in Row PROVE Aged(r) \in Row
  <2> DEFINE m == IF r.status \in {"pending", "processing"} /\ r.due > -Horizon
                  THEN r.due - 1 ELSE r.due
             n == IF r.status = "processing" /\ r.age < LockTimeout
                  THEN r.age + 1 ELSE r.age
  <2>1. m \in Int /\ n \in Nat
    BY DEF Row
  <2> HIDE DEF m, n
  <2>2. [r EXCEPT !.due = m, !.age = n] \in Row
    BY <2>1 DEF Row
  <2> QED BY <2>2 DEF m, n, Aged
<1> QED BY <1>1, <1>2, <1>3

(* So is a row that nack writes, from an attempt count that allows a retry or not. *)
LEMMA NackedType ==
  ASSUME NEW r \in Row, NEW n \in Nat
  PROVE  NackedRow(r, n) \in Row
<1>1. CASE MayRetry(n)
  <2>1. n \in 0 .. MaxAttempts
    BY <1>1, TableAssumption DEF MayRetry
  <2>2. BackoffTicks[n] \in Nat
    BY <2>1, BackoffAssumption
  <2> DEFINE b == BackoffTicks[n]
  <2>3. b \in Int
    BY <2>2
  <2> HIDE DEF b
  <2>4. [r EXCEPT !.status = "pending", !.age = 0, !.due = b] \in Row
    BY <2>3 DEF Row, Status
  <2>5. RetriedRow(r, n) \in Row
    BY <2>4 DEF RetriedRow, b
  <2> QED BY <1>1, <2>5 DEF NackedRow
<1>2. CASE ~MayRetry(n)
  BY <1>2, RowTypes DEF NackedRow
<1> QED BY <1>1, <1>2
-----------------------------------------------------------------------------
LEMMA TypeInit == Init => TypeOK
<1> SUFFICES ASSUME Init PROVE TypeOK
  OBVIOUS
<1>1. row \in [Jobs -> Row]
  BY RowTypes DEF Init
<1> QED BY <1>1, QueueAssumption DEF Init, TypeOK, LoopsOK, Engaged

(* Every step keeps the types, and a worker holds a job exactly while it runs one. *)
LEMMA TypeStep == TypeOK /\ [Next]_vars => TypeOK'
<1> SUFFICES ASSUME TypeOK, [Next]_vars PROVE TypeOK'
  OBVIOUS
<1> USE QueueAssumption DEF TypeOK, LoopsOK, Engaged
<1>1. ASSUME NEW j \in Jobs, Enqueue(j) PROVE TypeOK'
  BY <1>1, RowTypes DEF Enqueue
<1>2. ASSUME NEW w \in Workers, Claim(w) PROVE TypeOK'
  <2> PICK j \in Jobs : /\ row' = [row EXCEPT ![j] = ClaimedRow(@)]
                        /\ held' = [held EXCEPT ![w] = j]
    BY <1>2 DEF Claim
  <2>1. ClaimedRow(row[j]) \in Row
    BY RowTypes
  <2> QED BY <1>2, <2>1 DEF Claim
<1>3. ASSUME NEW w \in Workers, Ack(w) PROVE TypeOK'
  <2>1. held[w] \in Jobs /\ AckedRow(row[held[w]]) \in Row
    BY <1>3, RowTypes DEF Ack
  <2> QED BY <1>3, <2>1 DEF Ack, Release
<1>4. ASSUME NEW w \in Workers, PurgeDoc(w) PROVE TypeOK'
  BY <1>4, RowTypes DEF PurgeDoc, Release
<1>5. ASSUME NEW w \in Workers, NackRead(w) PROVE TypeOK'
  <2>1. held[w] \in Jobs /\ row[held[w]].attempt \in Nat
    BY <1>5 DEF NackRead, Row
  <2> QED BY <1>5, <2>1 DEF NackRead, Release
<1>6. ASSUME NEW w \in Workers, NackWrite(w) PROVE TypeOK'
  <2>1. held[w] \in Jobs /\ NackedRow(row[held[w]], seen[w]) \in Row
    BY <1>6, NackedType DEF NackWrite
  <2> QED BY <1>6, <2>1 DEF NackWrite, Release
<1>7. ASSUME NEW w \in Workers, Abandon(w) PROVE TypeOK'
  BY <1>7 DEF Abandon, Release
<1>8. ASSUME NEW i \in Instances, Stop(i) PROVE TypeOK'
  BY <1>8 DEF Stop
<1>9. ASSUME NEW i \in Instances, Recover(i) PROVE TypeOK'
  BY <1>9, RowTypes DEF Recover
<1>10. ASSUME NEW i \in Instances, Launch(i) PROVE TypeOK'
  <2> PICK old \in SUBSET {j \in Jobs : row[j].status \in Final} :
             row' = [j \in Jobs |-> IF j \in old THEN RemovedRow ELSE row[j]]
    BY <1>10 DEF Launch
  <2>1. row' \in [Jobs -> Row]
    BY RowTypes
  <2>2. /\ instance' = [instance EXCEPT ![i] = "up"]
        /\ pc' = [w \in Workers |-> IF Home[w] = i THEN "idle" ELSE pc[w]]
        /\ UNCHANGED <<docs, held, seen, recoveries, steals, stops, faults>>
    BY <1>10 DEF Launch
  <2>3. \A w \in Workers : Home[w] = i => held[w] = NoJob
    BY <1>10 DEF Launch
  <2> QED BY <2>1, <2>2, <2>3
<1>11. ASSUME Tick PROVE TypeOK'
  BY <1>11, RowTypes DEF Tick
<1>12. CASE UNCHANGED vars
  BY <1>12 DEF vars
<1> QED BY <1>1, <1>2, <1>3, <1>4, <1>5, <1>6, <1>7, <1>8, <1>9, <1>10, <1>11, <1>12 DEF Next

(* The queue's state is always well formed, and a worker loop holds a job       *)
(* exactly between claim and the end of its handler (all of db_queue.py).       *)
THEOREM TypeCorrect == Spec => []TypeOK
BY TypeInit, TypeStep, PTL DEF Spec
-----------------------------------------------------------------------------
(* What each statement does to the status of a row. *)
LEMMA RowStatus ==
  ASSUME NEW r \in Row, NEW n \in Nat
  PROVE  /\ ClaimedRow(r).status = "processing"
         /\ AckedRow(r).status = IF r.status \in Gone THEN r.status ELSE "done"
         /\ NackedRow(r, n).status = IF r.status \in Gone THEN r.status
                                     ELSE IF MayRetry(n) THEN "pending" ELSE "failed"
         /\ RecoveredRow(r).status = "pending"
         /\ Aged(r).status = r.status
<1>1. ClaimedRow(r).status = "processing" /\ RecoveredRow(r).status = "pending"
  BY DEF ClaimedRow, RecoveredRow, Row
<1>2. AckedRow(r).status = IF r.status \in Gone THEN r.status ELSE "done"
  BY DEF AckedRow, Row
<1>3. NackedRow(r, n).status = IF r.status \in Gone THEN r.status
                               ELSE IF MayRetry(n) THEN "pending" ELSE "failed"
  BY DEF NackedRow, RetriedRow, FailedRow, Row
<1>4. Aged(r).status = r.status
  BY DEF Aged, Row
<1> QED BY <1>1, <1>2, <1>3, <1>4

LEMMA HoldersFinite ==
  ASSUME NEW j \in Jobs
  PROVE  IsFiniteSet(Holders(j)) /\ Cardinality(Holders(j)) \in Nat
<1>1. Holders(j) \subseteq Workers
  BY DEF Holders
<1> QED BY <1>1, FS_Subset, FS_CardinalityType, QueueAssumption

(* A worker that returns leaves the holders of its job, and only those. *)
LEMMA HoldersOnRelease ==
  ASSUME TypeOK, NEW w \in Workers, Release(w), pc[w] \in Engaged, NEW j \in Jobs
  PROVE  Cardinality(Holders(j))' = Cardinality(Holders(j)) - (IF held[w] = j THEN 1 ELSE 0)
<1>1. Holders(j)' = Holders(j) \ {w}
  BY QueueAssumption DEF Holders, Release, TypeOK
<1>2. CASE held[w] = j
  <2>1. w \in Holders(j)
    BY <1>2 DEF Holders
  <2> QED BY <1>1, <1>2, <2>1, HoldersFinite, FS_RemoveElement
<1>3. CASE held[w] # j
  <2>1. Holders(j)' = Holders(j)
    BY <1>1, <1>3 DEF Holders
  <2> QED BY <1>3, <2>1, HoldersFinite
<1> QED BY <1>2, <1>3

(* A worker that claims joins the holders of its job, and only those. *)
LEMMA HoldersOnClaim ==
  ASSUME TypeOK, NEW w \in Workers, pc[w] = "idle", NEW k \in Jobs,
         held' = [held EXCEPT ![w] = k], NEW j \in Jobs
  PROVE  Cardinality(Holders(j))' = Cardinality(Holders(j)) + (IF j = k THEN 1 ELSE 0)
<1>1. held[w] = NoJob
  BY DEF TypeOK, LoopsOK, Engaged
<1>2. CASE j = k
  <2>1. Holders(j)' = Holders(j) \cup {w} /\ w \notin Holders(j)
    BY <1>1, <1>2, QueueAssumption DEF Holders, TypeOK
  <2> QED BY <1>2, <2>1, HoldersFinite, FS_AddElement
<1>3. CASE j # k
  <2>1. Holders(j)' = Holders(j)
    BY <1>1, <1>3, QueueAssumption DEF Holders, TypeOK
  <2> QED BY <1>3, <2>1, HoldersFinite
<1> QED BY <1>2, <1>3

(* An instance that stops takes its workers from the holders. *)
LEMMA HoldersOnStop ==
  ASSUME TypeOK, NEW i \in Instances, Stop(i), NEW j \in Jobs
  PROVE  Cardinality(Holders(j))' <= Cardinality(Holders(j))
<1>1. Holders(j)' \subseteq Holders(j)
  BY QueueAssumption DEF Holders, Stop, TypeOK
<1> QED BY <1>1, HoldersFinite, FS_Subset

LEMMA HoldersInit == Init => HoldersBound
<1> SUFFICES ASSUME Init, NEW j \in Jobs
             PROVE  Cardinality(Holders(j)) <= HolderLimit(j)
  BY DEF HoldersBound
<1>1. Holders(j) = {}
  BY QueueAssumption DEF Init, Holders
<1> QED BY <1>1, FS_EmptySet DEF Init, HolderLimit

(* The bound is inductive: only a claim adds a holder, and it takes a pending   *)
(* job; whoever leaves writes a status that allows one holder less; a recovery  *)
(* of a job that is still held counts as a steal.                               *)
LEMMA HoldersStep == TypeOK /\ HoldersBound /\ [Next]_vars => HoldersBound'
<1> SUFFICES ASSUME TypeOK, HoldersBound, [Next]_vars, NEW j \in Jobs
             PROVE  (Cardinality(Holders(j)) <= HolderLimit(j))'
  BY DEF HoldersBound
<1> DEFINE C == Cardinality(Holders(j))
           Limited == C <= HolderLimit(j)
<1> USE DEF MayBeHeld, HolderLimit
<1>0. /\ C \in Nat /\ C' \in Int /\ row[j] \in Row /\ steals[j] \in Nat
      /\ C <= HolderLimit(j)
  <2>1. Holders(j)' \subseteq Workers
    BY DEF Holders
  <2>2. C' \in Nat
    BY <2>1, FS_Subset, FS_CardinalityType, QueueAssumption
  <2> QED BY <2>2, HoldersFinite DEF TypeOK, HoldersBound
<1>1. ASSUME NEW k \in Jobs, Enqueue(k) PROVE Limited'
  <2>1. C' = C /\ steals' = steals
    BY <1>1 DEF Enqueue, Holders
  <2>2. row'[j] = row[j] \/ row[j].status = "absent"
    BY <1>1 DEF Enqueue, TypeOK
  <2> QED BY <1>0, <2>1, <2>2
<1>2. ASSUME NEW w \in Workers, Claim(w) PROVE Limited'
  <2>1. PICK k \in Jobs : /\ IsDue(row[k])
                          /\ row' = [row EXCEPT ![k] = ClaimedRow(@)]
                          /\ held' = [held EXCEPT ![w] = k]
    BY <1>2 DEF Claim, Selectable, DueJobs
  <2>2. C' = C + (IF j = k THEN 1 ELSE 0) /\ steals' = steals
    BY <1>2, <2>1, HoldersOnClaim DEF Claim
  <2>3. IF j = k THEN row[j].status = "pending" /\ row'[j].status = "processing"
                 ELSE row'[j] = row[j]
    BY <1>0, <2>1, RowStatus DEF IsDue, TypeOK
  <2> QED BY <1>0, <2>2, <2>3
<1>3. ASSUME NEW w \in Workers, Ack(w) PROVE Limited'
  <2>1. C' = C - (IF held[w] = j THEN 1 ELSE 0) /\ steals' = steals
    BY <1>3, HoldersOnRelease DEF Ack, Engaged
  <2>2. row'[j] = IF held[w] = j THEN AckedRow(row[j]) ELSE row[j]
    BY <1>3 DEF Ack, TypeOK
  <2> QED BY <1>0, <2>1, <2>2, RowStatus
<1>4. ASSUME NEW w \in Workers, PurgeDoc(w) PROVE Limited'
  <2>1. C' = C - (IF held[w] = j THEN 1 ELSE 0) /\ steals' = steals
    BY <1>4, HoldersOnRelease DEF PurgeDoc, Engaged
  <2>2. row'[j] = row[j] \/ row'[j].status = "removed"
    BY <1>4 DEF PurgeDoc, RemovedRow, AbsentRow
  <2> QED BY <1>0, <2>1, <2>2
<1>5. ASSUME NEW w \in Workers, NackRead(w) PROVE Limited'
  <2>1. C' <= C
    <3>1. CASE row[held[w]].status \in Gone
      <4>1. Release(w) /\ pc[w] \in Engaged
        BY <1>5, <3>1 DEF NackRead, Engaged
      <4> QED BY <4>1, <1>0, HoldersOnRelease
    <3>2. CASE row[held[w]].status \notin Gone
      BY <1>0, <1>5, <3>2 DEF NackRead, Holders
    <3> QED BY <3>1, <3>2
  <2> QED BY <1>0, <1>5, <2>1 DEF NackRead
<1>6. ASSUME NEW w \in Workers, NackWrite(w) PROVE Limited'
  <2>1. C' = C - (IF held[w] = j THEN 1 ELSE 0) /\ steals' = steals
    BY <1>6, HoldersOnRelease DEF NackWrite, Engaged
  <2>2. row'[j] = IF held[w] = j THEN NackedRow(row[j], seen[w]) ELSE row[j]
    BY <1>6 DEF NackWrite, TypeOK
  <2>3. seen[w] \in Nat
    BY DEF TypeOK
  <2> QED BY <1>0, <2>1, <2>2, <2>3, RowStatus
<1>7. ASSUME NEW w \in Workers, Abandon(w) PROVE Limited'
  <2>1. C' = C - (IF held[w] = j THEN 1 ELSE 0)
    BY <1>7, HoldersOnRelease DEF Abandon
  <2> QED BY <1>0, <1>7, <2>1 DEF Abandon
<1>8. ASSUME NEW i \in Instances, Stop(i) PROVE Limited'
  <2>1. C' <= C
    BY <1>8, HoldersOnStop
  <2> QED BY <1>0, <1>8, <2>1 DEF Stop
<1>9. ASSUME NEW i \in Instances, Recover(i) PROVE Limited'
  <2>1. C' = C
    BY <1>9 DEF Recover, Holders
  <2>2. CASE IsStale(row[j])
    <3>1. row'[j].status = "pending" /\ row[j].status = "processing"
      BY <1>0, <1>9, <2>2, RowStatus, row'[j] = RecoveredRow(row[j]) DEF Recover, IsStale
    <3>2. Holders(j) = {} => C = 0
      BY FS_EmptySet
    <3>3. steals'[j] = IF Holders(j) # {} THEN steals[j] + 1 ELSE steals[j]
      BY <1>9, <2>2 DEF Recover, Stolen
    <3> QED BY <1>0, <2>1, <3>1, <3>2, <3>3
  <2>3. CASE ~IsStale(row[j])
    <3>1. row'[j] = row[j] /\ steals'[j] = steals[j]
      BY <1>9, <2>3 DEF Recover, Stolen
    <3> QED BY <1>0, <2>1, <3>1
  <2> QED BY <2>2, <2>3
<1>10. ASSUME NEW i \in Instances, Launch(i) PROVE Limited'
  <2>1. C' = C /\ steals' = steals
    BY <1>10 DEF Launch, Holders
  <2>2. row'[j] = row[j] \/ row'[j].status = "removed"
    BY <1>10 DEF Launch, RemovedRow, AbsentRow
  <2> QED BY <1>0, <2>1, <2>2
<1>11. ASSUME Tick PROVE Limited'
  <2>1. C' = C /\ steals' = steals /\ row'[j] = Aged(row[j])
    BY <1>11 DEF Tick, Holders
  <2> QED BY <1>0, <2>1, RowStatus
<1>12. CASE UNCHANGED vars
  BY <1>0, <1>12 DEF vars, Holders
<1> QED BY <1>1, <1>2, <1>3, <1>4, <1>5, <1>6, <1>7, <1>8, <1>9, <1>10, <1>11, <1>12 DEF Next

(* No job has more holders than one plus the times it was stolen, however many  *)
(* workers and instances run and whenever they crash (db_queue.py:71).          *)
THEOREM HoldersBounded == Spec => []HoldersBound
<1>1. Spec => [](TypeOK /\ HoldersBound)
  <2>1. Init => TypeOK /\ HoldersBound
    BY TypeInit, HoldersInit
  <2>2. TypeOK /\ HoldersBound /\ [Next]_vars => (TypeOK /\ HoldersBound)'
    BY TypeStep, HoldersStep
  <2> QED BY <2>1, <2>2, PTL DEF Spec
<1> QED BY <1>1, PTL
-----------------------------------------------------------------------------
LEMMA SoleInit == Init => SoleInstanceNeverSteals
BY DEF Init, SoleInstanceNeverSteals

(* recover_stale_jobs of the only instance runs while no worker runs. *)
LEMMA SoleStep == TypeOK /\ SoleInstanceNeverSteals /\ [Next]_vars => SoleInstanceNeverSteals'
<1> SUFFICES ASSUME TypeOK, SoleInstanceNeverSteals, [Next]_vars,
                    NEW i \in Instances, Instances = {i}, NEW j \in Jobs
             PROVE  steals'[j] = 0
  BY DEF SoleInstanceNeverSteals
<1>1. steals[j] = 0
  BY DEF SoleInstanceNeverSteals
<1>2. CASE Recover(i)
  <2>1. \A w \in Workers : pc[w] = "off"
    BY <1>2, QueueAssumption DEF Recover, TypeOK, LoopsOK
  <2>2. Holders(j) = {}
    BY <2>1, QueueAssumption DEF Holders, TypeOK, LoopsOK, Engaged
  <2> QED BY <1>1, <1>2, <2>2 DEF Recover, Stolen
<1>3. CASE ~Recover(i)
  BY <1>1, <1>3 DEF Next, vars, Enqueue, Claim, Ack, PurgeDoc, NackRead, NackWrite, Abandon,
                    Stop, Launch, Tick
<1> QED BY <1>2, <1>3

(* With one instance, whatever crashes and however fast it restarts, no job is  *)
(* ever taken from a worker that runs it (main.py:53 before main.py:64).        *)
THEOREM SoleInstance == Spec => []SoleInstanceNeverSteals
<1>1. Spec => [](TypeOK /\ SoleInstanceNeverSteals)
  <2>1. Init => TypeOK /\ SoleInstanceNeverSteals
    BY TypeInit, SoleInit
  <2>2. TypeOK /\ SoleInstanceNeverSteals /\ [Next]_vars => (TypeOK /\ SoleInstanceNeverSteals)'
    BY TypeStep, SoleStep
  <2> QED BY <2>1, <2>2, PTL DEF Spec
<1> QED BY <1>1, PTL
-----------------------------------------------------------------------------
(* Without a steal, nobody is left who could write to a job that has ended. *)
LEMMA NobodyWrites ==
  ASSUME TypeOK, HoldersBound, NEW j \in Jobs, steals[j] = 0, ~MayBeHeld(j), NEW w \in Workers
  PROVE  held[w] # j
<1>1. Cardinality(Holders(j)) = 0
  BY HoldersFinite DEF HoldersBound, HolderLimit
<1>2. Holders(j) = {}
  BY <1>1, HoldersFinite, FS_EmptySet
<1> QED BY <1>2 DEF Holders

LEMMA EndedStepHolds == TypeOK /\ HoldersBound /\ [Next]_vars => EndedStep
<1> SUFFICES ASSUME TypeOK, HoldersBound, [Next]_vars,
                    NEW j \in Jobs, row[j].status \in Final, steals[j] = 0
             PROVE  row'[j].status \in {row[j].status, "removed"}
  BY DEF EndedStep
<1>1. \A w \in Workers : held[w] # j
  BY NobodyWrites DEF MayBeHeld, Final
<1> USE DEF TypeOK
<1>2. ASSUME NEW k \in Jobs, Enqueue(k) PROVE row'[j] = row[j]
  BY <1>2 DEF Enqueue, Final
<1>3. ASSUME NEW w \in Workers, Claim(w) PROVE row'[j] = row[j]
  BY <1>3 DEF Claim, Selectable, DueJobs, IsDue, Final
<1>4. ASSUME NEW w \in Workers, Ack(w) \/ NackRead(w) \/ NackWrite(w) \/ Abandon(w)
      PROVE  row'[j] = row[j]
  BY <1>1, <1>4 DEF Ack, NackRead, NackWrite, Abandon
<1>5. ASSUME NEW w \in Workers, PurgeDoc(w) PROVE row'[j].status \in {row[j].status, "removed"}
  BY <1>5 DEF PurgeDoc, RemovedRow, AbsentRow
<1>6. ASSUME NEW i \in Instances, Stop(i) PROVE row'[j] = row[j]
  BY <1>6 DEF Stop
<1>7. ASSUME NEW i \in Instances, Recover(i) PROVE row'[j] = row[j]
  BY <1>7 DEF Recover, IsStale, Final
<1>8. ASSUME NEW i \in Instances, Launch(i) PROVE row'[j].status \in {row[j].status, "removed"}
  BY <1>8 DEF Launch, RemovedRow, AbsentRow
<1>9. ASSUME Tick PROVE row'[j].status = row[j].status
  BY <1>9, RowStatus DEF Tick
<1>10. CASE UNCHANGED vars
  BY <1>10 DEF vars
<1> QED BY <1>2, <1>3, <1>4, <1>5, <1>6, <1>7, <1>8, <1>9, <1>10 DEF Next

(* A job that is done or failed stays so unless it was stolen before, although   *)
(* ack and nack write without looking (db_queue.py:110 and :135-152).            *)
THEOREM EndedStays == Spec => EndedUnlessStolen
<1>1. Spec => [](TypeOK /\ HoldersBound)
  BY TypeCorrect, HoldersBounded, PTL
<1>2. TypeOK /\ HoldersBound /\ [Next]_vars => [EndedStep]_vars
  BY EndedStepHolds
<1> QED BY <1>1, <1>2, PTL DEF Spec, EndedUnlessStolen
-----------------------------------------------------------------------------
(* The bound on attempts is not inductive.  A pending job will be claimed once   *)
(* more, and so will a job for each worker that has read an attempt count below  *)
(* MaxAttempts and has yet to write "pending".                                   *)
Retriers(j) == {w \in Workers : held[w] = j /\ pc[w] = "nacking" /\ MayRetry(seen[w])}

AttemptsDue(j) == row[j].attempt + Cardinality(Retriers(j))
                    + (IF row[j].status = "pending" THEN 1 ELSE 0)

AttemptInv ==
  \A j \in Jobs : /\ steals[j] <= recoveries[j]
                  /\ AttemptsDue(j) <= MaxAttempts + recoveries[j]

LEMMA RetriersFinite ==
  ASSUME NEW j \in Jobs
  PROVE  /\ IsFiniteSet(Retriers(j))
         /\ Cardinality(Retriers(j)) \in Nat
         /\ Cardinality(Retriers(j)) <= Cardinality(Holders(j))
<1>1. Retriers(j) \subseteq Holders(j)
  BY DEF Retriers, Holders
<1> QED BY <1>1, HoldersFinite, FS_Subset, FS_CardinalityType

LEMMA AddAtMostOne ==
  ASSUME NEW S, NEW T, NEW x, IsFiniteSet(S), T \subseteq S \cup {x}
  PROVE  Cardinality(T) \in Nat /\ Cardinality(T) <= Cardinality(S) + 1
<1>1. IsFiniteSet(S \cup {x}) /\ Cardinality(S) \in Nat
  BY FS_AddElement, FS_CardinalityType
<1>2. Cardinality(S \cup {x}) <= Cardinality(S) + 1
  <2>1. CASE x \in S
    <3>1. S \cup {x} = S
      BY <2>1
    <3>2. Cardinality(S \cup {x}) = Cardinality(S)
      BY <3>1
    <3> QED BY <1>1, <3>2
  <2>2. CASE x \notin S
    BY <1>1, <2>2, FS_AddElement
  <2> QED BY <2>1, <2>2
<1>3. IsFiniteSet(T) /\ Cardinality(T) <= Cardinality(S \cup {x})
  BY <1>1, FS_Subset
<1>4. Cardinality(T) \in Nat /\ Cardinality(S \cup {x}) \in Nat
  BY <1>1, <1>3, FS_CardinalityType
<1> QED BY <1>1, <1>2, <1>3, <1>4

(* A busy worker is a holder that is no retrier. *)
LEMMA BusyNoRetrier ==
  ASSUME NEW w \in Workers, pc[w] = "busy", held[w] \in Jobs
  PROVE  Cardinality(Retriers(held[w])) + 1 <= Cardinality(Holders(held[w]))
<1> DEFINE j == held[w]
<1>1. Retriers(j) \cup {w} \subseteq Holders(j) /\ w \notin Retriers(j)
  BY DEF Retriers, Holders
<1>2. Cardinality(Retriers(j) \cup {w}) <= Cardinality(Holders(j))
  BY <1>1, HoldersFinite, FS_Subset
<1>3. Cardinality(Retriers(j) \cup {w}) = Cardinality(Retriers(j)) + 1
  BY <1>1, RetriersFinite, FS_AddElement
<1> QED BY <1>2, <1>3

(* Unless a worker reads a count that allows a retry, the retriers do not grow. *)
LEMMA RetriersKeep ==
  ASSUME NEW j \in Jobs, Retriers(j)' \subseteq Retriers(j)
  PROVE  Cardinality(Retriers(j)') \in Nat /\ Cardinality(Retriers(j)') <= Cardinality(Retriers(j))
BY RetriersFinite, FS_Subset, FS_CardinalityType

LEMMA AttemptInit == Init => AttemptInv
<1> SUFFICES ASSUME Init, NEW j \in Jobs
             PROVE  /\ steals[j] <= recoveries[j]
                    /\ AttemptsDue(j) <= MaxAttempts + recoveries[j]
  BY DEF AttemptInv
<1>1. Retriers(j) = {}
  BY QueueAssumption DEF Init, Retriers
<1> QED BY <1>1, FS_EmptySet, TableAssumption DEF Init, AttemptsDue, AbsentRow

LEMMA AttemptStep == TypeOK /\ HoldersBound /\ AttemptInv /\ [Next]_vars => AttemptInv'
<1> SUFFICES ASSUME TypeOK, HoldersBound, AttemptInv, [Next]_vars, NEW j \in Jobs
             PROVE  /\ steals'[j] <= recoveries'[j]
                    /\ AttemptsDue(j)' <= MaxAttempts + recoveries'[j]
  BY DEF AttemptInv
<1> DEFINE R == Cardinality(Retriers(j))
           C == Cardinality(Holders(j))
           Pend(r) == IF r.status = "pending" THEN 1 ELSE 0
           Within == /\ steals'[j] <= recoveries'[j]
                     /\ AttemptsDue(j)' <= MaxAttempts + recoveries'[j]
<1>0. /\ R \in Nat /\ C \in Nat /\ R <= C
      /\ row[j] \in Row /\ row[j].attempt \in Nat
      /\ steals[j] \in Nat /\ recoveries[j] \in Nat
      /\ MaxAttempts \in Nat \ {0}
      /\ C <= steals[j] + (IF MayBeHeld(j) THEN 1 ELSE 0)
      /\ steals[j] <= recoveries[j]
      /\ row[j].attempt + R + Pend(row[j]) <= MaxAttempts + recoveries[j]
  BY RetriersFinite, HoldersFinite, TableAssumption
  DEF TypeOK, HoldersBound, HolderLimit, AttemptInv, AttemptsDue, Row
<1>a. AttemptsDue(j)' = row'[j].attempt + R' + Pend(row'[j])
  BY DEF AttemptsDue
\* Most steps leave the history alone and let R and attempt + Pend shrink or stay.
<1>b. ASSUME UNCHANGED <<steals, recoveries>>, Retriers(j)' \subseteq Retriers(j),
             row'[j].attempt \in Nat,
             row'[j].attempt + Pend(row'[j]) <= row[j].attempt + Pend(row[j])
      PROVE  Within
  <2>1. R' \in Nat /\ R' <= R
    BY <1>b, RetriersKeep
  <2> QED BY <1>0, <1>a, <1>b, <2>1
<1>1. ASSUME NEW k \in Jobs, Enqueue(k) PROVE Within
  <2>1. R' = R
    BY <1>1 DEF Enqueue, Retriers
  <2>2. CASE row'[j] = row[j]
    BY <1>0, <1>1, <1>a, <2>1, <2>2 DEF Enqueue
  <2>3. CASE row[j].status = "absent" /\ row'[j] = NewRow
    BY <1>0, <1>1, <1>a, <2>1, <2>3 DEF Enqueue, NewRow, MayBeHeld
  <2> QED BY <1>1, <2>2, <2>3 DEF Enqueue, TypeOK
<1>2. ASSUME NEW w \in Workers, Claim(w) PROVE Within
  <2>1. PICK k \in Jobs : /\ IsDue(row[k])
                          /\ row' = [row EXCEPT ![k] = ClaimedRow(@)]
                          /\ held' = [held EXCEPT ![w] = k]
    BY <1>2 DEF Claim, Selectable, DueJobs
  <2>2. Retriers(j)' \subseteq Retriers(j)
    BY <1>2, <2>1 DEF Claim, Retriers, TypeOK
  <2>3. CASE j = k
    <3>1. row'[j] = ClaimedRow(row[j]) /\ row[j].status = "pending"
      BY <2>1, <2>3 DEF TypeOK, IsDue
    <3>2. row'[j].attempt = row[j].attempt + 1 /\ row'[j].status = "processing"
      BY <1>0, <3>1 DEF ClaimedRow, Row
    <3> QED BY <1>0, <1>2, <1>b, <2>2, <3>1, <3>2 DEF Claim
  <2>4. CASE j # k
    <3>1. row'[j] = row[j]
      BY <2>1, <2>4
    <3> QED BY <1>0, <1>2, <1>b, <2>2, <3>1 DEF Claim
  <2> QED BY <2>3, <2>4
<1>3. ASSUME NEW w \in Workers, Ack(w) PROVE Within
  <2>1. Retriers(j)' \subseteq Retriers(j)
    BY <1>3 DEF Ack, Release, Retriers, TypeOK
  <2>2. row'[j] = row[j] \/ row'[j] = AckedRow(row[j])
    BY <1>3 DEF Ack, TypeOK
  <2>3. row'[j].attempt = row[j].attempt /\ Pend(row'[j]) <= Pend(row[j])
    <3>1. AckedRow(row[j]).attempt = row[j].attempt
      BY <1>0 DEF AckedRow, Row
    <3>2. Pend(AckedRow(row[j])) <= Pend(row[j])
      BY <1>0, RowStatus
    <3> QED BY <1>0, <2>2, <3>1, <3>2
  <2> QED BY <1>0, <1>3, <1>b, <2>1, <2>3 DEF Ack
<1>4. ASSUME NEW w \in Workers, PurgeDoc(w) PROVE Within
  <2>1. Retriers(j)' \subseteq Retriers(j)
    BY <1>4 DEF PurgeDoc, Release, Retriers, TypeOK
  <2>2. row'[j] = row[j] \/ row'[j] = RemovedRow
    BY <1>4 DEF PurgeDoc
  <2> QED BY <1>0, <1>4, <1>b, <2>1, <2>2 DEF PurgeDoc, RemovedRow, AbsentRow
<1>5. ASSUME NEW w \in Workers, NackRead(w) PROVE Within
  <2>0. UNCHANGED <<row, steals, recoveries>>
    BY <1>5 DEF NackRead
  <2>1. CASE Retriers(j)' \subseteq Retriers(j)
    BY <1>0, <1>b, <2>0, <2>1
  <2>2. CASE /\ held[w] = j /\ row[j].status \notin Gone
             /\ seen' = [seen EXCEPT ![w] = row[j].attempt]
             /\ MayRetry(row[j].attempt)
    <3>1. R + 1 <= C
      BY <1>5, <2>2, BusyNoRetrier DEF NackRead
    <3>2. Retriers(j)' \subseteq Retriers(j) \cup {w}
      BY <1>5, <2>2 DEF NackRead, Retriers, TypeOK
    <3>3. R' \in Nat /\ R' <= R + 1
      BY <3>2, RetriersFinite, AddAtMostOne
    <3>4. row[j].attempt + 1 <= MaxAttempts
      BY <1>0, <2>2 DEF MayRetry
    <3>5. R + Pend(row[j]) <= recoveries[j]
      BY <1>0, <2>2, <3>1 DEF MayBeHeld, Gone
    <3> QED BY <1>0, <1>a, <2>0, <3>3, <3>4, <3>5
  <2>3. ASSUME NEW v \in Retriers(j)', v \notin Retriers(j)
        PROVE  /\ held[w] = j /\ row[j].status \notin Gone
               /\ seen' = [seen EXCEPT ![w] = row[j].attempt]
               /\ MayRetry(row[j].attempt)
    BY <1>5, <2>3 DEF NackRead, Release, Retriers, MayRetry, TypeOK
  <2> QED BY <2>1, <2>2, <2>3
<1>6. ASSUME NEW w \in Workers, NackWrite(w) PROVE Within
  <2>0. UNCHANGED <<steals, recoveries>>
    BY <1>6 DEF NackWrite
  <2>1. Retriers(j)' = Retriers(j) \ {w}
    BY <1>6, QueueAssumption DEF NackWrite, Release, Retriers, MayRetry, TypeOK
  <2>2. CASE held[w] # j \/ row[j].status \in Gone
    <3>1. row'[j] = row[j]
      BY <1>6, <2>2 DEF NackWrite, NackedRow, TypeOK
    <3> QED BY <1>0, <1>b, <2>0, <2>1, <3>1
  <2>3. CASE held[w] = j /\ row[j].status \notin Gone /\ MayRetry(seen[w])
    <3>1. w \in Retriers(j)
      BY <1>6, <2>3 DEF NackWrite, Retriers
    <3>2. R' = R - 1
      BY <2>1, <3>1, RetriersFinite, FS_RemoveElement
    <3>3. row'[j] = RetriedRow(row[j], seen[w])
      BY <1>6, <2>3 DEF NackWrite, NackedRow, TypeOK
    <3>4. row'[j].attempt = row[j].attempt
      BY <1>0, <3>3 DEF RetriedRow, Row
    <3>5. Pend(row'[j]) \in {0, 1} /\ Pend(row[j]) \in {0, 1}
      OBVIOUS
    <3>6. row[j].attempt + R <= MaxAttempts + recoveries[j]
      BY <1>0, <3>5
    <3> QED BY <1>0, <1>a, <2>0, <3>2, <3>4, <3>5, <3>6
  <2>4. CASE held[w] = j /\ row[j].status \notin Gone /\ ~MayRetry(seen[w])
    <3>1. row'[j] = FailedRow(row[j])
      BY <1>6, <2>4 DEF NackWrite, NackedRow, TypeOK
    <3>2. row'[j].attempt = row[j].attempt /\ row'[j].status = "failed"
      BY <1>0, <3>1 DEF FailedRow, Row
    <3> QED BY <1>0, <1>b, <2>0, <2>1, <3>2
  <2> QED BY <2>2, <2>3, <2>4
<1>7. ASSUME NEW w \in Workers, Abandon(w) PROVE Within
  <2>1. Retriers(j)' \subseteq Retriers(j)
    BY <1>7 DEF Abandon, Release, Retriers, TypeOK
  <2> QED BY <1>0, <1>7, <1>b, <2>1 DEF Abandon
<1>8. ASSUME NEW i \in Instances, Stop(i) PROVE Within
  <2>1. Retriers(j)' \subseteq Retriers(j)
    BY <1>8 DEF Stop, Retriers, TypeOK
  <2> QED BY <1>0, <1>8, <1>b, <2>1 DEF Stop
<1>9. ASSUME NEW i \in Instances, Recover(i) PROVE Within
  <2>1. R' = R
    BY <1>9 DEF Recover, Retriers
  <2>2. CASE IsStale(row[j])
    <3>1. row'[j] = RecoveredRow(row[j])
      BY <1>9, <2>2 DEF Recover
    <3>2. row'[j].attempt = row[j].attempt /\ row'[j].status = "pending"
      BY <1>0, <3>1 DEF RecoveredRow, Row
    <3>3. recoveries'[j] = recoveries[j] + 1 /\ steals'[j] \in {steals[j], steals[j] + 1}
      BY <1>9, <2>2 DEF Recover
    <3>4. Pend(row'[j]) = 1 /\ Pend(row[j]) = 0
      BY <2>2, <3>2 DEF IsStale
    <3> QED BY <1>0, <1>a, <2>1, <3>2, <3>3, <3>4
  <2>3. CASE ~IsStale(row[j])
    <3>1. row'[j] = row[j] /\ steals'[j] = steals[j] /\ recoveries'[j] = recoveries[j]
      BY <1>9, <2>3 DEF Recover, Stolen
    <3> QED BY <1>0, <1>a, <2>1, <3>1
  <2> QED BY <2>2, <2>3
<1>10. ASSUME NEW i \in Instances, Launch(i) PROVE Within
  <2>1. Retriers(j)' \subseteq Retriers(j)
    <3>1. \A v \in Workers : pc'[v] = "nacking" => pc[v] = "nacking"
      BY <1>10 DEF Launch, TypeOK
    <3> QED BY <1>10, <3>1 DEF Launch, Retriers
  <2>2. row'[j] = row[j] \/ row'[j] = RemovedRow
    BY <1>10 DEF Launch
  <2> QED BY <1>0, <1>10, <1>b, <2>1, <2>2 DEF Launch, RemovedRow, AbsentRow
<1>11. ASSUME Tick PROVE Within
  <2>1. Retriers(j)' \subseteq Retriers(j) /\ row'[j] = Aged(row[j])
    BY <1>11 DEF Tick, Retriers
  <2>2. row'[j].attempt = row[j].attempt /\ row'[j].status = row[j].status
    BY <1>0, <2>1 DEF Aged, Row
  <2> QED BY <1>0, <1>11, <1>b, <2>1, <2>2 DEF Tick
<1>12. CASE UNCHANGED vars
  <2>1. Retriers(j)' \subseteq Retriers(j)
    BY <1>12 DEF vars, Retriers
  <2> QED BY <1>0, <1>12, <1>b, <2>1 DEF vars
<1> QED BY <1>1, <1>2, <1>3, <1>4, <1>5, <1>6, <1>7, <1>8, <1>9, <1>10, <1>11, <1>12 DEF Next

(* A job is attempted at most max_attempts times plus once per recovery: no race  *)
(* of stale nacks, none of which looks at what it overwrites, adds an attempt     *)
(* (db_queue.py:95, 133-155 and 174).                                             *)
THEOREM AttemptsBounded == Spec => []AttemptBound
<1>1. Spec => [](TypeOK /\ HoldersBound /\ AttemptInv)
  <2>1. Init => TypeOK /\ HoldersBound /\ AttemptInv
    BY TypeInit, HoldersInit, AttemptInit
  <2>2. TypeOK /\ HoldersBound /\ AttemptInv /\ [Next]_vars
          => (TypeOK /\ HoldersBound /\ AttemptInv)'
    BY TypeStep, HoldersStep, AttemptStep
  <2> QED BY <2>1, <2>2, PTL DEF Spec
<1>2. TypeOK /\ AttemptInv => AttemptBound
  <2> SUFFICES ASSUME TypeOK, AttemptInv, NEW j \in Jobs
               PROVE  row[j].attempt <= MaxAttempts + recoveries[j]
    BY DEF AttemptBound
  <2>1. row[j].attempt \in Nat /\ recoveries[j] \in Nat /\ MaxAttempts \in Nat
    BY TableAssumption DEF TypeOK, Row
  <2> QED BY <2>1, RetriersFinite DEF AttemptInv, AttemptsDue
<1> QED BY <1>1, <1>2, PTL
-----------------------------------------------------------------------------
LEMMA RemovedStepHolds == TypeOK /\ [Next]_vars => RemovedStep
<1> SUFFICES ASSUME TypeOK, [Next]_vars, NEW j \in Jobs, row[j].status = "removed"
             PROVE  row'[j] = row[j]
  BY DEF RemovedStep
<1>1. row[j].status \in Gone /\ row[j].status \notin Final /\ row[j] \in Row
  BY DEF Gone, Final, TypeOK
<1> USE DEF TypeOK
<1>2. ASSUME NEW k \in Jobs, Enqueue(k) PROVE row'[j] = row[j]
  BY <1>2 DEF Enqueue
<1>3. ASSUME NEW w \in Workers, Claim(w) PROVE row'[j] = row[j]
  BY <1>3 DEF Claim, Selectable, DueJobs, IsDue
<1>4. ASSUME NEW w \in Workers, Ack(w) PROVE row'[j] = row[j]
  BY <1>1, <1>4 DEF Ack, AckedRow
<1>5. ASSUME NEW w \in Workers, NackWrite(w) PROVE row'[j] = row[j]
  BY <1>1, <1>5 DEF NackWrite, NackedRow
<1>6. ASSUME NEW w \in Workers, PurgeDoc(w) PROVE row'[j] = row[j]
  BY <1>1, <1>6 DEF PurgeDoc
<1>7. ASSUME NEW i \in Instances, Recover(i) \/ Launch(i) PROVE row'[j] = row[j]
  BY <1>1, <1>7 DEF Recover, Launch, IsStale
<1>8. CASE Tick
  <2>1. row'[j] = Aged(row[j])
    BY <1>8 DEF Tick
  <2> QED BY <1>1, <2>1 DEF Aged, Row
<1>9. CASE \/ UNCHANGED vars
           \/ \E w \in Workers : NackRead(w) \/ Abandon(w)
           \/ \E i \in Instances : Stop(i)
  BY <1>9 DEF vars, NackRead, Abandon, Stop
<1> QED BY <1>2, <1>3, <1>4, <1>5, <1>6, <1>7, <1>8, <1>9 DEF Next

(* Late acks and nacks of workers whose job was deleted under them change nothing *)
(* (db_queue.py:105 and :122).                                                    *)
THEOREM RemovedStays == Spec => RemovedForGood
BY TypeCorrect, RemovedStepHolds, PTL DEF Spec, RemovedForGood
=============================================================================
