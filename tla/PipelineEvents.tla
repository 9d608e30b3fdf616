--------------------------- MODULE PipelineEvents ---------------------------
(***************************************************************************)
(* Stage updates on their way to the status page: update_stage commits a   *)
(* row and then puts an event into the queue of every open stream          *)
(* (core/pipeline.py); a stream subscribes, sends a snapshot of the rows   *)
(* and then the events of its queue (api/routes/status.py).  All of it is  *)
(* one tenant's, in one process.                                           *)
(***************************************************************************)
EXTENDS Integers, Sequences, FiniteSets

CONSTANTS
  Docs, StageNames,
  Writers,       \* workers and requests that call update_stage
  WriterDoc,     \* the document a writer is at work on
  Streams,
  Lists,         \* the streams that show everything, not one document
  Wanted,        \* the documents a stream shows
  CreatedAt,     \* Document.created_at
  SnapshotLimit, \* how many documents the snapshot of a list has, 50 in the code
  Capacity,      \* maxsize of a stream's queue, 200 in the code
  Nothing,       \* "sending" of a writer that has nothing to broadcast
  MaxUpdates     \* bound: updates of a behaviour

ASSUME EventsAssumption ==
  /\ IsFiniteSet(Docs)
  /\ Lists \subseteq Streams
  /\ CreatedAt \in [Docs -> Nat]
  /\ SnapshotLimit \in Nat
  /\ WriterDoc \in [Writers -> Docs]
  /\ Wanted \in [Streams -> SUBSET Docs] /\ \A s \in Lists : Wanted[s] = Docs
  /\ Capacity \in Nat \ {0}
  /\ MaxUpdates \in Nat
  /\ Nothing \notin [doc : Docs, stage : StageNames, status : {"processing", "done"}]

VARIABLES
  row,           \* PipelineStage.status, "none" without a row
  exists,        \* documents that have not been deleted
  sending,       \* what a writer has committed and not yet broadcast
  at,            \* where a stream is
  queue,         \* its asyncio.Queue
  view,          \* what its client has been told, "unknown" before the snapshot
  listed,        \* history: the documents of its snapshot
  lost,          \* history: an event met a full queue
  updates        \* how many of MaxUpdates have happened

vars == <<row, exists, sending, at, queue, view, listed, lost, updates>>

Statuses == {"processing", "done"}
Events   == [doc : Docs, stage : StageNames, status : Statuses]

Unknown == [d \in Docs |-> [st \in StageNames |-> "unknown"]]

\* _empty_stages: a stage without a row is shown as pending.
Shown(d) == [st \in StageNames |-> IF row[d][st] = "none" THEN "pending" ELSE row[d][st]]

Init ==
  /\ row = [d \in Docs |-> [st \in StageNames |-> "none"]]
  /\ exists = Docs
  /\ sending = [w \in Writers |-> Nothing]
  /\ at = [s \in Streams |-> "closed"]
  /\ queue = [s \in Streams |-> <<>>]
  /\ view = [s \in Streams |-> Unknown]
  /\ listed = [s \in Streams |-> {}]
  /\ lost = [s \in Streams |-> FALSE]
  /\ updates = 0
-----------------------------------------------------------------------------
(* Writers.                                                                 *)

\* update_stage up to its commit.  Of a deleted document there is neither a row
\* nor an event.
Commit(w) ==
  LET d == WriterDoc[w] IN
  /\ sending[w] = Nothing
  /\ updates < MaxUpdates
  /\ updates' = updates + 1
  /\ d \in exists
  /\ \E st \in StageNames, v \in Statuses :
       /\ row' = [row EXCEPT ![d][st] = v]
       /\ sending' = [sending EXCEPT ![w] = [doc |-> d, stage |-> st, status |-> v]]
  /\ UNCHANGED <<exists, at, queue, view, listed, lost>>

\* A mutant: a stream is registered only when its snapshot has been sent.
Opened == {s \in Streams : at[s] = "open"}

\* subscribe and unsubscribe: a stream is registered as long as it lives.
Subscribers == {s \in Streams : at[s] # "closed"}

\* Mutants: an unbounded queue.
NeverFull(q) == FALSE

IsFull(q) == Len(q) >= Capacity

\* _broadcast: put_nowait into every queue, and a full one loses the event.
Broadcast(w) ==
  /\ sending[w] # Nothing
  /\ queue' = [s \in Streams |-> IF s \in Subscribers /\ ~IsFull(queue[s])
                                 THEN Append(queue[s], sending[w]) ELSE queue[s]]
  /\ lost' = [s \in Streams |-> lost[s] \/ (s \in Subscribers /\ IsFull(queue[s]))]
  /\ sending' = [sending EXCEPT ![w] = Nothing]
  /\ UNCHANGED <<row, exists, at, view, listed, updates>>

\* The purge deletes the document and its stage rows, without an event.
Delete(d) ==
  /\ d \in exists
  /\ exists' = exists \ {d}
  /\ row' = [row EXCEPT ![d] = [st \in StageNames |-> "none"]]
  /\ UNCHANGED <<sending, at, queue, view, listed, lost, updates>>
-----------------------------------------------------------------------------
(* Streams.                                                                 *)

Open(s) ==
  /\ at[s] = "closed"
  /\ at' = [at EXCEPT ![s] = "subscribed"]
  /\ UNCHANGED <<row, exists, sending, queue, view, listed, lost, updates>>

\* list_pipeline_statuses: ORDER BY created_at DESC LIMIT.  Documents of the same
\* moment come in any order.
NewestPages ==
  {page \in SUBSET exists :
     /\ Cardinality(page) <= SnapshotLimit
     /\ page # exists => Cardinality(page) = SnapshotLimit
     /\ \A d \in page, e \in exists \ page : CreatedAt[e] <= CreatedAt[d]}

\* What the snapshot of a stream may hold.
Pages(s) == IF s \in Lists THEN NewestPages ELSE {Wanted[s] \cap exists}

\* The snapshot is read after the subscription and sent before any event.
Snapshot(s) ==
  /\ at[s] = "subscribed"
  /\ at' = [at EXCEPT ![s] = "snapshot"]
  /\ \E page \in Pages(s) :
       /\ view' = [view EXCEPT ![s] = [d \in Docs |-> IF d \in page THEN Shown(d) ELSE Unknown[d]]]
       /\ listed' = [listed EXCEPT ![s] = page]
  /\ UNCHANGED <<row, exists, sending, queue, lost, updates>>

\* The client has taken the snapshot and the loop begins.
Listen(s) ==
  /\ at[s] = "snapshot"
  /\ at' = [at EXCEPT ![s] = "open"]
  /\ UNCHANGED <<row, exists, sending, queue, view, listed, lost, updates>>

\* A mutant: an event of another document stays in the queue.
DeliverWanted(s) ==
  /\ at[s] = "open"
  /\ queue[s] # <<>>
  /\ Head(queue[s]).doc \in Wanted[s]
  /\ queue' = [queue EXCEPT ![s] = Tail(@)]
  /\ view' = [view EXCEPT ![s][Head(queue[s]).doc][Head(queue[s]).stage] = Head(queue[s]).status]
  /\ UNCHANGED <<row, exists, sending, at, listed, lost, updates>>

\* One event from the queue; those of other documents are dropped here.
Deliver(s) ==
  /\ at[s] = "open"
  /\ queue[s] # <<>>
  /\ LET e == Head(queue[s]) IN
       view' = IF e.doc \in Wanted[s] THEN [view EXCEPT ![s][e.doc][e.stage] = e.status] ELSE view
  /\ queue' = [queue EXCEPT ![s] = Tail(@)]
  /\ UNCHANGED <<row, exists, sending, at, listed, lost, updates>>

\* The client goes away; the generator unsubscribes and its queue is gone.
Close(s) ==
  /\ at[s] # "closed"
  /\ at' = [at EXCEPT ![s] = "closed"]
  /\ queue' = [queue EXCEPT ![s] = <<>>]
  /\ view' = [view EXCEPT ![s] = Unknown]
  /\ listed' = [listed EXCEPT ![s] = {}]
  /\ lost' = [lost EXCEPT ![s] = FALSE]
  /\ UNCHANGED <<row, exists, sending, updates>>
-----------------------------------------------------------------------------
Next ==
  \/ \E w \in Writers : Commit(w) \/ Broadcast(w)
  \/ \E d \in Docs : Delete(d)
  \/ \E s \in Streams : Open(s) \/ Snapshot(s) \/ Listen(s) \/ Deliver(s) \/ Close(s)

Spec == Init /\ [][Next]_vars

\* Coroutines that can go on do; nobody has to update, connect, close or delete.
Fairness ==
  /\ \A w \in Writers : WF_vars(Broadcast(w))
  /\ \A s \in Streams : WF_vars(Snapshot(s)) /\ WF_vars(Listen(s)) /\ WF_vars(Deliver(s))

FairSpec == Spec /\ Fairness
-----------------------------------------------------------------------------
\* The types of the state; no queue grows over its bound.
TypeOK ==
  /\ row \in [Docs -> [StageNames -> Statuses \cup {"none"}]]
  /\ exists \subseteq Docs
  /\ sending \in [Writers -> Events \cup {Nothing}]
  /\ at \in [Streams -> {"closed", "subscribed", "snapshot", "open"}]
  /\ queue \in [Streams -> Seq(Events)]
  /\ \A s \in Streams : Len(queue[s]) <= Capacity
  /\ view \in [Streams -> [Docs -> [StageNames -> Statuses \cup {"pending", "unknown"}]]]
  /\ listed \in [Streams -> SUBSET Docs]
  /\ lost \in [Streams -> BOOLEAN]
  /\ updates \in 0 .. MaxUpdates

\* Only one pipeline writes the stages of d.  Two of them (a reprocess request next
\* to a running pipeline) may broadcast in another order than they committed.
SoleWriter(d) == \A v, w \in Writers : WriterDoc[v] = d /\ WriterDoc[w] = d => v = w

Followed(s, d) == ~lost[s] /\ d \in Wanted[s] \cap exists /\ SoleWriter(d)

\* A stream has told what the row of a stage says; of a document that was not on the
\* snapshot's page it has told nothing before the first event of the stage.
HasTold(s, d, st) ==
  \/ view[s][d][st] = Shown(d)[st]
  \/ d \notin listed[s] /\ view[s][d][st] = "unknown"

\* What a stream has told of a document when it has nothing left to deliver is what
\* the database says, though the snapshot is read at any point between the commit
\* of an update and its broadcast, and although events that are older than the
\* snapshot are delivered after it.  Only a queue that overflowed loses this, and
\* only a document beyond the snapshot's limit has stages of which nothing is told.
CaughtUpIsCurrent ==
  \A s \in Streams, d \in Docs, st \in StageNames :
    /\ at[s] = "open" /\ queue[s] = <<>>
    /\ Followed(s, d)
    /\ \A w \in Writers : WriterDoc[w] = d => sending[w] = Nothing
    => HasTold(s, d, st)

\* Every stream that stays open ends up having told what the database says.
ViewsSettle ==
  \A s \in Streams, d \in Docs :
    \/ <>[](at[s] # "closed" /\ Followed(s, d) => \A st \in StageNames : HasTold(s, d, st))
    \/ []<>(at[s] = "closed")
=============================================================================
