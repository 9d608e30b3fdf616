---------------------------- MODULE EventsProofs ----------------------------
(* Theorems about PipelineEvents, for every number of documents, writers,    *)
(* streams and updates, and every capacity.                                  *)
EXTENDS PipelineEvents, SequenceTheorems, TLAPS

(* The streams are well formed at first, ... *)
LEMMA TypeInit == Init => TypeOK
BY EventsAssumption DEF Init, TypeOK, Unknown, Events, Statuses

(* ... and stay so. *)
LEMMA TypeStep == TypeOK /\ [Next]_vars => TypeOK'
<1> SUFFICES ASSUME TypeOK, [Next]_vars PROVE TypeOK'
  OBVIOUS
<1> USE EventsAssumption DEF TypeOK
<1>1. ASSUME NEW w \in Writers, Commit(w) PROVE TypeOK'
  <2>1. PICK st \in StageNames, v \in Statuses :
          /\ row' = [row EXCEPT ![WriterDoc[w]][st] = v]
          /\ sending' = [sending EXCEPT ![w] = [doc |-> WriterDoc[w], stage |-> st, status |-> v]]
    BY <1>1 DEF Commit
  <2>2. [doc |-> WriterDoc[w], stage |-> st, status |-> v] \in Events
    BY DEF Events
  <2>3. sending' \in [Writers -> Events \cup {Nothing}]
    BY <2>1, <2>2
  <2>4. row' \in [Docs -> [StageNames -> Statuses \cup {"none"}]]
    BY <2>1
  <2>5. updates' \in 0 .. MaxUpdates
    BY <1>1 DEF Commit
  <2> QED BY <1>1, <2>3, <2>4, <2>5 DEF Commit
<1>2. ASSUME NEW w \in Writers, Broadcast(w) PROVE TypeOK'
  <2>1. sending[w] \in Events
    BY <1>2 DEF Broadcast
  <2>2. ASSUME NEW s \in Streams
        PROVE  queue'[s] \in Seq(Events) /\ Len(queue'[s]) <= Capacity
    <3>1. queue[s] \in Seq(Events) /\ Len(queue[s]) <= Capacity
      OBVIOUS
    <3>2. queue'[s] = queue[s] \/ (queue'[s] = Append(queue[s], sending[w]) /\ ~IsFull(queue[s]))
      BY <1>2 DEF Broadcast
    <3>3. CASE queue'[s] = queue[s]
      BY <3>1, <3>3
    <3>4. CASE queue'[s] = Append(queue[s], sending[w]) /\ ~IsFull(queue[s])
      <4>1. /\ Append(queue[s], sending[w]) \in Seq(Events)
            /\ Len(Append(queue[s], sending[w])) = Len(queue[s]) + 1
        BY <2>1, <3>1, AppendProperties
      <4>2. Len(queue[s]) \in Nat /\ ~(Len(queue[s]) >= Capacity)
        BY <3>1, <3>4, LenProperties DEF IsFull
      <4> QED BY <3>4, <4>1, <4>2
    <3> QED BY <3>2, <3>3, <3>4
  <2>3. queue' \in [Streams -> Seq(Events)]
    BY <1>2, <2>2 DEF Broadcast
  <2>4. lost' \in [Streams -> BOOLEAN] /\ sending' \in [Writers -> Events \cup {Nothing}]
    BY <1>2 DEF Broadcast
  <2> QED BY <1>2, <2>2, <2>3, <2>4 DEF Broadcast
<1>3. ASSUME NEW d \in Docs, Delete(d) PROVE TypeOK'
  BY <1>3 DEF Delete
<1>4. ASSUME NEW s \in Streams, Open(s) PROVE TypeOK'
  BY <1>4 DEF Open
<1>5. ASSUME NEW s \in Streams, Snapshot(s) PROVE TypeOK'
  <2>1. \A d \in Docs : /\ Shown(d) \in [StageNames -> Statuses \cup {"pending", "unknown"}]
                        /\ Unknown[d] \in [StageNames -> Statuses \cup {"pending", "unknown"}]
    BY DEF Shown, Unknown
  <2>2. PICK page \in Pages(s) :
          /\ view' = [view EXCEPT ![s] = [d \in Docs |-> IF d \in page THEN Shown(d) ELSE Unknown[d]]]
          /\ listed' = [listed EXCEPT ![s] = page]
    BY <1>5 DEF Snapshot
  <2>3. page \subseteq Docs
    BY DEF Pages, NewestPages
  <2>4. view' \in [Streams -> [Docs -> [StageNames -> Statuses \cup {"pending", "unknown"}]]]
    BY <2>1, <2>2
  <2>5. listed' \in [Streams -> SUBSET Docs]
    BY <2>2, <2>3
  <2> QED BY <1>5, <2>4, <2>5 DEF Snapshot
<1>6. ASSUME NEW s \in Streams, Listen(s) PROVE TypeOK'
  BY <1>6 DEF Listen
<1>7. ASSUME NEW s \in Streams, Deliver(s) PROVE TypeOK'
  <2>1. queue[s] \in Seq(Events) /\ queue[s] # <<>> /\ Len(queue[s]) <= Capacity
    BY <1>7 DEF Deliver
  <2>2. /\ Head(queue[s]) \in Events /\ Tail(queue[s]) \in Seq(Events)
        /\ Len(Tail(queue[s])) <= Capacity
    BY <2>1, HeadTailProperties, LenProperties
  <2>3. view' \in [Streams -> [Docs -> [StageNames -> Statuses \cup {"pending", "unknown"}]]]
    BY <1>7, <2>2 DEF Deliver, Events
  <2>4. queue' = [queue EXCEPT ![s] = Tail(queue[s])]
    BY <1>7 DEF Deliver
  <2>5. queue' \in [Streams -> Seq(Events)] /\ \A r \in Streams : Len(queue'[r]) <= Capacity
    BY <2>2, <2>4
  <2> QED BY <1>7, <2>3, <2>5 DEF Deliver
<1>8. ASSUME NEW s \in Streams, Close(s) PROVE TypeOK'
  <2>1. Unknown \in [Docs -> [StageNames -> Statuses \cup {"pending", "unknown"}]]
    BY DEF Unknown
  <2> QED BY <1>8, <2>1 DEF Close
<1>9. CASE UNCHANGED vars
  BY <1>9 DEF vars
<1> QED BY <1>1, <1>2, <1>3, <1>4, <1>5, <1>6, <1>7, <1>8, <1>9 DEF Next

(* The state is well formed, and no queue of a stream grows over maxsize        *)
(* (core/pipeline.py: subscribe, _broadcast).                                   *)
THEOREM EventsTypes == Spec => []TypeOK
BY TypeInit, TypeStep, PTL DEF Spec
-----------------------------------------------------------------------------
(* What an event under way, a queue and a view have to do with a stage row.   *)

IsAbout(e, d, st) == e.doc = d /\ e.stage = st

\* Where the events of a stage are in a queue.
Places(q, d, st) == {k \in 1 .. Len(q) : IsAbout(q[k], d, st)}

\* The last of them has the status v.
EndsWith(q, d, st, v) ==
  \A k \in Places(q, d, st) : (\A j \in Places(q, d, st) : j <= k) => q[k].status = v

\* A writer has committed an update of the stage and not yet broadcast it.
UnderWay(d, st) == \E w \in Writers : sending[w] # Nothing /\ IsAbout(sending[w], d, st)

\* What a sole writer is about to broadcast is what the row says.
SendingInv ==
  \A w \in Writers :
    sending[w] # Nothing =>
      /\ sending[w].doc = WriterDoc[w]
      /\ SoleWriter(WriterDoc[w]) /\ WriterDoc[w] \in exists
           => row[WriterDoc[w]][sending[w].stage] = sending[w].status

\* A stream that is closed has nothing left from the one before it.
ClosedInv == \A s \in Streams : at[s] = "closed" => queue[s] = <<>> /\ ~lost[s]

\* A stage whose updates have all been broadcast: the last event in the queue is what the
\* row says; without one, that is what the client has been told or will be by the snapshot,
\* unless the document was not on its page.
InStep(s, d, st) ==
  /\ EndsWith(queue[s], d, st, row[d][st])
  /\ Places(queue[s], d, st) = {} /\ at[s] # "subscribed" => HasTold(s, d, st)

ViewInv ==
  \A s \in Streams, d \in Docs, st \in StageNames :
    at[s] # "closed" /\ Followed(s, d) /\ ~UnderWay(d, st) => InStep(s, d, st)

IInv == TypeOK /\ SendingInv /\ ClosedInv /\ ViewInv

(* The invariant holds at first. *)
LEMMA InvInit == Init => IInv
<1> SUFFICES ASSUME Init PROVE IInv
  OBVIOUS
<1>1. TypeOK
  BY TypeInit
<1>2. SendingInv /\ ClosedInv /\ ViewInv
  BY DEF Init, SendingInv, ClosedInv, ViewInv
<1> QED BY <1>1, <1>2 DEF IInv

(* What is being sent is what the row says, as nobody else writes it. *)
LEMMA SendingStep == TypeOK /\ SendingInv /\ [Next]_vars => SendingInv'
<1> SUFFICES ASSUME TypeOK, SendingInv, [Next]_vars PROVE SendingInv'
  OBVIOUS
<1> USE EventsAssumption DEF TypeOK, SendingInv
<1>0. \A w \in Writers : SoleWriter(WriterDoc[w])' <=> SoleWriter(WriterDoc[w])
  BY DEF SoleWriter
<1>1. ASSUME NEW w \in Writers, Commit(w) PROVE SendingInv'
  <2>1. PICK st \in StageNames, v \in Statuses :
          /\ row' = [row EXCEPT ![WriterDoc[w]][st] = v]
          /\ sending' = [sending EXCEPT ![w] = [doc |-> WriterDoc[w], stage |-> st, status |-> v]]
    BY <1>1 DEF Commit
  <2>2. exists' = exists
    BY <1>1 DEF Commit
  <2> SUFFICES ASSUME NEW u \in Writers, sending'[u] # Nothing
               PROVE  /\ sending'[u].doc = WriterDoc[u]
                      /\ SoleWriter(WriterDoc[u]) /\ WriterDoc[u] \in exists'
                           => row'[WriterDoc[u]][sending'[u].stage] = sending'[u].status
    BY <1>0
  <2>3. CASE u = w
    BY <2>1, <2>3
  <2>4. CASE u # w
    <3>1. sending'[u] = sending[u] /\ sending[u].doc = WriterDoc[u]
      BY <2>1, <2>4
    <3>2. CASE WriterDoc[u] = WriterDoc[w]
      <4>1. ~SoleWriter(WriterDoc[u])
        BY <2>4, <3>2 DEF SoleWriter
      <4> QED BY <3>1, <4>1
    <3>3. CASE WriterDoc[u] # WriterDoc[w]
      <4>1. row'[WriterDoc[u]] = row[WriterDoc[u]]
        BY <2>1, <3>3
      <4> QED BY <2>2, <3>1, <4>1
    <3> QED BY <3>2, <3>3
  <2> QED BY <2>3, <2>4
<1>2. ASSUME NEW w \in Writers, Broadcast(w) PROVE SendingInv'
  BY <1>0, <1>2 DEF Broadcast
<1>3. ASSUME NEW d \in Docs, Delete(d) PROVE SendingInv'
  BY <1>0, <1>3 DEF Delete
<1>4. ASSUME NEW s \in Streams, Open(s) \/ Snapshot(s) \/ Listen(s) \/ Deliver(s) \/ Close(s)
      PROVE  SendingInv'
  BY <1>0, <1>4 DEF Open, Snapshot, Listen, Deliver, Close
<1>5. CASE UNCHANGED vars
  BY <1>0, <1>5 DEF vars
<1> QED BY <1>1, <1>2, <1>3, <1>4, <1>5 DEF Next

(* A stream that has closed has been told the end. *)
LEMMA ClosedStep == TypeOK /\ ClosedInv /\ [Next]_vars => ClosedInv'
<1> SUFFICES ASSUME TypeOK, ClosedInv, [Next]_vars PROVE ClosedInv'
  OBVIOUS
<1> USE DEF TypeOK, ClosedInv
<1>1. ASSUME NEW w \in Writers, Commit(w) PROVE ClosedInv'
  BY <1>1 DEF Commit
<1>2. ASSUME NEW w \in Writers, Broadcast(w) PROVE ClosedInv'
  BY <1>2 DEF Broadcast, Subscribers
<1>3. ASSUME NEW d \in Docs, Delete(d) PROVE ClosedInv'
  BY <1>3 DEF Delete
<1>4. ASSUME NEW s \in Streams, Open(s) \/ Snapshot(s) \/ Listen(s) PROVE ClosedInv'
  BY <1>4 DEF Open, Snapshot, Listen
<1>5. ASSUME NEW s \in Streams, Deliver(s) PROVE ClosedInv'
  BY <1>5 DEF Deliver
<1>6. ASSUME NEW s \in Streams, Close(s) PROVE ClosedInv'
  BY <1>6 DEF Close
<1>7. CASE UNCHANGED vars
  BY <1>7 DEF vars
<1> QED BY <1>1, <1>2, <1>3, <1>4, <1>5, <1>6, <1>7 DEF Next

(* A queue that gets one event more. *)
LEMMA AfterAppend ==
  ASSUME NEW q \in Seq(Events), NEW e \in Events, NEW d \in Docs, NEW st \in StageNames
  PROVE  /\ IsAbout(e, d, st) => /\ Places(Append(q, e), d, st) # {}
                                 /\ EndsWith(Append(q, e), d, st, e.status)
         /\ ~IsAbout(e, d, st) =>
              /\ Places(Append(q, e), d, st) = Places(q, d, st)
              /\ \A v : EndsWith(q, d, st, v) => EndsWith(Append(q, e), d, st, v)
<1> DEFINE n == Len(q)
           r == Append(q, e)
<1>1. /\ n \in Nat /\ Len(r) = n + 1 /\ r[n + 1] = e
      /\ \A k \in 1 .. n : r[k] = q[k]
  BY AppendProperties, LenProperties
<1> HIDE DEF n, r
<1>2. CASE IsAbout(e, d, st)
  <2>1. n + 1 \in Places(r, d, st) /\ Places(r, d, st) \subseteq 1 .. (n + 1)
    BY <1>1, <1>2 DEF Places
  <2>2. \A k \in Places(r, d, st) : (\A j \in Places(r, d, st) : j <= k) => k = n + 1
    BY <1>1, <2>1
  <2>3. EndsWith(r, d, st, e.status)
    BY <1>1, <2>2 DEF EndsWith
  <2> QED BY <1>2, <2>1, <2>3 DEF r
<1>3. CASE ~IsAbout(e, d, st)
  <2>1. Places(r, d, st) = Places(q, d, st)
    BY <1>1, <1>3 DEF Places, n
  <2>2. \A k \in Places(q, d, st) : r[k] = q[k]
    BY <1>1 DEF Places, n
  <2>3. \A v : EndsWith(q, d, st, v) => EndsWith(r, d, st, v)
    BY <2>1, <2>2 DEF EndsWith
  <2> QED BY <1>3, <2>1, <2>3 DEF r
<1> QED BY <1>2, <1>3

(* A queue whose first event is taken. *)
LEMMA AfterTail ==
  ASSUME NEW q \in Seq(Events), q # <<>>, NEW d \in Docs, NEW st \in StageNames, NEW v,
         EndsWith(q, d, st, v)
  PROVE  /\ EndsWith(Tail(q), d, st, v)
         /\ Places(Tail(q), d, st) = {} =>
              IF IsAbout(Head(q), d, st) THEN Head(q).status = v ELSE Places(q, d, st) = {}
<1> DEFINE n == Len(q)
           r == Tail(q)
<1>1. /\ n \in Nat \ {0} /\ Len(r) = n - 1 /\ Head(q) = q[1]
      /\ \A k \in 1 .. (n - 1) : r[k] = q[k + 1]
  BY HeadTailProperties, LenProperties, EmptySeq
<1>2. Places(q, d, st) \subseteq 1 .. n /\ Places(r, d, st) \subseteq 1 .. (n - 1)
  BY <1>1 DEF Places
<1> HIDE DEF n, r
<1>3. \A k \in 1 .. n : k \in Places(q, d, st) <=> (k = 1 /\ IsAbout(q[1], d, st)) \/ k - 1 \in Places(r, d, st)
  BY <1>1 DEF Places, n
<1>4. ASSUME NEW k \in Places(r, d, st), \A j \in Places(r, d, st) : j <= k
      PROVE  r[k].status = v
  <2>1. k + 1 \in Places(q, d, st)
    BY <1>1, <1>2, <1>3
  <2>2. \A j \in Places(q, d, st) : j <= k + 1
    BY <1>1, <1>2, <1>3, <1>4
  <2>3. q[k + 1].status = v
    BY <2>1, <2>2 DEF EndsWith
  <2> QED BY <1>1, <1>2, <2>3
<1>5. ASSUME Places(r, d, st) = {}, IsAbout(q[1], d, st) PROVE q[1].status = v
  <2>1. 1 \in Places(q, d, st) /\ \A j \in Places(q, d, st) : j <= 1
    BY <1>1, <1>2, <1>3, <1>5
  <2> QED BY <2>1 DEF EndsWith
<1>6. ASSUME Places(r, d, st) = {}, ~IsAbout(q[1], d, st) PROVE Places(q, d, st) = {}
  BY <1>1, <1>2, <1>3, <1>6
<1>7. EndsWith(r, d, st, v)
  BY <1>4 DEF EndsWith
<1> QED BY <1>1, <1>5, <1>6, <1>7 DEF r

(* Every step leaves every open stream in step with every stage it shows. *)
LEMMA ViewStep == IInv /\ [Next]_vars => ViewInv'
<1> SUFFICES ASSUME IInv, [Next]_vars,
                    NEW s \in Streams, NEW d \in Docs, NEW st \in StageNames,
                    at'[s] # "closed", Followed(s, d)', ~UnderWay(d, st)'
             PROVE  InStep(s, d, st)'
  BY DEF ViewInv
<1> USE EventsAssumption
<1>0. /\ ~lost'[s] /\ d \in Wanted[s] /\ d \in exists' /\ SoleWriter(d)
      /\ TypeOK /\ SendingInv /\ ClosedInv
      /\ at[s] # "closed" /\ ~lost[s] /\ d \in exists /\ ~UnderWay(d, st) => InStep(s, d, st)
  BY DEF Followed, SoleWriter, IInv, ViewInv
<1>1. ASSUME NEW w \in Writers, Commit(w) PROVE InStep(s, d, st)'
  <2>1. PICK t \in StageNames, v \in Statuses :
          /\ row' = [row EXCEPT ![WriterDoc[w]][t] = v]
          /\ sending' = [sending EXCEPT ![w] = [doc |-> WriterDoc[w], stage |-> t, status |-> v]]
    BY <1>1 DEF Commit
  <2>2. UNCHANGED <<exists, at, queue, view, listed, lost>> /\ sending[w] = Nothing
    BY <1>1 DEF Commit
  <2>3. WriterDoc[w] # d \/ t # st
    <3>1. sending'[w] = [doc |-> WriterDoc[w], stage |-> t, status |-> v]
      BY <1>0, <2>1 DEF TypeOK
    <3>2. sending'[w] # Nothing
      BY <3>1 DEF Statuses
    <3> QED BY <3>1, <3>2 DEF UnderWay, IsAbout
  <2>4. row'[d][st] = row[d][st] /\ Shown(d)'[st] = Shown(d)[st]
    BY <1>0, <2>1, <2>3 DEF TypeOK, Shown
  <2>5. ~UnderWay(d, st)
    BY <1>0, <2>1, <2>2 DEF UnderWay, TypeOK
  <2>6. InStep(s, d, st)
    BY <1>0, <2>2, <2>5
  <2> QED BY <2>2, <2>4, <2>6 DEF InStep, HasTold
<1>2. ASSUME NEW w \in Writers, Broadcast(w) PROVE InStep(s, d, st)'
  <2>1. /\ sending[w] \in Events /\ sending[w] # Nothing /\ queue[s] \in Seq(Events)
        /\ UNCHANGED <<row, exists, at, view, listed>>
    BY <1>0, <1>2 DEF Broadcast, TypeOK
  <2>2. ~lost[s] /\ queue'[s] = Append(queue[s], sending[w])
    BY <1>0, <1>2 DEF Broadcast, Subscribers, TypeOK
  <2>3. Shown(d)' = Shown(d)
    BY <2>1 DEF Shown
  <2>4. CASE IsAbout(sending[w], d, st)
    <3>1. sending[w].status = row[d][st]
      BY <1>0, <2>1, <2>4 DEF SendingInv, IsAbout
    <3> QED BY <2>1, <2>2, <2>4, <3>1, AfterAppend DEF InStep
  <2>5. CASE ~IsAbout(sending[w], d, st)
    <3>1. ~UnderWay(d, st)
      BY <1>0, <1>2, <2>5 DEF UnderWay, Broadcast, TypeOK
    <3>2. InStep(s, d, st)
      BY <1>0, <2>1, <2>2, <3>1
    <3>3. /\ Places(queue'[s], d, st) = Places(queue[s], d, st)
          /\ EndsWith(queue'[s], d, st, row[d][st])
      BY <2>1, <2>2, <2>5, <3>2, AfterAppend DEF InStep
    <3> QED BY <2>1, <2>3, <3>2, <3>3 DEF InStep, HasTold
  <2> QED BY <2>4, <2>5
<1>3. ASSUME NEW c \in Docs, Delete(c) PROVE InStep(s, d, st)'
  <2>1. c # d /\ d \in exists
    BY <1>0, <1>3 DEF Delete
  <2>2. row'[d] = row[d] /\ Shown(d)' = Shown(d)
    BY <1>0, <1>3, <2>1 DEF Delete, TypeOK, Shown
  <2>3. ~UnderWay(d, st) /\ UNCHANGED <<at, queue, view, listed, lost>>
    BY <1>3 DEF Delete, UnderWay
  <2> QED BY <1>0, <2>1, <2>2, <2>3 DEF InStep, HasTold
<1>4. ASSUME NEW t \in Streams, Open(t) PROVE InStep(s, d, st)'
  <2>1. UNCHANGED <<row, exists, sending, queue, view, listed, lost>> /\ Shown(d)' = Shown(d)
    BY <1>4 DEF Open, Shown
  <2>2. ~UnderWay(d, st)
    BY <2>1 DEF UnderWay
  <2>3. CASE s = t
    <3>1. queue[s] = <<>> /\ at'[s] = "subscribed"
      BY <1>0, <1>4, <2>3 DEF Open, ClosedInv, TypeOK
    <3>2. Places(<<>>, d, st) = {}
      BY DEF Places
    <3> QED BY <2>1, <3>1, <3>2 DEF InStep, EndsWith
  <2>4. CASE s # t
    <3>1. at'[s] = at[s]
      BY <1>0, <1>4, <2>4 DEF Open, TypeOK
    <3> QED BY <1>0, <2>1, <2>2, <3>1 DEF InStep, HasTold
  <2> QED BY <2>3, <2>4
<1>5. ASSUME NEW t \in Streams, Snapshot(t) PROVE InStep(s, d, st)'
  <2>1. UNCHANGED <<row, exists, sending, queue, lost>> /\ Shown(d)' = Shown(d)
    BY <1>5 DEF Snapshot, Shown
  <2>2. at[s] # "closed" /\ ~UnderWay(d, st)
    BY <1>0, <1>5, <2>1 DEF Snapshot, TypeOK, UnderWay
  <2>3. InStep(s, d, st)
    BY <1>0, <2>1, <2>2
  <2>4. CASE s = t
    <3>1. PICK page \in Pages(s) :
            /\ view' = [view EXCEPT ![s] = [e \in Docs |-> IF e \in page THEN Shown(e) ELSE Unknown[e]]]
            /\ listed' = [listed EXCEPT ![s] = page]
      BY <1>5, <2>4 DEF Snapshot
    <3>2. listed'[s] = page /\ view'[s][d] = IF d \in page THEN Shown(d) ELSE Unknown[d]
      BY <1>0, <3>1 DEF TypeOK
    <3>3. HasTold(s, d, st)'
      BY <2>1, <3>2 DEF HasTold, Unknown
    <3> QED BY <2>1, <2>3, <3>3 DEF InStep
  <2>5. CASE s # t
    <3>1. at'[s] = at[s] /\ view'[s] = view[s] /\ listed'[s] = listed[s]
      BY <1>0, <1>5, <2>5 DEF Snapshot, TypeOK
    <3> QED BY <2>1, <2>3, <3>1 DEF InStep, HasTold
  <2> QED BY <2>4, <2>5
<1>6. ASSUME NEW t \in Streams, Listen(t) PROVE InStep(s, d, st)'
  <2>1. UNCHANGED <<row, exists, sending, queue, view, listed, lost>> /\ Shown(d)' = Shown(d)
    BY <1>6 DEF Listen, Shown
  <2>2. at[s] # "closed" /\ ~UnderWay(d, st) /\ (at'[s] # "subscribed" => at[s] # "subscribed")
    BY <1>0, <1>6, <2>1 DEF Listen, TypeOK, UnderWay
  <2> QED BY <1>0, <2>1, <2>2 DEF InStep, HasTold
<1>7. ASSUME NEW t \in Streams, Deliver(t) PROVE InStep(s, d, st)'
  <2>1. UNCHANGED <<row, exists, sending, at, listed, lost>> /\ Shown(d)' = Shown(d)
    BY <1>7 DEF Deliver, Shown
  <2>2. ~UnderWay(d, st)
    BY <2>1 DEF UnderWay
  <2>3. InStep(s, d, st)
    BY <1>0, <2>1, <2>2
  <2>4. CASE s = t
    <3> DEFINE e == Head(queue[s])
    <3>1. queue[s] \in Seq(Events) /\ queue[s] # <<>> /\ e \in Events
      BY <1>0, <1>7, <2>4, HeadTailProperties DEF Deliver, TypeOK
    <3>2. /\ queue'[s] = Tail(queue[s])
          /\ view' = IF e.doc \in Wanted[s] THEN [view EXCEPT ![s][e.doc][e.stage] = e.status]
                     ELSE view
      BY <1>0, <1>7, <2>4 DEF Deliver, TypeOK
    <3>3. /\ EndsWith(queue'[s], d, st, row[d][st])
          /\ Places(queue'[s], d, st) = {} =>
               IF IsAbout(e, d, st) THEN e.status = row[d][st] ELSE Places(queue[s], d, st) = {}
      <4>1. EndsWith(queue[s], d, st, row[d][st])
        BY <2>3 DEF InStep
      <4> DEFINE q == queue[s]
      <4>2. q \in Seq(Events) /\ q # <<>> /\ EndsWith(q, d, st, row[d][st])
        BY <3>1, <4>1
      <4> HIDE DEF q
      <4>3. /\ EndsWith(Tail(q), d, st, row[d][st])
            /\ Places(Tail(q), d, st) = {} =>
                 IF IsAbout(Head(q), d, st) THEN Head(q).status = row[d][st] ELSE Places(q, d, st) = {}
        BY <4>2, AfterTail
      <4> QED BY <3>2, <4>3 DEF q
    <3>4. e.doc \in Docs /\ e.stage \in StageNames /\ e.status # "none"
      BY <3>1 DEF Events, Statuses
    <3> HIDE DEF e
    <3>5. CASE IsAbout(e, d, st)
      <4>1. view'[s][d][st] = e.status
        BY <1>0, <3>2, <3>4, <3>5 DEF IsAbout, TypeOK
      <4>2. e.status = row[d][st] => Shown(d)[st] = e.status
        BY <3>4 DEF Shown
      <4> QED BY <2>1, <3>3, <3>5, <4>1, <4>2 DEF InStep, HasTold
    <3>6. CASE ~IsAbout(e, d, st)
      <4>1. view'[s][d][st] = view[s][d][st]
        BY <1>0, <3>2, <3>4, <3>6 DEF IsAbout, TypeOK
      <4> QED BY <2>1, <2>3, <3>3, <3>6, <4>1 DEF InStep, HasTold
    <3> QED BY <3>5, <3>6
  <2>5. CASE s # t
    <3>1. queue'[s] = queue[s] /\ view'[s] = view[s]
      BY <1>0, <1>7, <2>5 DEF Deliver, TypeOK
    <3> QED BY <2>1, <2>3, <3>1 DEF InStep, HasTold
  <2> QED BY <2>4, <2>5
<1>8. ASSUME NEW t \in Streams, Close(t) PROVE InStep(s, d, st)'
  <2>1. s # t
    BY <1>0, <1>8 DEF Close, TypeOK
  <2>2. /\ at'[s] = at[s] /\ queue'[s] = queue[s] /\ view'[s] = view[s]
        /\ listed'[s] = listed[s] /\ lost'[s] = lost[s]
    BY <1>0, <1>8, <2>1 DEF Close, TypeOK
  <2>3. UNCHANGED <<row, exists, sending>> /\ Shown(d)' = Shown(d) /\ ~UnderWay(d, st)
    BY <1>8 DEF Close, Shown, UnderWay
  <2> QED BY <1>0, <2>2, <2>3 DEF InStep, HasTold
<1>9. CASE UNCHANGED vars
  <2>1. UNCHANGED vars /\ Shown(d)' = Shown(d) /\ ~UnderWay(d, st)
    BY <1>9 DEF vars, Shown, UnderWay
  <2> QED BY <1>0, <2>1 DEF vars, InStep, HasTold
<1> QED BY <1>1, <1>2, <1>3, <1>4, <1>5, <1>6, <1>7, <1>8, <1>9 DEF Next

(* The invariant holds always. *)
LEMMA InvCorrect == Spec => []IInv
<1>1. IInv /\ [Next]_vars => IInv'
  BY TypeStep, SendingStep, ClosedStep, ViewStep DEF IInv
<1> QED BY <1>1, InvInit, PTL DEF Spec

(* A stream with nothing left to deliver has told what the database says, wherever *)
(* its snapshot fell between commits and broadcasts, and nothing yet only of what   *)
(* was beyond the limit of its snapshot (status.py: _sse_generator,                *)
(* core/pipeline.py: update_stage, list_pipeline_statuses).                        *)
THEOREM CaughtUp == Spec => []CaughtUpIsCurrent
<1>1. IInv => CaughtUpIsCurrent
  <2> SUFFICES ASSUME IInv, NEW s \in Streams, NEW d \in Docs, NEW st \in StageNames,
                      at[s] = "open", queue[s] = <<>>, Followed(s, d),
                      \A w \in Writers : WriterDoc[w] = d => sending[w] = Nothing
               PROVE  HasTold(s, d, st)
    BY DEF CaughtUpIsCurrent
  <2>1. ~UnderWay(d, st)
    BY DEF UnderWay, IsAbout, IInv, SendingInv
  <2>2. Places(<<>>, d, st) = {}
    BY DEF Places
  <2> QED BY <2>1, <2>2 DEF IInv, ViewInv, InStep
<1> QED BY <1>1, InvCorrect, PTL
=============================================================================
