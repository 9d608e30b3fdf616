------------------------------ MODULE Requests ------------------------------
(***************************************************************************)
(* Requests to the API in flight.  Like a handler, a request is a program  *)
(* over labels, one per transaction or external call, and what it has read *)
(* at one label may be stale at the next.                                  *)
(***************************************************************************)
EXTENDS Store

CONSTANTS
  Clients,
  MaxReprocess,  \* bounds on the requests of a behaviour; there are as many
  MaxDeletes,    \* uploads as Docs
  Patient        \* TRUE: a client asks about a document only when its work is over

ASSUME RequestsAssumption ==
  /\ IsFiniteSet(Clients)
  /\ MaxReprocess \in Nat
  /\ MaxDeletes \in Nat
  /\ Patient \in BOOLEAN

VARIABLES
  req,           \* per client: the request and the last reply
  issued         \* how many requests of each kind there have been

NoReply == [says |-> "nothing", doc |-> 0]
Idle    == [at |-> "idle", doc |-> 0, content |-> NoInfo, name |-> NoInfo, by |-> NoInfo,
            old |-> 0, reset |-> 0, reply |-> NoReply]

RequestsInit ==
  /\ req = [c \in Clients |-> Idle]
  /\ issued = [upload |-> 0, reprocess |-> 0, delete |-> 0]

Issue(kind, bound) ==
  /\ issued[kind] < bound
  /\ issued' = [issued EXCEPT ![kind] = @ + 1]

Begin(c, r) ==
  /\ req[c].at = "idle"
  /\ req' = [req EXCEPT ![c] = r]

Proceed(c, label) == req' = [req EXCEPT ![c].at = label] /\ UNCHANGED issued

Reply(c, says, d) ==
  /\ req' = [req EXCEPT ![c] = [Idle EXCEPT !.reply = [says |-> says, doc |-> d]]]
  /\ UNCHANGED issued

\* Nobody works on the document any more.
Settled(d) ==
  /\ LiveJobsOf(d) = {}
  /\ \A c \in Clients : req[c].doc # d /\ req[c].old # d

MayAsk(d) == status[d] # "absent" /\ (Patient => Settled(d))

\* An exception in a request ends it (500).
RequestFault(c) ==
  /\ req[c].at # "idle"
  /\ MayFault("api")
  /\ Reply(c, "error", req[c].doc)
  /\ UNCHANGED store
=============================================================================
