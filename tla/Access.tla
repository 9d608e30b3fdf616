-------------------------------- MODULE Access --------------------------------
(***************************************************************************)
(* Tenants and API keys: api/deps.py, routes/bootstrap.py, routes/admin.py *)
(* and scripts/manage.py.                                                  *)
(*                                                                         *)
(* A key is created in one transaction and told to its client in the reply *)
(* only; a process that ends in between leaves a key that nobody knows.    *)
(* Reading and writing are separate steps of a call: other calls come      *)
(* between the two.                                                        *)
(***************************************************************************)
EXTENDS Integers

CONSTANTS
  Callers,        \* concurrent calls
  Keys, Tenants,  \* identifiers that new rows may get
  Roles,          \* roles of keys in use, "admin" among them
  SecretIsReal    \* app_secret_key is set, and is not one of the defaults

VARIABLES
  tenants,   \* rows of the table
  keys,      \* rows of the table; by: the caller whose bootstrap made the key
  known,     \* keys whose raw value a client has seen
  call       \* the call each caller is in

accessVars == <<tenants, keys, known, call>>

NoOne    == "no one"
NoTenant == "no tenant"
NoKey    == "no key"

ASSUME AccessAssumption == "admin" \in Roles /\ NoOne \notin Callers

Absent  == [status |-> "absent", tenant |-> NoTenant, role |-> "none", by |-> NoOne]
KeyRows == {Absent} \cup [status : {"active", "revoked"}, tenant : Tenants, role : Roles,
                          by : Callers \cup {NoOne}]

\* A call between its steps: the tenant of its AuthContext, the key it will tell.
NoCall == [pc |-> "idle", tenant |-> NoTenant, key |-> NoKey]
Calls  == [pc : {"idle", "bootstrap", "admin", "reply"}, tenant : Tenants \cup {NoTenant},
           key : Keys \cup {NoKey}]

Rows == {k \in Keys : keys[k].status # "absent"}

AccessTypeOK ==
  /\ tenants \subseteq Tenants
  /\ keys \in [Keys -> KeyRows]
  /\ known \subseteq Rows
  /\ call \in [Callers -> Calls]
  /\ \A c \in Callers : call[c].pc = "reply" => call[c].key \in Rows
  /\ \A k \in Rows : keys[k].tenant \in tenants      \* the foreign key

AccessInit ==
  /\ tenants = {} /\ known = {}
  /\ keys = [k \in Keys |-> Absent]
  /\ call = [c \in Callers |-> NoCall]

SetCall(c, r) == call' = [call EXCEPT ![c] = r]
Reply(k)      == [NoCall EXCEPT !.pc = "reply", !.key = k]

InsertKey(k, t, r, c) ==
  /\ k \notin Rows
  /\ keys' = [keys EXCEPT ![k] = [status |-> "active", tenant |-> t, role |-> r, by |-> c]]

-----------------------------------------------------------------------------
\* A mutant: only keys in use are counted.
CountActiveKeys(c) ==
  /\ call[c].pc = "idle" /\ \A k \in Keys : keys[k].status # "active"
  /\ SetCall(c, [NoCall EXCEPT !.pc = "bootstrap"])
  /\ UNCHANGED <<tenants, keys, known>>

\* bootstrap counts the keys, also revoked ones; with any it is refused, ...
CountKeys(c) ==
  /\ call[c].pc = "idle" /\ Rows = {}
  /\ SetCall(c, [NoCall EXCEPT !.pc = "bootstrap"])
  /\ UNCHANGED <<tenants, keys, known>>

\* ... else it commits a tenant and its first key, without counting again.
Bootstrap(c) ==
  /\ call[c].pc = "bootstrap"
  /\ \E k \in Keys, t \in Tenants \ tenants :
       /\ InsertKey(k, t, "admin", c)
       /\ tenants' = tenants \cup {t}
       /\ SetCall(c, Reply(k))
  /\ UNCHANGED known

\* The response carries the raw key.
Tell(c) ==
  /\ call[c].pc = "reply"
  /\ known' = known \cup {call[c].key}
  /\ SetCall(c, NoCall)
  /\ UNCHANGED <<tenants, keys>>

\* get_auth and require_admin: others are refused here.
Authenticate(c) ==
  /\ call[c].pc = "idle"
  /\ \E k \in known :
       /\ keys[k].status = "active" /\ keys[k].role = "admin"
       /\ SetCall(c, [NoCall EXCEPT !.pc = "admin", !.tenant = keys[k].tenant])
  /\ UNCHANGED <<tenants, keys, known>>

CreateTenant(c) ==
  /\ call[c].pc = "admin"
  /\ \E t \in Tenants \ tenants : tenants' = tenants \cup {t}
  /\ SetCall(c, NoCall)
  /\ UNCHANGED <<keys, known>>

\* For the own tenant or any other one.
CreateKey(c) ==
  /\ call[c].pc = "admin"
  /\ \E k \in Keys, t \in tenants, r \in Roles : InsertKey(k, t, r, NoOne) /\ SetCall(c, Reply(k))
  /\ UNCHANGED <<tenants, known>>

\* Keys of the own tenant only; the key of the call itself and the last one are
\* revoked like any other.  Without such a row nothing changes.
RevokeKey(c) ==
  /\ call[c].pc = "admin"
  /\ \/ \E k \in Rows : /\ keys[k].tenant = call[c].tenant
                        /\ keys' = [keys EXCEPT ![k].status = "revoked"]
     \/ UNCHANGED keys
  /\ SetCall(c, NoCall)
  /\ UNCHANGED <<tenants, known>>

\* recover_admin_key: SELECT ... LIMIT 1 without an order is any of the tenants.
Recover(c) ==
  /\ call[c].pc = "idle" /\ SecretIsReal
  /\ \E k \in Keys, t \in tenants : InsertKey(k, t, "admin", NoOne) /\ SetCall(c, Reply(k))
  /\ UNCHANGED <<tenants, known>>

CallStep(c) ==
  \/ CountKeys(c) \/ Bootstrap(c) \/ Tell(c) \/ Authenticate(c)
  \/ CreateTenant(c) \/ CreateKey(c) \/ RevokeKey(c) \/ Recover(c)

CallsLost == call' = [c \in Callers |-> NoCall] /\ UNCHANGED <<tenants, keys, known>>

-----------------------------------------------------------------------------
\* scripts/manage.py, on the database itself: create-key (and recover, which checks
\* the secret first) prints the key that it made; revoke-key takes any key.
CreateKeyByHand ==
  /\ \E k \in Keys, t \in tenants, r \in Roles :
       InsertKey(k, t, r, NoOne) /\ known' = known \cup {k}
  /\ UNCHANGED <<tenants, call>>

RevokeKeyByHand ==
  /\ \E k \in Rows : keys' = [keys EXCEPT ![k].status = "revoked"]
  /\ UNCHANGED <<tenants, known, call>>

ByHand == CreateKeyByHand \/ RevokeKeyByHand
=============================================================================
