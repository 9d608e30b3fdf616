------------------------------ MODULE Deployment ------------------------------
(***************************************************************************)
(* A service over its restarts: an instance that starts, serves and stops  *)
(* (Startup), and the calls that administer it (Access), which need an     *)
(* instance that serves and are lost when it stops.                        *)
(***************************************************************************)
EXTENDS Startup, Access

vars == <<startupVars, accessVars>>

TypeOK == StartupTypeOK /\ AccessTypeOK

Init == StartupInit /\ AccessInit

Instance == StartupStep /\ UNCHANGED accessVars

Served == Serving /\ (\E c \in Callers : CallStep(c)) /\ UNCHANGED startupVars

Operator == ByHand /\ UNCHANGED startupVars

\* The process ends: calls in flight are not answered, what they committed stays.
Crash == Stop /\ CallsLost

Next == Instance \/ Served \/ Operator \/ Crash

Spec == Init /\ [][Next]_vars

-----------------------------------------------------------------------------
\* While an instance serves from Qdrant the collection has the dimension of the
\* vectors it will write, whatever earlier starts found, and also after a start that
\* ended between deleting the collection and creating it.
ServingStoreFits == Serving /\ active = "qdrant" => qdrant = registry.dim

\* Vectors are lost to a change of the dimension only: as long as every start since
\* a document was indexed chose its dimension, they are in the store they were
\* written to, though Chroma may have stood in for Qdrant meanwhile.
SteadyKeepsVectors ==
  \A d \in Docs : docs[d] = "indexed" /\ steady[d] => d \in points[home[d].store]

\* The vectors of a purged document stay behind for three reasons only: the purge
\* worker could not delete them, an embed worker was at work on the document during
\* the purge (embed_worker.py:141-142), or they are in another store than the one that
\* was active; never because a crash came between two steps of either worker.
OrphansExplained ==
  \A d \in Docs : docs[d] = "purged" /\ (\E s \in Stores : d \in points[s]) => served = Stores

\* Two bootstraps may both count no keys, but no caller succeeds twice, neither
\* after a crash that swallowed the first key nor when all keys are revoked: there
\* are at most as many first administrators as there were concurrent calls.
BootstrapOnce ==
  \A j, k \in Keys : keys[j].by = keys[k].by /\ keys[j].by # NoOne => j = k
=============================================================================
