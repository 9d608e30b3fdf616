--------------------------- MODULE DeploymentProofs ---------------------------
(* Theorems about Deployment, for any documents, dimensions, callers, keys and  *)
(* tenants.                                                                     *)
EXTENDS Deployment, TLAPS

USE DEF Stores, Dims, Purged, durable, memory

(* The registry holds the dimension of a model from the embedding probe on. *)
Unprobed == {"down", "parse", "embed"}

(* What the phase says about memory, and about the Qdrant collection. *)
PhaseInv ==
  /\ phase \notin Unprobed => registry.dim \in {OllamaDim, StDim}
  /\ phase \in Unprobed \cup {"vector", "recreate", "fallback"} => registry.vector = "chroma"
  /\ phase \in {"store", "model", "serving"} => registry.frozen /\ registry.mode = "hybrid"
  /\ phase \in {"model", "serving"} => active = registry.vector /\ active \in served
  /\ phase = "recreate" => qdrant = 0
  /\ phase # "serving" => \A d \in Docs : embedder[d] = "none" /\ purger[d] = "none"
  /\ registry.vector = "qdrant" => qdrant = registry.dim

LEMMA StartupTypeInit == Init => StartupTypeOK /\ PhaseInv
BY DimAssumption DEF Init, StartupInit, StartupTypeOK, PhaseInv, Phases, DefaultRegistry, Unprobed

(* The start of an instance keeps the types and what the phase says. *)
LEMMA StartupTypeStep ==
  StartupTypeOK /\ PhaseInv /\ [StartupStep \/ Stop]_startupVars => StartupTypeOK' /\ PhaseInv'
<1> SUFFICES ASSUME StartupTypeOK, PhaseInv, [StartupStep \/ Stop]_startupVars
             PROVE  StartupTypeOK' /\ PhaseInv'
  OBVIOUS
<1> USE DimAssumption DEF StartupTypeOK, PhaseInv, Phases, Unprobed, Goes, storeVars
<1>1. CASE Connect
  BY <1>1 DEF Connect
<1>2. CASE ProbeParser
  BY <1>2 DEF ProbeParser
<1>3. CASE ProbeEmbedder
  <2> DEFINE Found == {[embed |-> "ollama", dim |-> OllamaDim],
                       [embed |-> "sentence_transformers", dim |-> StDim]}
  <2>1. PICK e \in Found :
          /\ registry' = [registry EXCEPT !.embed = e.embed, !.dim = e.dim]
          /\ steady' = [d \in Docs |-> steady[d] /\ home[d].dim \in {0, e.dim}]
    BY <1>3 DEF ProbeEmbedder
  <2>2. e.embed \in {"ollama", "sentence_transformers"} /\ e.dim \in {OllamaDim, StDim}
    OBVIOUS
  <2> HIDE DEF Found
  <2>3. steady' \in [Docs -> BOOLEAN]
    BY <2>1
  <2>4. /\ registry' \in [embed : {"ollama", "sentence_transformers"}, dim : {OllamaDim, StDim, DefaultDim},
                          vector : {"qdrant", "chroma"}, mode : {"hybrid", "fts_only"}, frozen : BOOLEAN]
        /\ registry'.dim \in {OllamaDim, StDim} /\ registry'.vector = "chroma"
    BY <1>3, <2>1, <2>2 DEF ProbeEmbedder
  <2> QED BY <1>3, <2>3, <2>4 DEF ProbeEmbedder
<1>4. CASE ProbeQdrant
  BY <1>4 DEF ProbeQdrant, UseQdrant
<1>5. CASE RecreateQdrant
  BY <1>5 DEF RecreateQdrant, UseQdrant
<1>6. CASE InitChroma
  BY <1>6 DEF InitChroma
<1>7. CASE Freeze
  BY <1>7 DEF Freeze
<1>8. CASE InitVectorStore
  BY <1>8 DEF InitVectorStore
<1>9. CASE Serve
  BY <1>9 DEF Serve
<1>10. ASSUME NEW d \in Docs, LoadDocument(d) \/ UpsertVectors(d) \/ CommitDocument(d)
       PROVE  StartupTypeOK' /\ PhaseInv'
  <2>1. CASE LoadDocument(d)
    BY <2>1 DEF LoadDocument, Serving
  <2>2. CASE UpsertVectors(d)
    <3>1. /\ UNCHANGED <<phase, registry, active, qdrant, docs, home, steady, served, purger>>
          /\ registry.dim \in {OllamaDim, StDim} /\ phase = "serving"
      BY <2>2 DEF UpsertVectors, Serving
    <3>2. embedder' \in [Docs -> {"none", "loaded", "upserted"}]
      BY <2>2 DEF UpsertVectors
    <3>3. points' \in [Stores -> SUBSET Docs]
      BY <2>2 DEF UpsertVectors
    <3>4. chroma' \in Dims \cup {0}
      BY <2>2, <3>1 DEF UpsertVectors
    <3> QED BY <3>1, <3>2, <3>3, <3>4
  <2>3. CASE CommitDocument(d)
    BY <2>3 DEF CommitDocument, Serving
  <2> QED BY <1>10, <2>1, <2>2, <2>3
<1>11. ASSUME NEW d \in Docs, DeleteDocument(d) \/ PurgeVectors(d) \/ PurgeRows(d)
       PROVE  StartupTypeOK' /\ PhaseInv'
  <2>1. CASE DeleteDocument(d)
    BY <2>1 DEF DeleteDocument, Serving
  <2>2. CASE PurgeVectors(d)
    BY <2>2 DEF PurgeVectors, Serving
  <2>3. CASE PurgeRows(d)
    BY <2>3 DEF PurgeRows, Serving
  <2> QED BY <1>11, <2>1, <2>2, <2>3
<1>12. CASE Stop
  BY <1>12 DEF Stop, DefaultRegistry
<1>13. CASE UNCHANGED startupVars
  BY <1>13 DEF startupVars
<1> QED BY <1>1, <1>2, <1>3, <1>4, <1>5, <1>6, <1>7, <1>8, <1>9, <1>10, <1>11, <1>12, <1>13
        DEF StartupStep, DocumentStep

-----------------------------------------------------------------------------
(* What keeps a document's vectors.  A document that was indexed knows the      *)
(* store and the dimension it was written with; while it is steady the registry *)
(* has that dimension, once it has one, and so has the Qdrant collection.  Only *)
(* a document that is being deleted has a purge worker.                         *)
IsHome(d) ==
  /\ home[d].store \in Stores /\ home[d].dim \in Dims
  /\ steady[d] => /\ phase \notin Unprobed => registry.dim = home[d].dim
                  /\ home[d].store = "qdrant" => qdrant = home[d].dim
                  /\ d \in points[home[d].store]

SteadyInv ==
  \A d \in Docs :
    /\ docs[d] = "indexed" => IsHome(d)
    /\ embedder[d] = "upserted" /\ docs[d] \in {"absent", "indexed"} => d \in points[active]

LEMMA SteadyInit == Init => SteadyInv
BY DEF Init, StartupInit, SteadyInv

LEMMA SteadyStep ==
  StartupTypeOK /\ PhaseInv /\ SteadyInv /\ [StartupStep \/ Stop]_startupVars => SteadyInv'
<1> SUFFICES ASSUME StartupTypeOK, PhaseInv, SteadyInv, [StartupStep \/ Stop]_startupVars
             PROVE  SteadyInv'
  OBVIOUS
<1> USE DimAssumption DEF StartupTypeOK, PhaseInv, SteadyInv, IsHome, Unprobed, Goes, storeVars
<1>1. CASE Connect \/ ProbeParser \/ InitChroma \/ Freeze \/ Serve
  <2>1. CASE Connect \/ ProbeParser
    BY <2>1 DEF Connect, ProbeParser
  <2>2. CASE InitChroma
    BY <2>2 DEF InitChroma
  <2>3. CASE Freeze
    BY <2>3 DEF Freeze
  <2>4. CASE Serve
    BY <2>4 DEF Serve
  <2> QED BY <1>1, <2>1, <2>2, <2>3, <2>4
<1>2. CASE ProbeEmbedder      \* a document whose dimension is not chosen is not steady any more
  <2> DEFINE Found == {[embed |-> "ollama", dim |-> OllamaDim],
                       [embed |-> "sentence_transformers", dim |-> StDim]}
  <2>1. PICK e \in Found :
          /\ registry' = [registry EXCEPT !.embed = e.embed, !.dim = e.dim]
          /\ steady' = [x \in Docs |-> steady[x] /\ home[x].dim \in {0, e.dim}]
    BY <1>2 DEF ProbeEmbedder
  <2> HIDE DEF Found
  <2>2. registry'.dim = e.dim
    BY <2>1
  <2>3. \A d \in Docs : steady'[d] => steady[d] /\ home[d].dim \in {0, e.dim}
    BY <2>1
  <2> QED BY <1>2, <2>2, <2>3 DEF ProbeEmbedder
<1>3. CASE ProbeQdrant        \* a collection that is deleted has another dimension
  BY <1>3 DEF ProbeQdrant, UseQdrant
<1>4. CASE RecreateQdrant
  BY <1>4 DEF RecreateQdrant, UseQdrant
<1>5. CASE InitVectorStore
  BY <1>5 DEF InitVectorStore
<1>6. ASSUME NEW x \in Docs, LoadDocument(x) PROVE SteadyInv'
  BY <1>6 DEF LoadDocument, Serving
<1>7. ASSUME NEW x \in Docs, UpsertVectors(x) PROVE SteadyInv'
  <2>1. active \in Stores /\ \A s \in Stores : points[s] \subseteq points'[s]
    BY <1>7 DEF UpsertVectors, Serving
  <2>2. /\ UNCHANGED <<phase, registry, active, qdrant, docs, home, steady>>
        /\ \A d \in Docs \ {x} : embedder'[d] = embedder[d]
        /\ embedder'[x] = "upserted" => x \in points'[active]
    BY <1>7, <2>1 DEF UpsertVectors
  <2> QED BY <2>1, <2>2
<1>8. ASSUME NEW x \in Docs, CommitDocument(x) PROVE SteadyInv'
  <2>1. active \in Stores /\ registry.dim \in Dims /\ phase \notin Unprobed
        /\ (active = "qdrant" => qdrant = registry.dim)
    BY <1>8 DEF CommitDocument, Serving
  <2>2. /\ UNCHANGED <<phase, registry, active, qdrant, points>>
        /\ \A d \in Docs \ {x} : /\ embedder'[d] = embedder[d] /\ docs'[d] = docs[d]
                               /\ home'[d] = home[d] /\ steady'[d] = steady[d]
        /\ embedder[x] = "upserted" /\ embedder'[x] = "none"
        /\ docs'[x] = IF docs[x] = "absent" THEN "indexed" ELSE docs[x]
        /\ home'[x] = [store |-> active, dim |-> registry.dim]
    BY <1>8 DEF CommitDocument
  <2>3. docs'[x] = "indexed" => x \in points[active]
    BY <2>2
  <2> QED BY <2>1, <2>2, <2>3
<1>9. ASSUME NEW x \in Docs, DeleteDocument(x) \/ PurgeRows(x) PROVE SteadyInv'
  BY <1>9 DEF DeleteDocument, PurgeRows, Serving
<1>10. ASSUME NEW x \in Docs, PurgeVectors(x) PROVE SteadyInv'
  <2>1. /\ UNCHANGED <<phase, registry, active, qdrant, docs, home, steady, embedder>>
        /\ docs[x] = "deleting" /\ active \in Stores
        /\ \A s \in Stores, d \in Docs \ {x} : d \in points[s] => d \in points'[s]
    BY <1>10 DEF PurgeVectors, Serving
  <2> QED BY <2>1
<1>11. CASE Stop
  BY <1>11 DEF Stop, DefaultRegistry
<1>12. CASE UNCHANGED startupVars
  BY <1>12 DEF startupVars
<1> QED BY <1>1, <1>2, <1>3, <1>4, <1>5, <1>6, <1>7, <1>8, <1>9, <1>10, <1>11, <1>12
        DEF StartupStep, DocumentStep

-----------------------------------------------------------------------------
(* Vectors are in stores that have been active.  Between the deletion of its    *)
(* vectors and that of its rows, a document that no embed worker is at work on  *)
(* has none in the active store, and nobody is left to write some afterwards.   *)
OrphanInv ==
  /\ \A s \in Stores, d \in Docs : d \in points[s] => s \in served
  /\ \A d \in Docs : purger[d] # "none" => docs[d] = "deleting"
  /\ \A d \in Docs : purger[d] = "purged" => d \notin points[active] /\ embedder[d] # "loaded"
  /\ \A d \in Docs : docs[d] = "purged" => embedder[d] # "loaded"
  /\ OrphansExplained

LEMMA OrphanInit == Init => OrphanInv
BY DEF Init, StartupInit, OrphanInv, OrphansExplained

LEMMA OrphanStep ==
  StartupTypeOK /\ PhaseInv /\ OrphanInv /\ [StartupStep \/ Stop]_startupVars => OrphanInv'
<1> SUFFICES ASSUME StartupTypeOK, PhaseInv, OrphanInv, [StartupStep \/ Stop]_startupVars
             PROVE  OrphanInv'
  OBVIOUS
<1> USE DEF StartupTypeOK, OrphanInv, OrphansExplained, Goes, storeVars
<1>1. CASE Connect \/ ProbeParser \/ ProbeEmbedder \/ InitChroma \/ Freeze \/ Serve
  BY <1>1 DEF Connect, ProbeParser, ProbeEmbedder, InitChroma, Freeze, Serve
<1>2. CASE ProbeQdrant
  <2>1. /\ UNCHANGED <<active, docs, served, embedder, purger>>
        /\ \A s \in Stores : points'[s] \subseteq points[s]
        /\ \A d \in Docs : purger[d] = "none"
    BY <1>2 DEF ProbeQdrant, PhaseInv
  <2> QED BY <2>1
<1>3. CASE RecreateQdrant
  BY <1>3 DEF RecreateQdrant
<1>4. CASE InitVectorStore
  <2>1. served \subseteq served' /\ served' \subseteq Stores /\ UNCHANGED <<points, docs, embedder, purger>>
    BY <1>4 DEF InitVectorStore
  <2>2. \A d \in Docs : purger[d] = "none"
    BY <1>4 DEF InitVectorStore, PhaseInv
  <2> QED BY <2>1, <2>2
<1>5. ASSUME NEW x \in Docs, LoadDocument(x) PROVE OrphanInv'
  <2>1. /\ UNCHANGED <<active, points, docs, served>> /\ docs[x] \notin Purged
        /\ \A d \in Docs \ {x} : embedder'[d] = embedder[d] /\ purger'[d] = purger[d]
        /\ purger'[x] # "purged" /\ (purger'[x] # "none" => purger[x] # "none")
    BY <1>5 DEF LoadDocument
  <2> QED BY <2>1
<1>6. ASSUME NEW x \in Docs, UpsertVectors(x) PROVE OrphanInv'
  <2>1. active \in Stores /\ active \in served
    BY <1>6 DEF UpsertVectors, Serving, PhaseInv
  <2>2. /\ UNCHANGED <<active, docs, served, purger>>
        /\ embedder[x] = "loaded" /\ embedder'[x] # "loaded"
        /\ \A d \in Docs \ {x} : embedder'[d] = embedder[d]
        /\ \A s \in Stores, d \in Docs : d \in points'[s] => d \in points[s] \/ (s = active /\ d = x)
    BY <1>6, <2>1 DEF UpsertVectors
  <2>3. \A d \in Docs : purger[d] = "purged" \/ docs[d] = "purged" =>
          d # x /\ embedder'[d] # "loaded" /\ \A s \in Stores : d \in points'[s] => d \in points[s]
    BY <2>2
  <2>4. \A s \in Stores, d \in Docs : d \in points'[s] => s \in served
    BY <2>1, <2>2
  <2> QED BY <2>1, <2>2, <2>3, <2>4
<1>7. ASSUME NEW x \in Docs, CommitDocument(x) PROVE OrphanInv'
  <2>1. /\ UNCHANGED <<active, points, served, purger>>
        /\ \A d \in Docs : embedder'[d] = "loaded" => embedder[d] = "loaded"
        /\ \A d \in Docs : /\ docs[d] = "deleting" => docs'[d] = "deleting"
                           /\ docs'[d] = "purged" => docs[d] = "purged"
    BY <1>7 DEF CommitDocument
  <2> QED BY <2>1
<1>8. ASSUME NEW x \in Docs, DeleteDocument(x) PROVE OrphanInv'
  BY <1>8 DEF DeleteDocument
<1>9. ASSUME NEW x \in Docs, PurgeVectors(x) PROVE OrphanInv'
  <2>1. active \in Stores
    BY <1>9 DEF PurgeVectors, Serving, PhaseInv
  <2>2. /\ UNCHANGED <<active, docs, served, embedder>> /\ docs[x] = "deleting"
        /\ \A d \in Docs \ {x} : purger'[d] = purger[d]
        /\ \A s \in Stores : points'[s] \subseteq points[s]
        /\ purger'[x] = "purged" => x \notin points'[active] /\ embedder[x] # "loaded"
    BY <1>9, <2>1 DEF PurgeVectors
  <2> QED BY <2>1, <2>2
<1>10. ASSUME NEW x \in Docs, PurgeRows(x) PROVE OrphanInv'
  <2>1. active \in Stores /\ active \in served
    BY <1>10 DEF PurgeRows, Serving, PhaseInv
  <2>2. \A s \in Stores : s # active /\ s \in served => served = Stores
    <3>1. served \subseteq Stores
      OBVIOUS
    <3>2. ASSUME NEW s \in Stores, s # active, s \in served
          PROVE  "qdrant" \in served /\ "chroma" \in served
      BY <2>1, <3>2
    <3> HIDE DEF OrphanInv, StartupTypeOK
    <3> QED BY <3>1, <3>2
  <2>3. /\ UNCHANGED <<active, points, served, embedder>>
        /\ \A d \in Docs \ {x} : docs'[d] = docs[d] /\ purger'[d] = purger[d]
        /\ docs'[x] = purger[x] /\ purger'[x] = "none"
    BY <1>10 DEF PurgeRows
  <2>4. docs'[x] = "purged" => embedder[x] # "loaded" /\ x \notin points[active]
    BY <2>3
  <2> QED BY <2>1, <2>2, <2>3, <2>4
<1>11. CASE Stop
  <2>1. /\ UNCHANGED <<points, docs, served>>
        /\ \A d \in Docs : embedder'[d] = "none" /\ purger'[d] = "none"
    BY <1>11 DEF Stop
  <2> QED BY <2>1
<1>12. CASE UNCHANGED startupVars
  BY <1>12 DEF startupVars
<1> QED BY <1>1, <1>2, <1>3, <1>4, <1>5, <1>6, <1>7, <1>8, <1>9, <1>10, <1>11, <1>12
        DEF StartupStep, DocumentStep

-----------------------------------------------------------------------------
(* What bounds the bootstraps: a caller that has counted no keys has made none. *)
BootstrapInv ==
  /\ BootstrapOnce
  /\ \A c \in Callers : call[c].pc = "bootstrap" => \A k \in Keys : keys[k].by # c

AccessStep == (\E c \in Callers : CallStep(c)) \/ ByHand \/ CallsLost

LEMMA AccessInitially == Init => AccessTypeOK /\ BootstrapInv
BY AccessAssumption
   DEF Init, AccessInit, AccessTypeOK, BootstrapInv, BootstrapOnce, Absent, KeyRows, NoCall, Calls, Rows

(* A row that is inserted is a row, and the rows that are there stay. *)
LEMMA Inserted ==
  ASSUME AccessTypeOK, NEW k \in Keys, NEW t \in Tenants, NEW r \in Roles,
         NEW c \in Callers \cup {NoOne}, InsertKey(k, t, r, c)
  PROVE  /\ keys' \in [Keys -> KeyRows]
         /\ Rows' = Rows \cup {k} /\ keys'[k].tenant = t /\ keys'[k].by = c
         /\ \A j \in Keys \ {k} : keys'[j] = keys[j]
<1> DEFINE new == [status |-> "active", tenant |-> t, role |-> r, by |-> c]
<1>1. new \in KeyRows /\ new.status = "active" /\ new.tenant = t /\ new.by = c
  BY DEF KeyRows
<1> HIDE DEF new
<1>2. keys' = [keys EXCEPT ![k] = new]
  BY DEF InsertKey, new
<1> QED BY <1>1, <1>2 DEF AccessTypeOK, Rows

(* So does a row that is revoked. *)
LEMMA Revoked ==
  ASSUME AccessTypeOK, NEW k \in Rows, keys' = [keys EXCEPT ![k].status = "revoked"]
  PROVE  /\ keys' \in [Keys -> KeyRows] /\ Rows' = Rows
         /\ \A j \in Keys : keys'[j].tenant = keys[j].tenant /\ keys'[j].by = keys[j].by
<1>1. k \in Keys /\ keys[k] \in KeyRows \ {Absent}
  BY DEF Rows, AccessTypeOK, Absent
<1> DEFINE new == [keys[k] EXCEPT !.status = "revoked"]
<1>2. new \in KeyRows /\ new.status = "revoked" /\ new.tenant = keys[k].tenant /\ new.by = keys[k].by
  BY <1>1 DEF KeyRows
<1> HIDE DEF new
<1>3. keys' = [keys EXCEPT ![k] = new]
  BY DEF new
<1> QED BY <1>1, <1>2, <1>3 DEF AccessTypeOK, Rows

LEMMA AccessSteps ==
  AccessTypeOK /\ BootstrapInv /\ [AccessStep]_accessVars => AccessTypeOK' /\ BootstrapInv'
<1> SUFFICES ASSUME AccessTypeOK, BootstrapInv, [AccessStep]_accessVars
             PROVE  AccessTypeOK' /\ BootstrapInv'
  OBVIOUS
<1> USE AccessAssumption DEF AccessTypeOK, BootstrapInv, BootstrapOnce, SetCall, NoCall, Calls
<1>1. ASSUME NEW c \in Callers, CountKeys(c) PROVE AccessTypeOK' /\ BootstrapInv'
  <2>1. \A k \in Keys : keys[k].by = NoOne
    BY <1>1 DEF CountKeys, Rows, KeyRows, Absent
  <2> QED BY <1>1, <2>1 DEF CountKeys, Rows
<1>2. ASSUME NEW c \in Callers, Bootstrap(c) PROVE AccessTypeOK' /\ BootstrapInv'
  <2>1. PICK k \in Keys, t \in Tenants \ tenants :
          InsertKey(k, t, "admin", c) /\ tenants' = tenants \cup {t} /\ SetCall(c, Reply(k))
    BY <1>2 DEF Bootstrap
  <2>2. /\ keys' \in [Keys -> KeyRows]
        /\ Rows' = Rows \cup {k} /\ keys'[k].tenant = t /\ keys'[k].by = c
        /\ \A j \in Keys \ {k} : keys'[j] = keys[j]
    BY <2>1, Inserted
  <2> DEFINE new == Reply(k)
  <2>3. new \in Calls /\ new.pc = "reply" /\ new.key = k
    BY DEF Reply
  <2>4. call' = [call EXCEPT ![c] = new] /\ UNCHANGED known /\ call[c].pc = "bootstrap"
    BY <1>2, <2>1 DEF Bootstrap
  <2> HIDE DEF new
  <2>5. call' \in [Callers -> Calls] /\ \A x \in Callers : call'[x].pc = "reply" => call'[x].key \in Rows'
    BY <2>2, <2>3, <2>4
  <2>6. AccessTypeOK'
    BY <2>1, <2>2, <2>4, <2>5 DEF Rows
  <2>7. \A j \in Keys : keys[j].by # c
    BY <2>4
  <2>8. BootstrapInv'
    BY <2>2, <2>3, <2>4, <2>7
  <2> QED BY <2>6, <2>8
<1>3. ASSUME NEW c \in Callers, Tell(c) PROVE AccessTypeOK' /\ BootstrapInv'
  BY <1>3 DEF Tell, Rows
<1>4. ASSUME NEW c \in Callers, Authenticate(c) PROVE AccessTypeOK' /\ BootstrapInv'
  <2>1. PICK k \in known :
          SetCall(c, [NoCall EXCEPT !.pc = "admin", !.tenant = keys[k].tenant])
    BY <1>4 DEF Authenticate
  <2>2. keys[k].tenant \in Tenants
    BY DEF Rows
  <2> DEFINE new == [NoCall EXCEPT !.pc = "admin", !.tenant = keys[k].tenant]
  <2>3. new \in Calls /\ new.pc = "admin"
    BY <2>2
  <2> HIDE DEF new
  <2>4. call' = [call EXCEPT ![c] = new]
    BY <2>1 DEF new
  <2> QED BY <1>4, <2>3, <2>4 DEF Authenticate, Rows
<1>5. ASSUME NEW c \in Callers, CreateTenant(c) PROVE AccessTypeOK' /\ BootstrapInv'
  BY <1>5 DEF CreateTenant, Rows
<1>6. ASSUME NEW c \in Callers, CreateKey(c) \/ Recover(c) PROVE AccessTypeOK' /\ BootstrapInv'
  <2>1. PICK k \in Keys, t \in tenants, r \in Roles :
          InsertKey(k, t, r, NoOne) /\ SetCall(c, Reply(k)) /\ UNCHANGED <<tenants, known>>
    BY <1>6 DEF CreateKey, Recover
  <2>2. /\ keys' \in [Keys -> KeyRows]
        /\ Rows' = Rows \cup {k} /\ keys'[k].tenant = t /\ keys'[k].by = NoOne
        /\ \A j \in Keys \ {k} : keys'[j] = keys[j]
    BY <2>1, Inserted
  <2> DEFINE new == Reply(k)
  <2>3. new \in Calls /\ new.pc = "reply" /\ new.key = k
    BY DEF Reply
  <2>4. call' = [call EXCEPT ![c] = new]
    BY <2>1
  <2> HIDE DEF new
  <2>5. call' \in [Callers -> Calls] /\ \A x \in Callers : call'[x].pc = "reply" => call'[x].key \in Rows'
    BY <2>2, <2>3, <2>4
  <2>6. AccessTypeOK'
    BY <2>1, <2>2, <2>5 DEF Rows
  <2>7. BootstrapInv'
    BY <2>2, <2>3, <2>4
  <2> QED BY <2>6, <2>7
<1>7. ASSUME NEW c \in Callers, RevokeKey(c) PROVE AccessTypeOK' /\ BootstrapInv'
  <2>1. /\ keys' \in [Keys -> KeyRows] /\ Rows' = Rows
        /\ \A j \in Keys : keys'[j].tenant = keys[j].tenant /\ keys'[j].by = keys[j].by
    BY <1>7, Revoked DEF RevokeKey, Rows
  <2>2. UNCHANGED <<tenants, known>> /\ call' = [call EXCEPT ![c] = NoCall]
    BY <1>7 DEF RevokeKey
  <2>3. AccessTypeOK'
    <3>1. Rows \subseteq Keys
      BY DEF Rows
    <3>2. call' \in [Callers -> Calls] /\ \A x \in Callers : call'[x].pc = "reply" => call'[x].key \in Rows
      BY <2>2
    <3> QED BY <2>1, <2>2, <3>1, <3>2
  <2>4. BootstrapInv'
    BY <2>1, <2>2
  <2> QED BY <2>3, <2>4
<1>8. CASE CreateKeyByHand
  <2>1. PICK k \in Keys, t \in tenants, r \in Roles :
          InsertKey(k, t, r, NoOne) /\ known' = known \cup {k} /\ UNCHANGED <<tenants, call>>
    BY <1>8 DEF CreateKeyByHand
  <2>2. /\ keys' \in [Keys -> KeyRows]
        /\ Rows' = Rows \cup {k} /\ keys'[k].tenant = t /\ keys'[k].by = NoOne
        /\ \A j \in Keys \ {k} : keys'[j] = keys[j]
    BY <2>1, Inserted
  <2> QED BY <2>1, <2>2 DEF Rows
<1>9. CASE RevokeKeyByHand
  <2>1. /\ keys' \in [Keys -> KeyRows] /\ Rows' = Rows
        /\ \A j \in Keys : keys'[j].tenant = keys[j].tenant /\ keys'[j].by = keys[j].by
    BY <1>9, Revoked DEF RevokeKeyByHand
  <2> QED BY <1>9, <2>1 DEF RevokeKeyByHand, Rows
<1>10. CASE CallsLost
  BY <1>10 DEF CallsLost, Rows
<1>11. CASE UNCHANGED accessVars
  BY <1>11 DEF accessVars, Rows
<1> QED BY <1>1, <1>2, <1>3, <1>4, <1>5, <1>6, <1>7, <1>8, <1>9, <1>10, <1>11
        DEF AccessStep, CallStep, ByHand

-----------------------------------------------------------------------------
(* A step of the deployment is one of each part, or a stutter of it. *)
LEMMA PartSteps ==
  [Next]_vars => [StartupStep \/ Stop]_startupVars /\ [AccessStep]_accessVars
BY DEF Next, Instance, Served, Operator, Crash, vars, AccessStep

DeploymentInv == TypeOK /\ PhaseInv /\ SteadyInv /\ OrphanInv /\ BootstrapInv

LEMMA DeploymentInvariant == Spec => []DeploymentInv
<1>1. Init => DeploymentInv
  BY StartupTypeInit, SteadyInit, OrphanInit, AccessInitially DEF DeploymentInv, TypeOK
<1>2. DeploymentInv /\ [Next]_vars => DeploymentInv'
  BY PartSteps, StartupTypeStep, SteadyStep, OrphanStep, AccessSteps DEF DeploymentInv, TypeOK
<1> QED BY <1>1, <1>2, PTL DEF Spec

(* Types; an instance that serves does so from a frozen registry and the store it   *)
(* names; every key belongs to a tenant that is there.                              *)
THEOREM DeploymentTypes == Spec => []TypeOK
BY DeploymentInvariant, PTL DEF DeploymentInv

(* Whatever earlier starts did or left undone, an instance that serves from Qdrant  *)
(* finds a collection of its dimension.                                             *)
THEOREM QdrantFits == Spec => []ServingStoreFits
<1>1. DeploymentInv => ServingStoreFits
  BY DEF DeploymentInv, PhaseInv, ServingStoreFits, Serving
<1> QED BY <1>1, DeploymentInvariant, PTL

(* Vectors are lost to a change of the dimension only. *)
THEOREM VectorsKept == Spec => []SteadyKeepsVectors
<1>1. DeploymentInv => SteadyKeepsVectors
  BY DEF DeploymentInv, SteadyInv, IsHome, SteadyKeepsVectors
<1> QED BY <1>1, DeploymentInvariant, PTL

(* Vectors outlive a purge that deleted them, next to no embed worker, in a store   *)
(* that was not active only, wherever the instance stopped in between.              *)
THEOREM OrphansAreExplained == Spec => []OrphansExplained
<1>1. DeploymentInv => OrphansExplained
  BY DEF DeploymentInv, OrphanInv
<1> QED BY <1>1, DeploymentInvariant, PTL

(* No caller bootstraps twice, however many callers, keys and restarts there are. *)
THEOREM OneBootstrapEach == Spec => []BootstrapOnce
<1>1. DeploymentInv => BootstrapOnce
  BY DEF DeploymentInv, BootstrapInv
<1> QED BY <1>1, DeploymentInvariant, PTL
=============================================================================
