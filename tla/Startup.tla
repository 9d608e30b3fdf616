------------------------------- MODULE Startup -------------------------------
(***************************************************************************)
(* The start of an instance: the lifespan of main.py, the probes of        *)
(* core/startup.py that fill core/registry.py, the choice of the vector    *)
(* store, and what the choice does to documents over restarts.             *)
(*                                                                         *)
(* What each probe finds differs from start to start: Ollama and Qdrant    *)
(* come and go.  One instance runs at a time.  Of what the workers do to a *)
(* document (see Pipeline) there are the steps that touch the vectors: the *)
(* embedding and the purge, which may overtake each other.                 *)
(***************************************************************************)
EXTENDS Integers, FiniteSets

CONSTANTS
  Docs,
  OllamaDim, StDim,     \* dimensions of the two embedding models
  DefaultDim            \* embed_dimension of a registry that is not filled, 384

ASSUME DimAssumption == {OllamaDim, StDim, DefaultDim} \subseteq Nat \ {0}

Stores == {"qdrant", "chroma"}
Dims   == {OllamaDim, StDim}

VARIABLES
  phase,      \* how far the lifespan has come
  registry,
  active,     \* _vector_store
  qdrant,     \* dimension of the Qdrant collection, 0 if there is none
  chroma,     \* dimension of the Chroma collection, 0 until it is first written to
  points,     \* the documents with vectors in each store
  docs,       \* how far a document's life is; how its purge went when it is over
  home,       \* store and dimension a document was embedded for
  steady,     \* no start since then chose another dimension
  served,     \* history: the stores that were ever active
  embedder,   \* what the embed worker of a document has done
  purger      \* and what its purge worker has

memory      == <<embedder, purger>>
durable     == <<qdrant, chroma, points, docs, home, steady, served>>
storeVars   == <<durable, memory>>
startupVars == <<phase, registry, active, storeVars>>

Phases == {"down", "parse", "embed", "vector", "recreate", "fallback", "freeze", "store", "model",
           "serving"}

\* A purge has deleted the vectors while no embed worker was at work on the
\* document; or the deletion failed; or an embed worker was.
Purged == {"purged", "skipped", "overtaken"}

\* parse_backend and embed_model_name decide nothing here.
DefaultRegistry == [embed |-> "sentence_transformers", dim |-> DefaultDim, vector |-> "chroma",
                    mode |-> "fts_only", frozen |-> FALSE]

StartupTypeOK ==
  /\ phase \in Phases
  /\ registry \in [embed : {"ollama", "sentence_transformers"}, dim : Dims \cup {DefaultDim},
                   vector : Stores, mode : {"hybrid", "fts_only"}, frozen : BOOLEAN]
  /\ active \in Stores \cup {"none"}
  /\ qdrant \in Dims \cup {0} /\ chroma \in Dims \cup {0}
  /\ points \in [Stores -> SUBSET Docs]
  /\ docs \in [Docs -> {"absent", "indexed", "deleting"} \cup Purged]
  /\ home \in [Docs -> [store : Stores \cup {"none"}, dim : Dims \cup {0}]]
  /\ steady \in [Docs -> BOOLEAN]
  /\ served \subseteq Stores
  /\ embedder \in [Docs -> {"none", "loaded", "upserted"}]
  /\ purger \in [Docs -> {"none"} \cup Purged]
  /\ phase = "serving" => registry.frozen /\ active = registry.vector /\ registry.mode = "hybrid"

StartupInit ==
  /\ phase = "down" /\ registry = DefaultRegistry /\ active = "none"
  /\ qdrant = 0 /\ chroma = 0
  /\ points = [s \in Stores |-> {}]
  /\ docs = [d \in Docs |-> "absent"]
  /\ home = [d \in Docs |-> [store |-> "none", dim |-> 0]]
  /\ steady = [d \in Docs |-> TRUE]
  /\ served = {}
  /\ embedder = [d \in Docs |-> "none"]
  /\ purger = [d \in Docs |-> "none"]

Serving == phase = "serving"

-----------------------------------------------------------------------------
Goes(from, to) == phase = from /\ phase' = to

\* Database, migrations and MinIO come first; without them the process ends (Crash).
Connect == Goes("down", "parse") /\ UNCHANGED <<registry, active, storeVars>>

ProbeParser == Goes("parse", "embed") /\ UNCHANGED <<registry, active, storeVars>>

\* _probe_ollama, else _probe_sentence_transformers.
ProbeEmbedder ==
  /\ Goes("embed", "vector")
  /\ \E e \in {[embed |-> "ollama", dim |-> OllamaDim],
               [embed |-> "sentence_transformers", dim |-> StDim]} :
       /\ registry' = [registry EXCEPT !.embed = e.embed, !.dim = e.dim]
       /\ steady' = [d \in Docs |-> steady[d] /\ home[d].dim \in {0, e.dim}]
  /\ UNCHANGED <<active, qdrant, chroma, points, docs, home, served, memory>>

UseQdrant == registry' = [registry EXCEPT !.vector = "qdrant"]

\* Mutants of the probe: it runs with the dimension of an unfilled registry; a
\* collection is made anew at every start.
ProbeQdrantEarly ==
  /\ \/ /\ Goes("vector", "freeze")
        /\ qdrant \in {0, DefaultDim} /\ qdrant' = DefaultDim /\ UseQdrant
        /\ UNCHANGED points
     \/ /\ Goes("vector", "recreate")
        /\ qdrant \notin {0, DefaultDim} /\ qdrant' = 0
        /\ points' = [points EXCEPT !["qdrant"] = {}]
        /\ UNCHANGED registry
     \/ Goes("vector", "fallback") /\ UNCHANGED <<registry, qdrant, points>>
  /\ UNCHANGED <<active, chroma, docs, home, steady, served, memory>>

ProbeQdrantAnew ==
  /\ \/ /\ Goes("vector", "freeze")
        /\ qdrant = 0 /\ qdrant' = registry.dim /\ UseQdrant
        /\ UNCHANGED points
     \/ /\ Goes("vector", "recreate")
        /\ qdrant # 0 /\ qdrant' = 0
        /\ points' = [points EXCEPT !["qdrant"] = {}]
        /\ UNCHANGED registry
     \/ Goes("vector", "fallback") /\ UNCHANGED <<registry, qdrant, points>>
  /\ UNCHANGED <<active, chroma, docs, home, steady, served, memory>>

\* _probe_qdrant: the collection is created or found to fit; or it is deleted, to be
\* created again; or one of the calls fails and Chroma is used.
ProbeQdrant ==
  /\ \/ /\ Goes("vector", "freeze")
        /\ qdrant \in {0, registry.dim} /\ qdrant' = registry.dim /\ UseQdrant
        /\ UNCHANGED points
     \/ /\ Goes("vector", "recreate")
        /\ qdrant \notin {0, registry.dim} /\ qdrant' = 0
        /\ points' = [points EXCEPT !["qdrant"] = {}]
        /\ UNCHANGED registry
     \/ Goes("vector", "fallback") /\ UNCHANGED <<registry, qdrant, points>>
  /\ UNCHANGED <<active, chroma, docs, home, steady, served, memory>>

\* The second half of the replacement, which may fail by itself.
RecreateQdrant ==
  /\ \/ Goes("recreate", "freeze") /\ qdrant' = registry.dim /\ UseQdrant
     \/ Goes("recreate", "fallback") /\ UNCHANGED <<qdrant, registry>>
  /\ UNCHANGED <<active, chroma, points, docs, home, steady, served, memory>>

\* _init_chroma: a collection that is there is kept, whatever its dimension.
InitChroma ==
  /\ Goes("fallback", "freeze")
  /\ registry' = [registry EXCEPT !.vector = "chroma"]
  /\ UNCHANGED <<active, storeVars>>

\* Search mode and freeze.
Freeze ==
  /\ Goes("freeze", "store")
  /\ registry' = [registry EXCEPT !.mode = IF registry.vector \in Stores THEN "hybrid" ELSE "fts_only",
                                  !.frozen = TRUE]
  /\ UNCHANGED <<active, storeVars>>

\* init_vector_store.
InitVectorStore ==
  /\ Goes("store", "model")
  /\ registry.frozen
  /\ active' = registry.vector
  /\ served' = served \cup {registry.vector}
  /\ UNCHANGED <<registry, qdrant, chroma, points, docs, home, steady, memory>>

\* The model is loaded, the parser pool and the workers are started.
Serve == Goes("model", "serving") /\ UNCHANGED <<registry, active, storeVars>>

\* The process ends, at any step; what it kept in memory is gone, and the jobs its
\* workers had are run from the beginning by a later instance.
Stop ==
  /\ phase # "down" /\ phase' = "down"
  /\ registry' = DefaultRegistry /\ active' = "none"
  /\ embedder' = [d \in Docs |-> "none"]
  /\ purger' = [d \in Docs |-> "none"]
  /\ UNCHANGED durable

-----------------------------------------------------------------------------
\* A store refuses vectors of another dimension than its collection's.
Fits == IF active = "qdrant" THEN qdrant = registry.dim ELSE chroma \in {0, registry.dim}

\* A new document, one whose embedding is run again (after a crash, or by a reprocess
\* request), or one that is being deleted: the embed worker reads its chunks, ...
LoadDocument(d) ==
  /\ Serving /\ docs[d] \notin Purged /\ embedder[d] = "none"
  /\ embedder' = [embedder EXCEPT ![d] = "loaded"]
  /\ purger' = [purger EXCEPT ![d] = IF @ = "purged" THEN "overtaken" ELSE @]
  /\ UNCHANGED <<phase, registry, active, durable>>

\* ... puts their vectors into the active store, also when the document has gone
\* meanwhile, or fails ...
UpsertVectors(d) ==
  /\ Serving /\ embedder[d] = "loaded"
  /\ \/ /\ Fits
        /\ embedder' = [embedder EXCEPT ![d] = "upserted"]
        /\ points' = [points EXCEPT ![active] = @ \cup {d}]
        /\ chroma' = IF active = "chroma" THEN registry.dim ELSE chroma
     \/ /\ ~Fits
        /\ embedder' = [embedder EXCEPT ![d] = "none"]
        /\ UNCHANGED <<points, chroma>>
  /\ UNCHANGED <<phase, registry, active, qdrant, docs, home, steady, served, purger>>

\* ... and commits; when the rows are gone it only acks.
CommitDocument(d) ==
  /\ Serving /\ embedder[d] = "upserted"
  /\ embedder' = [embedder EXCEPT ![d] = "none"]
  /\ docs' = [docs EXCEPT ![d] = IF @ = "absent" THEN "indexed" ELSE @]
  /\ home' = [home EXCEPT ![d] = [store |-> active, dim |-> registry.dim]]
  /\ steady' = [steady EXCEPT ![d] = TRUE]
  /\ UNCHANGED <<phase, registry, active, qdrant, chroma, points, served, purger>>

\* The request that enqueues the purge, whatever the workers do.
DeleteDocument(d) ==
  /\ Serving /\ docs[d] \in {"absent", "indexed"}
  /\ docs' = [docs EXCEPT ![d] = "deleting"]
  /\ UNCHANGED <<phase, registry, active, qdrant, chroma, points, home, steady, served, memory>>

\* A mutant: the purge leaves the vectors alone.
PurgeNothing(d) ==
  /\ Serving /\ docs[d] = "deleting" /\ purger[d] = "none"
  /\ purger' = [purger EXCEPT ![d] = IF embedder[d] = "loaded" THEN "overtaken" ELSE "purged"]
  /\ UNCHANGED <<phase, registry, active, durable, embedder>>

\* The purge worker deletes the vectors from the active store, or passes over the
\* failure, ...
PurgeVectors(d) ==
  /\ Serving /\ docs[d] = "deleting" /\ purger[d] = "none"
  /\ \/ /\ points' = [points EXCEPT ![active] = @ \ {d}]
        /\ purger' = [purger EXCEPT ![d] = IF embedder[d] = "loaded" THEN "overtaken" ELSE "purged"]
     \/ purger' = [purger EXCEPT ![d] = "skipped"] /\ UNCHANGED points
  /\ UNCHANGED <<phase, registry, active, qdrant, chroma, docs, home, steady, served, embedder>>

\* ... and then the rows.
PurgeRows(d) ==
  /\ Serving /\ purger[d] # "none"
  /\ docs' = [docs EXCEPT ![d] = purger[d]]
  /\ purger' = [purger EXCEPT ![d] = "none"]
  /\ UNCHANGED <<phase, registry, active, qdrant, chroma, points, home, steady, served, embedder>>

DocumentStep(d) ==
  \/ LoadDocument(d) \/ UpsertVectors(d) \/ CommitDocument(d)
  \/ DeleteDocument(d) \/ PurgeVectors(d) \/ PurgeRows(d)

StartupStep ==
  \/ Connect \/ ProbeParser \/ ProbeEmbedder \/ ProbeQdrant \/ RecreateQdrant \/ InitChroma
  \/ Freeze \/ InitVectorStore \/ Serve
  \/ \E d \in Docs : DocumentStep(d)
=============================================================================
