----------------------------- MODULE MCJobQueue -----------------------------
(* Instances of JobQueue for TLC.                                           *)
EXTENDS JobQueue, TLC

CONSTANTS j1, j2, j3, d1, w1, w2, w3, i1, i2

\* Two ingest jobs and the purge of one document.
MCJobDoc   == [j \in Jobs |-> d1]
MCJobStage == [j \in Jobs |-> IF j = j3 THEN "purge" ELSE "ingest"]

\* w1 and w2 poll ingest, w3 polls purge.
MCWorkerStage == [w \in Workers |-> IF w = w3 THEN "purge" ELSE "ingest"]

\* One instance, or w2 in a second one.
MCHomeOne == [w \in Workers |-> i1]
MCHomeTwo == [w \in Workers |-> IF w = w2 THEN i2 ELSE i1]

\* The ingest jobs can be exchanged.
MCSymmetry == Permutations({j1, j2})
=============================================================================
