----------------------------- MODULE MCPipeline -----------------------------
(* Instances of Pipeline for TLC.                                            *)
EXTENDS Pipeline, TLC

CONSTANTS wi, wi2, we, we2, wx, wp, text, sheet, empty, fast, ocr, none

\* One or two workers a stage.
MCWorkerStage ==
  [w \in Workers |-> CASE w \in {wi, wi2} -> "ingest"
                       [] w \in {we, we2} -> "embed"
                       [] w = wx -> "index"
                       [] w = wp -> "purge"]

\* "fast" cuts a text into one chunk, "ocr" into two, "none" finds nothing.
MCPieces == [s \in Strategies |-> CASE s = fast -> 1 [] s = ocr -> 2 [] s = none -> 0]

\* The clients can be exchanged.
MCSymmetry == Permutations(Clients)
=============================================================================
