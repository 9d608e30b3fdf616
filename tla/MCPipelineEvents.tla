-------------------------- MODULE MCPipelineEvents --------------------------
(* Instances of PipelineEvents for TLC.                                      *)
EXTENDS PipelineEvents

CONSTANTS d1, d2, w1, w2, w3, s1, s2

\* Two pipelines write d1, one writes d2.
MCWriterDoc == [w \in Writers |-> IF w = w2 THEN d2 ELSE d1]

\* s1 shows everything, s2 one document.
MCWanted == [s \in Streams |-> IF s = s1 THEN Docs ELSE {d2}]

\* Uploaded in the same moment: either may come first.
MCCreatedAt == [d \in Docs |-> 0]
=============================================================================
