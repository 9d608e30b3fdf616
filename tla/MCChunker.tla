------------------------------ MODULE MCChunker ------------------------------
(* Instances of Chunker for TLC.                                             *)
EXTENDS Chunker

\* Around the limits of the formulas: no stride (1, 8), no chunk (15), the
\* smallest chunks (16), a gap (32, 59), the first size without one (60), 96.
MCSizes == {1, 8, 15, 16, 32, 59, 60, 96}

\* Around the shortest chunk, one window, two windows and a few more.
MCLengths ==
  {0, 1, 15, 16, 17, 31, 44, 45, 46, 59, 60, 61, 72, 87, 88, 89, 95, 96, 97, 105, 106,
   150, 167, 168, 169, 170, 200, 230}
=============================================================================
