SPECIFICATION FairSpec
CONSTANTS
  Sizes <- MCSizes
  Lengths <- MCLengths
  MaxPages = 2
INVARIANTS EveryTokenHeld WithinLimits NeighboursOverlap
PROPERTIES Terminates
CHECK_DEADLOCK FALSE
