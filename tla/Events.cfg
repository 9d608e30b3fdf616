SPECIFICATION FairSpec
CONSTANTS
  d1 = d1  d2 = d2
  w1 = w1  w2 = w2  w3 = w3
  s1 = s1  s2 = s2
  Nothing = Nothing
  Docs = {d1, d2}
  StageNames = {"parse"}
  Writers = {w1, w2}
  WriterDoc <- MCWriterDoc
  Streams = {s1, s2}
  Lists = {s1}
  Wanted <- MCWanted
  CreatedAt <- MCCreatedAt
  SnapshotLimit = 1
  Capacity = 2
  MaxUpdates = 3
INVARIANTS TypeOK CaughtUpIsCurrent
PROPERTIES ViewsSettle
CHECK_DEADLOCK FALSE
