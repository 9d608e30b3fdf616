SPECIFICATION Spec
CONSTANTS
  wi = wi  wi2 = wi2  we = we  we2 = we2  wx = wx  wp = wp
  text = text  sheet = sheet  empty = empty
  fast = fast  ocr = ocr  none = none
  NoInfo = NoInfo
  WorkerStage <- MCWorkerStage
  Pieces <- MCPieces
  BackoffUnit = 0
  LockTimeout = 0
  Workers = {wi, wp}
  Clients = {c1, c2}
  Docs = {1, 2, 3}
  Contents = {text, empty}
  Names = {f}
  Strategies = {fast}
  Tabular = {}
  Blank = {empty}
  FaultyParts = {}
  MaxFaults = 0
  MaxReprocess = 0
  MaxDeletes = 0
  Patient = FALSE
  MaxRestarts = 0
  MaxForeign = 0
  MaxAttempts = 2
INVARIANTS DuplicatesBound
SYMMETRY MCSymmetry
CHECK_DEADLOCK FALSE
