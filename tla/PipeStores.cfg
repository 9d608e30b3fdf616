SPECIFICATION Spec
CONSTANTS
  wi = wi  wi2 = wi2  we = we  we2 = we2  wx = wx  wp = wp
  text = text  sheet = sheet  empty = empty
  fast = fast  ocr = ocr  none = none
  NoInfo = NoInfo
  WorkerStage <- MCWorkerStage
  Pieces <- MCPieces
  BackoffUnit = 0
  LockTimeout = 0
  Workers = {wi, we, wx, wp}
  Clients = {c1}
  Docs = {1}
  Contents = {sheet}
  Names = {f}
  Strategies = {fast}
  Tabular = {sheet}
  Blank = {}
  FaultyParts = {"mindsdb", "embed", "api"}
  MaxFaults = 1
  MaxReprocess = 0
  MaxDeletes = 1
  Patient = TRUE
  MaxRestarts = 1
  MaxForeign = 1
  MaxAttempts = 2
INVARIANTS PurgeLeavesNothing SettledHasFile
CHECK_DEADLOCK FALSE
