SPECIFICATION Spec
CONSTANTS
  wi = wi  wi2 = wi2  we = we  we2 = we2  wx = wx  wp = wp
  text = text  sheet = sheet  empty = empty
  fast = fast  ocr = ocr  none = none
  NoInfo = NoInfo
  WorkerStage <- MCWorkerStage
  Pieces <- MCPieces
  BackoffUnit = 0
  LockTimeout = 0
  Workers = {wi, wi2, we, we2, wx}
  Clients = {c1}
  Docs = {1}
  Contents = {text}
  Names = {f}
  Strategies = {fast, ocr, none}
  Tabular = {}
  Blank = {}
  FaultyParts = {}
  MaxFaults = 0
  MaxReprocess = 1
  MaxDeletes = 0
  Patient = FALSE
  MaxRestarts = 0
  MaxForeign = 0
  MaxAttempts = 2
INVARIANTS IndexedIsSearchable SettledIsSearchable QuietIsTerminal SettledStagesDone
CHECK_DEADLOCK FALSE
