SPECIFICATION Spec
CONSTANTS
  wi = wi  wi2 = wi2  we = we  we2 = we2  wx = wx  wp = wp
  text = text  sheet = sheet  empty = empty
  fast = fast  ocr = ocr  none = none
  NoInfo = NoInfo
  WorkerStage <- MCWorkerStage
  Pieces <- MCPieces
  BackoffUnit = 0
  LockTimeout = 0
  Workers = {wi, we, wx, wp}
  Clients = {c1}
  Docs = {1}
  Contents = {text}
  Names = {f}
  Strategies = {fast}
  Tabular = {}
  Blank = {}
  FaultyParts = {"ingest", "embed"}
  MaxFaults = 2
  MaxReprocess = 0
  MaxDeletes = 1
  Patient = FALSE
  MaxRestarts = 0
  MaxForeign = 0
  MaxAttempts = 2
INVARIANTS TypeOK IndexedIsSearchable QuietIsTerminal SettledStagesDone SettledHasFile
CHECK_DEADLOCK FALSE
