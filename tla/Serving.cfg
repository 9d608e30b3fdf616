SPECIFICATION Spec
CONSTANTS
  c1 = c1
  c2 = c2
  sales = sales
  memo = memo
  note = note
  any = any
  Clients = {c1, c2}
  Docs = {sales, memo, note}
  Writable = {note}
  Tabular = {sales}
  Stored <- SomeStored
  CacheTtl = 1
  CacheMax = 1
  Replies = {"good", "write", "empty"}
  MaxRetries = 1
  Questions <- SomeQuestions
  AnyDoc = any
  FtsOnly = FALSE
  Matches <- SomeMatches
  VScore <- SomeVScore
  LRank <- SomeLRank
  VWeight = 6
  LWeight = 4
  MaxDuration = 1
INVARIANTS
  TypeOK
  OnlyReadsRun
  AnswersTheQuestion
  DeletedIsForgotten
PROPERTIES
  CalmSearchIsComplete
  SearchesEnd
