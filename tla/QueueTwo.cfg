SPECIFICATION FairSpec
CONSTANTS
  j1 = j1  j2 = j2  j3 = j3  d1 = d1
  w1 = w1  w2 = w2  w3 = w3  i1 = i1  i2 = i2
  NoJob = NoJob
  Docs = {d1}
  JobDoc <- MCJobDoc
  JobStage <- MCJobStage
  WorkerStage <- MCWorkerStage
  BackoffUnit = 1
  Jobs = {j1, j3}
  Workers = {w1, w2, w3}
  Instances = {i1, i2}
  Home <- MCHomeTwo
  MaxAttempts = 2
  LockTimeout = 1
  Horizon = 1
  FastRestart = FALSE
  MaxStops = 1
  MaxFaults = 0
INVARIANTS HoldersBound AttemptBound
PROPERTIES EndedUnlessStolen JobEnds
