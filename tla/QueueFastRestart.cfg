SPECIFICATION Spec
CONSTANTS
  j1 = j1  j2 = j2  j3 = j3  d1 = d1
  w1 = w1  w2 = w2  w3 = w3  i1 = i1  i2 = i2
  NoJob = NoJob
  Docs = {d1}
  JobDoc <- MCJobDoc
  JobStage <- MCJobStage
  WorkerStage <- MCWorkerStage
  BackoffUnit = 1
  Jobs = {j1}
  Workers = {w1}
  Instances = {i1}
  Home <- MCHomeOne
  MaxAttempts = 2
  LockTimeout = 1
  Horizon = 0
  FastRestart = TRUE
  MaxStops = 1
  MaxFaults = 0
INVARIANT StartupRecovers
