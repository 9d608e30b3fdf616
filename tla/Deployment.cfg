SPECIFICATION Spec
CONSTANTS
  d1 = d1
  a = a
  b = b
  k1 = k1
  k2 = k2
  t1 = t1
  t2 = t2
  Docs = {d1}
  OllamaDim = 768
  StDim = 384
  DefaultDim = 384
  Callers = {a, b}
  Keys = {k1, k2}
  Tenants = {t1, t2}
  Roles = {"admin"}
  SecretIsReal = TRUE
SYMMETRY Symmetric
INVARIANTS
  ServingStoreFits
  SteadyKeepsVectors
  OrphansExplained
  BootstrapOnce
