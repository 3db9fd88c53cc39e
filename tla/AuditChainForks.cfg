SPECIFICATION Spec
CONSTANTS
  x1 = x1
  x2 = x2
  x3 = x3
  acme = acme
  globex = globex
  Txs = {x1, x2}
  Tenants = {acme}
  Spellings = {"lower", "upper"}
  RequestSpellings = {"lower"}
  Canonical = "lower"
  None = None
  PageSize = 2
  MaxRuns = 1
  MaxRestores = 0
CHECK_DEADLOCK FALSE
INVARIANTS
  ChainLinear
