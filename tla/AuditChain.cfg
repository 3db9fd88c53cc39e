SPECIFICATION Spec
CONSTANTS
  x1 = x1
  x2 = x2
  x3 = x3
  acme = acme
  globex = globex
  Txs = {x1, x2, x3}
  Tenants = {acme, globex}
  Spellings = {"lower", "upper"}
  RequestSpellings = {"lower", "upper"}
  Canonical = "lower"
  None = None
  PageSize = 2
  MaxRuns = 2
  MaxRestores = 1
SYMMETRY Symmetry
CHECK_DEADLOCK FALSE
INVARIANTS
  ChainUpToSpelling
  AnchorCoversPrefix
PROPERTIES
  AnchorsKept
  AlarmIsExplained
