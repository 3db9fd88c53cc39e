SPECIFICATION Spec
CONSTANTS
  j1 = j1
  j2 = j2
  w1 = w1
  w2 = w2
  Jobs = {j1, j2}
  Workers = {w1, w2}
  Stoppable = {w1}
  NoWorker = NoWorker
  MaxAttempts = 2
  BatchSize = 2
  MaxFaults = 2
INVARIANTS
  RetriesBounded
