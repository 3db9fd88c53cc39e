SPECIFICATION Spec
CONSTANTS
  e1 = e1
  e2 = e2
  j1 = j1
  j2 = j2
  Nobody = Nobody
  Executions = {e1, e2}
  Jobs = {j1, j2}
  JobOf <- Executes
  Width = 3
  Networks <- UpperHalf
  Reserved = {1}
  Answers <- Found
  MaxBytes = 2
CHECK_DEADLOCK FALSE
INVARIANTS
  EgressDecides
  StatusIsEvidence
PROPERTIES
  RevivedByEarlierJob
  ChecksEnd
