SPECIFICATION Spec
CONSTANTS
  e1 = e1
  e2 = e2
  j1 = j1
  j2 = j2
  Nobody = Nobody
  Executions = {e1}
  Jobs = {j1}
  JobOf <- ExecutesAlone
  Width = 3
  Networks <- UpperHalf
  Reserved = {1}
  Answers <- Found
  MaxBytes = 2
CHECK_DEADLOCK FALSE
INVARIANTS
  ReservedDenied
