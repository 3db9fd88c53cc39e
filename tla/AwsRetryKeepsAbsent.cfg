SPECIFICATION Spec
CONSTANTS
  vm1 = vm1
  vm2 = vm2
  db1 = db1
  ec2 = ec2
  rds = rds
  J1 = J1
  J2 = J2
  e1 = e1
  e2 = e2
  e3 = e3
  Items = {vm1, vm2, db1}
  Pairs = {ec2, rds}
  PairOf <- PairOfItem
  Jobs = {J1, J2}
  Executions = {e1, e2}
  JobOf <- RetriedAlone
  NoJob = NoJob
  MaxResources = 3
  MaxChanges = 1
CHECK_DEADLOCK FALSE
PROPERTIES
  ActiveWereFound
