SPECIFICATION ServicesSpec
CONSTANTS
  disk = disk
  cpu = cpu
  n1 = n1
  n2 = n2
  n3 = n3
  ack = ack
  res = res
  t1 = t1
  t2 = t2
  t3 = t3
  Alerts = {disk, cpu}
  Incidents = {n1, n2, n3}
  Keys = {ack, res}
  ActionOf <- Actions
  Attempts = {t1, t2, t3}
  KeyOf <- Carries
  NoAlert = NoAlert
  MaxDeliveries = 3
  x1 = x1
  x2 = x2
  Ids = {1, 2, 3, 4, 5}
  Transactions = {x1, x2}
  Limit = 2
  Precision = 2
  MaxClock = 4
SYMMETRY Symmetry
CHECK_DEADLOCK FALSE
INVARIANTS
  OneActivePerAlert
  IncidentsFollow
  VersionWonOnce
  ReplayIsTruthful
  NewestFirst
  SkippedShareMillisecond
PROPERTIES
  NeverReopened
  ListingEnds
