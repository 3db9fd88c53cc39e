SPECIFICATION OperationsSpec
CONSTANTS
  p1 = p1
  p2 = p2
  p3 = p3
  Nobody = Nobody
  Runners = {p1, p2, p3}
  Last = 3
  Rerunnable = {1}
  MaxFaults = 3
  b1 = b1
  d1 = d1
  d2 = d2
  d3 = d3
  NoDrill = NoDrill
  Backups = {b1}
  Drills = {d1, d2, d3}
  Keeping = {d3}
CHECK_DEADLOCK FALSE
INVARIANTS
  SchemaInOrder
  PublishedIsWhole
  RestoresAuthentic
  HasItsDatabase
PROPERTIES
  CompletesOrSticks
