SPECIFICATION PagingSpec
CONSTANTS
  x1 = x1
  x2 = x2
  Ids = {1, 2, 3, 4}
  Transactions = {x1, x2}
  Limit = 2
  Precision = 2
  MaxClock = 3

CHECK_DEADLOCK FALSE
INVARIANTS
  AllListed
