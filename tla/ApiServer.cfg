SPECIFICATION Spec
CONSTANTS
  r1 = r1
  r2 = r2
  r3 = r3
  n1 = n1
  key = key
  b1 = b1
  b2 = b2
  m1 = m1
  m2 = m2
  tok = tok
  Requests = {r1, r2, r3}
  Ways <- Routing
  MaxClock = 3
  Nonces = {n1}
  Stamp <- Stamps
  NonceOf <- Carries
  Window = 1
  Retention = 2
  MaxDelay = 0
  Keys = {key}
  Names = {m1, m2}
  KeyOf <- KeysOf
  BodyOf <- BodiesOf
  NameOf <- NamesOf
  NoRequest = NoRequest
  TTL = 2
  JobRetention = 2
  Tokens = {tok}
  IssuedAt <- Issues
  Expires <- Expiries
  TokenOf <- Bears
  Tolerance = 1
  MaxAge = 0
  Skews <- Clocks
  Limit = 1
SYMMETRY Symmetry
CHECK_DEADLOCK FALSE
INVARIANTS
  ProcessedOnce
  ReplayWasProcessed
  ReplayIsTruthful
  QueriesCounted
  AcceptedIsStored
PROPERTIES
  RevocationHolds
  CreatedOnce
  RetryReplays
