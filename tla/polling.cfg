SPECIFICATION PollingSpec
CONSTANTS
  m1 = m1
  m2 = m2
  c1 = c1
  Messages = {m1, m2}
  Clients = {c1}
  NativeList = FALSE
  BatchSize = 1
  ExpiresAt <- MCExpiresAt
  MinTtl = 2
  DefaultTtl = 2
  MaxTime = 2
  MaxFailures = 1
  Interval = 2
INVARIANTS NoRedeliveryAfterAck SafeInTurns
PROPERTIES AcceptedReachesInbox RetryAfterSteps
