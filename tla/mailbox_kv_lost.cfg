SPECIFICATION Spec
CONSTANTS
  m1 = m1
  m2 = m2
  m3 = m3
  c1 = c1
  c2 = c2
  Messages = {m2, m3}
  Clients = {c1}
  NativeList = FALSE
  BatchSize = 2
  ExpiresAt <- MCExpiresAt
  MinTtl = 2
  DefaultTtl = 3
  MaxTime = 1
  MaxFailures = 0
INVARIANT NoLostMessage
