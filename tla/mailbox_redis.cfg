SPECIFICATION Spec
CONSTANTS
  m1 = m1
  m2 = m2
  m3 = m3
  c1 = c1
  c2 = c2
  Messages = {m1, m3}
  Clients = {c1, c2}
  NativeList = TRUE
  BatchSize = 1
  ExpiresAt <- MCExpiresAt
  MinTtl = 2
  DefaultTtl = 2
  MaxTime = 3
  MaxFailures = 1
SYMMETRY MCSymmetry
INVARIANTS NoLostMessage NoDanglingId
PROPERTY ImplementsDelivery
