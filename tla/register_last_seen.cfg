SPECIFICATION Spec
CHECK_DEADLOCK FALSE
CONSTANTS
  r0 = r0
  f1 = f1
  f2 = f2
  f3 = f3
  a1 = a1
  a2 = a2
  a3 = a3
  a4 = a4
  u1 = u1
  u2 = u2
  d1 = d1
  SerialOwner = TRUE
  None = None
  HistoryMax = 2
  Requests = {r0, f1}
  Kind <- MCKind
  Updates = {u1}
  Deletions = {}
  MaxFailures = 0
INVARIANT NewKeyIsStored
