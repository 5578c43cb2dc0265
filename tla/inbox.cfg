SPECIFICATION Spec
CHECK_DEADLOCK FALSE
CONSTANTS
  m1 = m1
  m2 = m2
  m3 = m3
  p1 = p1
  p2 = p2
  r1 = r1
  a1 = a1
  Messages = {m1, m2, m3}
  Pulls = {p1, p2}
  Reads = {r1}
  Archives = {a1}
  Matching = {m1, m2, m3}
  BatchSize = 2
  ActiveMax = 2
  Empty = Empty
  Nothing = Nothing
  MaxFailures = 1
SYMMETRY MCSymmetry
INVARIANTS KeptInTurns KeptOnceInTurns WithinActiveMax RepliedOnceInTurns ReadStaysRead
