SPECIFICATION Spec
CHECK_DEADLOCK FALSE
CONSTANTS
  s1 = s1
  s2 = s2
  s3 = s3
  alice = alice
  bob = bob
  i1 = i1
  i2 = i2
  e1 = e1
  e2 = e2
  e3 = e3
  Unset = Unset
  Sends = {s1, s2, s3}
  Senders = {alice, bob}
  From <- MCFrom
  ClientMsgIds = {i1, i2}
  ClientMsg <- MCClientMsg
  Edits = {e1, e2, e3}
  Edit <- MCEdit
  Cooldown = 2
  DedupWindow = 3
  MaxTime = 4
  MaxSends = 2
  MaxFailures = 1
INVARIANTS AnsweredOnceIsDuplicate CooldownBetweenSends DedupMeansQueued UnlistedNeverQueued
SYMMETRY MCSymmetry
