SPECIFICATION Spec
CHECK_DEADLOCK FALSE
CONSTANTS
  s1 = s1
  s2 = s2
  s3 = s3
  alice = alice
  bob = bob
  i1 = i1
  i2 = i2
  e1 = e1
  e2 = e2
  e3 = e3
  Unset = Unset
  Sends = {s1, s2}
  Senders = {alice, bob}
  From <- MCFrom
  ClientMsgIds = {i1, i2}
  ClientMsg <- MCClientMsg
  Edits = {e2}
  Edit <- MCEdit
  Cooldown = 1
  DedupWindow = 2
  MaxTime = 1
  MaxSends = 2
  MaxFailures = 0
INVARIANT ListedSenderAdmitted
