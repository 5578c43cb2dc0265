SPECIFICATION Spec
CHECK_DEADLOCK FALSE
CONSTANTS
  olga = olga
  ann = ann
  ben = ben
  eve = eve
  c1 = c1
  c2 = c2
  c3 = c3
  i1 = i1
  i2 = i2
  j1 = j1
  j2 = j2
  j3 = j3
  l1 = l1
  l2 = l2
  l3 = l3
  None = None
  ClawIds = {olga, ann, ben, eve}
  Registered = {olga, ann, ben}
  Creates = {c1, c2, c3}
  Founding <- MCFounding
  Invites = {i1, i2}
  Minter <- MCMinter
  Joins = {j1, j2}
  Joining <- MCJoining
  Leaves = {l1, l3}
  Leaving <- MCLeaving
  MaxFailures = 1
INVARIANTS WithinLimit OwnerIsMember EveryMemberInvited TurnsAreSerial TurnsUseTokenOnce
