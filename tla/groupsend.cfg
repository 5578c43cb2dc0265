SPECIFICATION Spec
CHECK_DEADLOCK FALSE
CONSTANTS
  olga = olga
  ann = ann
  ben = ben
  s1 = s1
  s2 = s2
  s3 = s3
  i1 = i1
  i2 = i2
  None = None
  Sends = {s1, s2, s3}
  ClawIds = {olga, ann, ben}
  From <- MCFrom
  Mode <- MCMode
  To <- MCTo
  ClientMsgIds = {i1, i2}
  ClientMsg <- MCClientMsg
  GroupValues <- MCGroupValues
  MaxChanges = 1
  MaxFailures = 1
INVARIANTS ReachedWereAudience BroadcastReachesAll DuplicateWasComplete ReachedOnceInTurns
