SPECIFICATION Spec
CONSTANTS
  Workers = {w1}
  Uploaders = {u1, u2}
  Nobody = nobody
  NoImage = noimage
  MaxAttempts = 2
  MaxImages = 2
  MaxRequests = 2
  Undecodable = {2}
  FaultSets = {{"overlap"}}
INVARIANTS OneLiveAvatar
CHECK_DEADLOCK FALSE
