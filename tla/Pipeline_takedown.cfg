SPECIFICATION Spec
CONSTANTS
  Workers = {w1}
  Moderators = {m1}
  Contents = {c1}
  Legacy = {}
  MaxJobs = 1
  MaxAttempts = 2
  Nobody = Nobody
  NoContent = NoContent
  FaultSets = {{}}
INVARIANTS TakedownHolds
CHECK_DEADLOCK FALSE
