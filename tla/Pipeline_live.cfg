SPECIFICATION FairSpec
CONSTANTS
  Workers = {w1, w2}
  Moderators = {m1}
  Contents = {c1}
  Legacy = {c1}
  MaxJobs = 2
  MaxAttempts = 2
  Nobody = Nobody
  NoContent = NoContent
  FaultSets = {{}}
INVARIANTS NoStrayCopy
PROPERTIES PipelineDrains
CHECK_DEADLOCK FALSE
