SPECIFICATION FairSpec
CONSTANTS
  Workers = {w1}
  Nobody = Nobody
  MaxAttempts = 2
  NumJobs = 1
  MaxRetries = 0
  FaultSets = {{"crash"}}
PROPERTIES EveryJobSettles
CHECK_DEADLOCK FALSE
