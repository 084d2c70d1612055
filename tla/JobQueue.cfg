SPECIFICATION JobsSpec
CONSTANTS
  Workers = {w1, w2}
  Nobody = Nobody
  MaxAttempts = 2
  NumJobs = 3
  MaxRetries = 1
  FaultSets = {{}, {"crash", "db_error"}, {"crash", "db_error", "lost_reply"}}
  Active = {w1}
  NumRows = 2
INVARIANTS Typed OneWorkerPerJob
PROPERTIES DeliversWork JobsAreServed
CHECK_DEADLOCK FALSE
