SPECIFICATION ReadersSpec
CONSTANTS
  Workers = {w1}
  Contents = {c1}
  Nobody = nobody
  NoContent = nocontent
  NoDocument = nodocument
  MaxAttempts = 2
  MaxJobs = 3
  MaxEdits = 3
  FaultSets = {{}, {"crash"}, {"overlap"}, {"crash", "db_error", "lost_reply", "search_error"}}
  Rows = {1, 2, 3}
  Keys = {1, 2, 3}
  Limits = {1, 2}
  NullKey = null
  Start = start
  MaxChanges = 2
  Sizes = {1, 2}
  MaxNumber = 3
  MaxMoves = 2
  Callers = {r1, r2}
  Limit = 2
  MaxCount = 4
  Disruptions = {{}, {"error", "stop"}}
INVARIANTS Typed SyncedWhenDone WalkIsFaithful AnswersAreExact
PROPERTIES EventuallyInStep LimitHolds
CHECK_DEADLOCK FALSE
