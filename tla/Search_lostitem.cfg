SPECIFICATION Spec
CONSTANTS
  Workers = {w1}
  Contents = {c1}
  Nobody = nobody
  NoContent = nocontent
  NoDocument = nodocument
  MaxAttempts = 3
  MaxJobs = 3
  MaxEdits = 3
  FaultSets = {{"search_error"}}
INVARIANTS ShownIsFound
CHECK_DEADLOCK FALSE
