SPECIFICATION FairSpec
CONSTANTS
  Workers = {w1, w2}
  Servers = {s1}
  Endpoints = {e1, e2}
  Answering = {e1}
  Nobody = nobody
  NoServer = noserver
  NoEndpoint = noendpoint
  MaxAttempts = 2
  MaxJobs = 3
  MaxRequests = 3
  FaultSets = {{}, {"db_error"}, {"crash", "probe_lost"}}
INVARIANTS TypeOK TakedownHolds ChecksAreFew
PROPERTIES DeletedIsFinal EventuallyAccurate
CHECK_DEADLOCK FALSE
