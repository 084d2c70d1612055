SPECIFICATION Spec
CONSTANTS
  Workers = {w1}
  Servers = {s1}
  Endpoints = {e1, e2}
  Answering = {e1}
  Nobody = nobody
  NoServer = noserver
  NoEndpoint = noendpoint
  MaxAttempts = 2
  MaxJobs = 2
  MaxRequests = 2
  FaultSets = {{}}
PROPERTIES PublishesWhatItProbed
CHECK_DEADLOCK FALSE
