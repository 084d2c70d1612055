SPECIFICATION Spec
CONSTANTS
  Workers = {w1, w2}
  Moderators = {m1}
  Contents = {c1}
  Legacy = {}
  MaxJobs = 2
  MaxAttempts = 2
  Nobody = Nobody
  NoContent = NoContent
  FaultSets = {{"crash", "db_error", "store_error"}, {"crash", "db_error", "store_error", "lost_reply"}}
INVARIANTS TypeOK PublishedIsServable DeletedStaysWithdrawn PublishedHasObject IndexIsTold OneLiveScan
PROPERTIES VerdictStands
SYMMETRY ActorSymmetry
CHECK_DEADLOCK FALSE
