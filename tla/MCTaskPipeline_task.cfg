SPECIFICATION FairSpec
CONSTANTS
  Workers = {w1, w2}
  Batches = 2
  NBR_TASKS = 2
  None = None
INVARIANTS
  WorkDoneBeforeKill
PROPERTIES
  BatchCompletes
  KillEndsSubscribers
CHECK_DEADLOCK FALSE
