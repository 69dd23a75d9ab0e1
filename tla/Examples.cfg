SPECIFICATION FairSpec
CONSTANTS
  Clients = {c1, c2}
  Workers = {w1, w2}
  None = None
  MaxMessages = 4
  MaxProcesses = 3
  NBR_REQUESTS = 2
  MaxDeaths = 2
  TICKS = 3
  LIFE = 9
  REPLIES = 1
  LAST = 3
CHECK_DEADLOCK FALSE
INVARIANTS
  ZombiesBounded
  StaleBufferOnce
  NoReplyAfterSignal
  AllToldToExit
  NeverMuchTooEarly
PROPERTIES
  ProgramsEnd
  EveryCallReturns
