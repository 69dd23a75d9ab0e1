SPECIFICATION FairPirates
CONSTANTS
  Clients = {c1, c2}
  Workers = {w1, w2}
  Ids = {i1, i2, i3}
  Requests <- TriesDef
  None = None
  READY = READY
  HEARTBEAT = HEARTBEAT
  HEARTBEAT_LIVENESS = 3
  HEARTBEAT_INTERVAL = 2
  INTERVAL_INIT = 2
  INTERVAL_MAX = 64
  WORK = 2
  OVERLOAD = 6
  GRACE = 0
  Modes = {TRUE}
  Interrupts = TRUE
  MaxLag = 0
  MaxWire = 0
  REQUEST_TIMEOUT = 5
  REQUEST_RETRIES = 3
  MaxSequence = 2
  MaxFaults = 1
INVARIANTS
  SurvivesOneFault
  NoStaleReplyThroughQueue
  NoCopiesMade
PROPERTIES
  EveryTryPaysOff
CHECK_DEADLOCK FALSE
