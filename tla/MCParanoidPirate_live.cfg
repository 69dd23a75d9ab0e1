SPECIFICATION FairSpec
CONSTANTS
  Workers = {w1}
  Ids = {i1, i2, i3}
  Requests = {r1}
  None = None
  READY = READY
  HEARTBEAT = HEARTBEAT
  HEARTBEAT_LIVENESS = 3
  HEARTBEAT_INTERVAL = 1
  INTERVAL_INIT = 1
  INTERVAL_MAX = 4
  WORK = 1
  OVERLOAD = 3
  GRACE = 0
  Modes = {TRUE}
  Interrupts = TRUE
  MaxLag = 8
  MaxWire = 6
INVARIANTS
  PollingNeverExpires
PROPERTIES
  GoneIsForgotten
  WorkerRejoins
