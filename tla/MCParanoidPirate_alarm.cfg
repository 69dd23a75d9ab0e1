SPECIFICATION Spec
CONSTANTS
  Workers = {w1, w2}
  Ids = {i1, i2, i3}
  Requests = {r1}
  None = None
  READY = READY
  HEARTBEAT = HEARTBEAT
  HEARTBEAT_LIVENESS = 3
  HEARTBEAT_INTERVAL = 2
  INTERVAL_INIT = 2
  INTERVAL_MAX = 64
  WORK = 2
  OVERLOAD = 6
  GRACE = 1
  Modes = {TRUE}
  Interrupts = FALSE
  MaxLag = 8
  MaxWire = 0
SYMMETRY NameSymmetry
INVARIANTS
  NoFalseAlarm
