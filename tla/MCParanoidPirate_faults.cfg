SPECIFICATION Spec
CONSTANTS
  Workers = {w1}
  Ids = {i1, i2, i3}
  Requests = {r1}
  None = None
  READY = READY
  HEARTBEAT = HEARTBEAT
  HEARTBEAT_LIVENESS = 2
  HEARTBEAT_INTERVAL = 1
  INTERVAL_INIT = 1
  INTERVAL_MAX = 2
  WORK = 1
  OVERLOAD = 1
  GRACE = 0
  Modes = {FALSE}
  Interrupts = TRUE
  MaxLag = 1
  MaxWire = 4
SYMMETRY NameSymmetry
INVARIANTS
  TypeOK
  RegistryOrdered
PROPERTIES
  PurgeComplete
