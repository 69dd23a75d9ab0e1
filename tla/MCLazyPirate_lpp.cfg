SPECIFICATION FairSpec
CONSTANTS
  Clients = {c1, c2}
  None = None
  REQUEST_TIMEOUT = 5
  REQUEST_RETRIES = 2
  WORK = 2
  OVERLOAD = 4
  GRACE = 1
  MaxSequence = 2
INVARIANTS
  TypeOK
  NoStaleReply
  NobodyAsksTwice
PROPERTIES
  NobodyWaitsForever
CHECK_DEADLOCK FALSE
