SPECIFICATION FairSpec
CONSTANTS
  Services = {echo}
  None = None
  Retries = {0, 1, 3}
  MaxCalls = 4
INVARIANTS
  TypeOK
  OwnReply
  LateReply
PROPERTIES
  CallsReturn
CHECK_DEADLOCK FALSE
