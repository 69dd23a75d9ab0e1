SPECIFICATION Spec
CONSTANTS
  Services = {s1, s2}
  None = None
  Retries = {1}
  MaxCalls = 2
INVARIANTS
  ServiceAssertion
CHECK_DEADLOCK FALSE
