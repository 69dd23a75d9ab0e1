SPECIFICATION FairSpec
CONSTANTS
  Clients = {c1, c2, c3, c4}
  Workers = {w1, w2}
  NoClient = NoClient
INVARIANTS
  CapacityAssertion
  FrontendHasWorker
  QueuedIsIdle
  OneCopy
  AllAnsweredAtClose
PROPERTIES
  EveryClientServed
  ImplementsLoadBalancing
CHECK_DEADLOCK FALSE
