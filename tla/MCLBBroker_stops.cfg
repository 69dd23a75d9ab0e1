SPECIFICATION FairSpec
CONSTANTS
  Clients = {c1, c2}
  Workers = {w1}
  NoClient = NoClient
PROPERTIES
  TerminatesLikeLBBroker
CHECK_DEADLOCK FALSE
