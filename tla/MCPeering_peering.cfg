SPECIFICATION FairSpec
CONSTANTS
  b1 = b1
  b2 = b2
  c1 = c1
  c2 = c2
  c3 = c3
  w1 = w1
  w2 = w2
  w3 = w3
  Brokers <- BrokersDef
  Clients <- ClientsDef
  Workers <- WorkersDef
  Home <- HomeDef
  Peers <- PeersDef
  READY = READY
INVARIANTS
  CapacityIsFreeWorkers
  OneCopyInCloud
  ReroutedOnce
PROPERTIES
  EveryRequestAnswered
  ImplementsLoadBalancing
CHECK_DEADLOCK FALSE
