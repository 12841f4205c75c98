SPECIFICATION OrderedSpec
CONSTANTS
  w1 = w1
  w2 = w2
  hostA = hostA
  hostB = hostB
  None = None
  Conns <- FourConns
  Workers <- TwoWorkers
  Hosts <- TwoHosts
  HostOf <- HostByName
  Timeout = TRUE
  MaxPerHost = 1
  Faults <- AllFaults
CHECK_DEADLOCK FALSE
INVARIANT OneOwner
PROPERTY StaysBounded
PROPERTY EveryoneServed
