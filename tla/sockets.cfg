SPECIFICATION Spec
CONSTANTS
  MaxConn = 3
  MaxFd = 2
  Addresses = 2
  Timeout = 2
  MaxResolve = 1
  MaxSignals = 1
CHECK_DEADLOCK FALSE
INVARIANTS
  HandlerOwnsSocket
  DescriptorsOwned
  ConnectBounded
