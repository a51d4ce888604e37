SPECIFICATION Spec
CONSTANTS
  MaxConn = 1
  MaxFd = 2
  Addresses = 2
  Timeout = 2
  MaxResolve = 3
  MaxSignals = 1
CHECK_DEADLOCK FALSE
INVARIANT
  TimeoutCoversLookup
