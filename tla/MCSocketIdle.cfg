CONSTANTS
  Conns = {c1, c2}
  NULL = NULL
  Capacity = 2
  SeekCmds = {}
  Faults = {}
  MaxFds = 2
  MaxRequests = 1
SPECIFICATION FairSpec
CHECK_DEADLOCK FALSE
PROPERTIES
  ExitsAfterSignal
