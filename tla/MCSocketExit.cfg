CONSTANTS
  Conns = {c1, c2}
  NULL = NULL
  Capacity = 2
  SeekCmds = {}
  Faults = {"recv"}
  MaxFds = 2
  MaxRequests = 2
SPECIFICATION LeavingSpec
CHECK_DEADLOCK FALSE
PROPERTIES
  GracefulExit
  ConnectionAccepted
