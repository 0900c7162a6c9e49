CONSTANTS
  NULL = NULL
  Procs = {p1, p2}
  MAIN = p1
  CallFaults = {}
SPECIFICATION ProcessSpec
INVARIANT SystemReportsStatus
CHECK_DEADLOCK FALSE
