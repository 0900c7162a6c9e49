CONSTANTS
  NULL = NULL
  Procs = {p1, p2}
  MAIN = p1
  CallFaults = {"execv"}
SPECIFICATION ProcessSpec
INVARIANT TrueOnlyIfZero
CHECK_DEADLOCK FALSE
