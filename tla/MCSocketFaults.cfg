CONSTANTS
  Conns = {c1, c2}
  NULL = NULL
  Capacity = 2
  SeekCmds = {1}
  Faults = {"recv", "write", "ioctl", "lseek", "calloc", "read", "send", "accept", "impatient", "socket", "signal", "listen", "create", "malloc", "nocomma"}
  MaxFds = 2
  MaxRequests = 3
SPECIFICATION Spec
SYMMETRY Symmetric
CHECK_DEADLOCK FALSE
INVARIANTS
  TypeOK
  MutexSound
  ListSound
  NoUseAfterFree
PROPERTIES
  AnswerComplete
