CONSTANTS
  AESDCHAR_MAX_WRITE_OPERATIONS_SUPPORTED = 2
  Buffptr = {b1, b2, b3}
  NULL = NULL
  Sizes <- Unused
  Procs = {p1, p2, u1}
  Threads = {p1, p2}
  Files = {f1, f2, f3}
  UserFiles = {f3}
  Lines <- ClientLines
  Seeks <- ClientSeeks
  Byte <- Bytes
  NL <- Newline
  Chunks <- OtherLines
  UserPtrs = {"ok"}
  Cmds <- SeekCmd
  SeekOffsets = {}
  Origins = {}
  Faults = {}
  Uninit <- ZeroOrJunk
  MaxBytes = 4
  MaxPos = 0
SPECIFICATION ServerSpec
INVARIANT FdPrivate
PROPERTIES
  AnswerIsDevice
  AnswerInOrder
  RequestEnds
CHECK_DEADLOCK FALSE
