CONSTANTS
  AESDCHAR_MAX_WRITE_OPERATIONS_SUPPORTED = 2
  Buffptr = {b1, b2, b3, b4}
  NULL = NULL
  Sizes <- Counts
  Procs = {p1}
  Files = {f1}
  Byte <- Bytes
  NL <- Newline
  Chunks <- AnyChunks
  UserPtrs = {"ok", "null"}
  Cmds <- AnyCmds
  SeekOffsets <- Around
  Origins <- AllOrigins
  Faults <- AllFaults
  Uninit <- ZeroOrJunk
  MaxBytes = 4
  MaxPos = 2
SPECIFICATION Spec
SYMMETRY Symmetric
INVARIANTS
  TypeOK
  LockHeldInside
  MemorySound
  NewlineSplit
