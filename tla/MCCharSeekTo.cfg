CONSTANTS
  AESDCHAR_MAX_WRITE_OPERATIONS_SUPPORTED = 2
  Buffptr = {b1, b2, b3}
  NULL = NULL
  Sizes <- Counts
  Procs = {p1}
  Files = {f1}
  Byte <- Bytes
  NL <- Newline
  Chunks <- SharedChunks
  UserPtrs = {"ok"}
  Cmds <- SeekOnly
  SeekOffsets <- FromEnd
  Origins <- EndOnly
  Faults <- NoFaults
  Uninit <- ZeroOrJunk
  MaxBytes = 6
  MaxPos = 2
SPECIFICATION Spec
SYMMETRY Symmetric
PROPERTIES
  SeekToCommand
