CONSTANTS
  AESDCHAR_MAX_WRITE_OPERATIONS_SUPPORTED = 2
  Buffptr = {b1, b2, b3}
  NULL = NULL
  Sizes <- OneByte
  Procs = {p1, p2}
  Files = {f1}
  Byte <- Bytes
  NL <- Newline
  Chunks <- SharedChunks
  UserPtrs = {"ok"}
  Cmds <- SeekOnly
  SeekOffsets <- FromEnd
  Origins <- EndOnly
  Faults <- NoFaults
  Uninit <- ZeroOrJunk
  MaxBytes = 4
  MaxPos = 2
SPECIFICATION Spec
SYMMETRY Symmetric
INVARIANTS
  StreamIntact
  SeekEndCountsAll
PROPERTIES
  ReadDelivers
  SeekLandsOnByte
