CONSTANTS
  AESDCHAR_MAX_WRITE_OPERATIONS_SUPPORTED = 4
  Buffptr = {b1, b2}
  NULL = NULL
  Sizes <- SmallSizes
SPECIFICATION BufferSpec
INVARIANTS
  BufferTypeOK
  BufferShape
  FindIsConcatenation
PROPERTY ImplementsLog
