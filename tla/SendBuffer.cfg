SPECIFICATION BufferSpec
CONSTANTS
  DEFAULT_BUFFER_LEN = 7
  UINT = 64
  MaxPending = 32
INVARIANT BytesFit
CHECK_DEADLOCK FALSE
