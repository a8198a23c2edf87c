SPECIFICATION Spec
CONSTANTS
  Buffer = {a, b}
  DEFAULT_BUFFER_LEN = 2
  ULONG = 8
  MaxCalls = 5
  MaxCareless = 2
INVARIANTS
  NoOverrun
  EndsInZero
  OffsetInData
CHECK_DEADLOCK FALSE
