SPECIFICATION FairSpec
CONSTANTS
  UV_ASYNC_HANDE = 2
  InOrder = FALSE
  Nothing = Nothing
  Conns = {c1, c2}
  MaxCalls = 3
INVARIANTS
  NothingDangles
PROPERTIES
  RequestedIsRead
  ListenTakesEffect
CHECK_DEADLOCK FALSE
