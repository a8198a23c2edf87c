SPECIFICATION FairSpec
CONSTANTS
  UV_ASYNC_HANDE = 3
  InOrder = FALSE
  Nothing = Nothing
  Clients = {c1, c2}
  Callback = timercb
  LateSet = FALSE
  MaxCalls = 7
  MaxCareless = 5
INVARIANTS FlagTracksHandle NeverMisused LastCallWins
PROPERTY RestartCompletes
CHECK_DEADLOCK FALSE
