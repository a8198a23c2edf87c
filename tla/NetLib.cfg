SPECIFICATION FairSpec
CONSTANTS
  ASYNC_HANDLE_NUM = 2
  MaxSends = 3
  MaxCalls = 4
  MaxCareless = 3
INVARIANTS
  SendExclusive
  SendstNotLost
  CarefulFaults
PROPERTIES
  AcceptedIsKept
  AcceptedIsPassedOn
  CloseCompletes
CHECK_DEADLOCK FALSE
