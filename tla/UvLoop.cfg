SPECIFICATION FairSpec
CONSTANTS
  Nothing = Nothing
  E_LOOP_STOP = E_LOOP_STOP
  UV_ASYNC_HANDE = 2
  InOrder = FALSE
  Reqs = {r1, r2, r3}
  MaxRuns = 2
  MaxStops = 2
INVARIANTS HandlesConserved CallbackFindsHandle ExactlyOnce OneLoopThread
PROPERTIES ImplementsChannel AcceptedRuns PoolRefills StopEndsLoop
CHECK_DEADLOCK FALSE
