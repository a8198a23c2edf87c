SPECIFICATION FairSpec
CONSTANTS
  Nothing = Nothing
  E_LOOP_STOP = E_LOOP_STOP
  UV_ASYNC_HANDE = 2
  InOrder = FALSE
  Reqs = {r1, r2, r3}
  MaxRuns = 1
  MaxStops = 1
PROPERTY DestructorWakes
CHECK_DEADLOCK FALSE
