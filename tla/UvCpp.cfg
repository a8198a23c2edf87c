SPECIFICATION FairSpec
CONSTANTS
  Users = {u1, u2}
  MaxSends = 3
  MaxCalls = 2
INVARIANTS WakeupPending StatusIsOpen
PROPERTIES ImplementsStream EventsTakeEffect
CHECK_DEADLOCK FALSE
