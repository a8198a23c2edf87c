SPECIFICATION FairSpec
CONSTANTS
  UV_ASYNC_HANDE = 3
  InOrder = FALSE
  Nothing = Nothing
  Clients = {c1, c2}
  Handler = Handler
  Buffers = {b1, b2, b3}
  CarefulOps = {"connect", "close", "reconnect", "read", "other"}
  CarelessOps = {"close", "read", "write"}
  MaxCareful = 4
  MaxCareless = 1
  MaxWrites = 3
CHECK_DEADLOCK FALSE
INVARIANTS SendExclusive WritesInOrder OnlyDoubleFree ConnectedIsOpen
PROPERTIES AcceptedWriteMovesOn ReconnectCompletes
