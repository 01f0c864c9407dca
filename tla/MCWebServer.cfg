SPECIFICATION FairSpec
CONSTANTS
  c1 = c1
  c2 = c2
  Nobody = Nobody
  Main = Main
  Clients <- TwoClients
  Handles <- TwoHandles
  MaxFd = 2
  MaxConns = 1
  MaxAsk = 1
  CreateFails = TRUE
INVARIANTS
  OwnSocket
  Registered
PROPERTIES
  EndsOnSignal
  ConnectionsEnd
CHECK_DEADLOCK FALSE
