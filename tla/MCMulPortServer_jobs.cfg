SPECIFICATION Spec
CONSTANTS
  c1 = c1
  c2 = c2
  w1 = w1
  w2 = w2
  NoClient = NoClient
  Listener = Listener
  Clients <- TwoClients
  Workers <- TwoWorkers
  MaxFd = 2
  MaxBuffer = 1
  MaxSend = 2
SYMMETRY Symmetry
INVARIANTS
  OwnConnection
  CountExact
CHECK_DEADLOCK FALSE
