SPECIFICATION FairSpec
CONSTANTS
  c1 = c1
  c2 = c2
  w1 = w1
  w2 = w2
  NoClient = NoClient
  Listener = Listener
  Clients <- TwoClients
  Workers <- TwoWorkers
  MaxFd = 1
  MaxBuffer = 1
  MaxSend = 2
PROPERTIES
  ClientsServed
CHECK_DEADLOCK FALSE
