SPECIFICATION FairSpec
ACTION_CONSTRAINT Quiet
CONSTANTS
  c1 = c1
  c2 = c2
  NoClient = NoClient
  Main = Main
  Clients <- TwoClients
  MayStop <- OneClient
  Scripts <- TwoScripts
  Names <- TwoFiles
  MaxFd = 2
  MaxSend = 3
  Buf = 1
  BufferLength = 2
  MaxMoves = 1
  MaxSize = 1
INVARIANTS
  NeverBlocks
  AnswersRight
  Survives
PROPERTIES
  ServedInTheEnd
CHECK_DEADLOCK FALSE
