SPECIFICATION CFairSpec
CONSTANTS
  p1 = p1
  p2 = p2
  NoPid = NoPid
  Procs <- TwoProcs
  MaxSem = 1
  SemVmx = 2
  MaxEintr = 0
  MaxNump = 1
  Timeout = 1
  IpcFails = FALSE
  Polls = 2
INVARIANTS
  OneFiller
PROPERTIES
  ResidueRemoved
  HungEnds
  AddReturns
