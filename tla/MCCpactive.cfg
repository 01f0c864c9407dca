SPECIFICATION Spec
CONSTANTS
  p1 = p1
  p2 = p2
  p3 = p3
  NoPid = NoPid
  Procs <- AllProcs
  MaxSem = 1
  SemVmx = 3
  MaxEintr = 1
  MaxNump = 2
  Timeout = 0
  IpcFails = TRUE
SYMMETRY Symmetry
INVARIANTS
  RecordKept
  OneRecord
PROPERTIES
