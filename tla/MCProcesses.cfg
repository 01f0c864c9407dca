SPECIFICATION MCSpec
CONSTANTS
  p1 = p1
  p2 = p2
  p3 = p3
  Procs <- AllProcs
  MaxSem = 2
  SemVmx = 3
  MaxEintr = 2
  Destroyers <- OneProc
  SemgetFails = TRUE
  Father = Father
  c1 = c1
  c2 = c2
  Children <- TwoChildren
  MaxSent = 2
INVARIANTS
  LockSound
PROPERTIES
  WaitReturns
  AllEnd
CHECK_DEADLOCK FALSE
