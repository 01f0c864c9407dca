SPECIFICATION MCSpec
CONSTANTS
  w1 = w1
  w2 = w2
  w3 = w3
  j1 = j1
  j2 = j2
  j3 = j3
  t1 = t1
  t2 = t2
  t3 = t3
  NoJob = NoJob
  Main = Main
  NoThread = NoThread
  Joiner = Joiner
  Nobody = Nobody
  Jobs <- ThreeJobs
  Workers <- ThreeWorkers
  Consumers <- ThreeConsumers
  CreateFails = TRUE
  MayShutdown = TRUE
  Batch = 2
  MaxSignals = 3
INVARIANTS
  TakenInOrder
PROPERTIES
  RefinesPool
  NoneWaits
  WorkersLeave
CHECK_DEADLOCK FALSE
