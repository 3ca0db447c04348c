SPECIFICATION Spec
CONSTANTS
  main = main k1 = k1 k2 = k2 c1 = c1 c2 = c2 v1 = v1 v2 = v2
  NoTask = NoTask Nobody = Nobody
  Externals <- MainOnly
  Tasks <- TwoTasks
  PoolSize = 1 MaxThreads = 2
  CreateMayFail = TRUE
  Chans <- TwoChans Requested <- CapTwoZero Vals <- TwoVals
  Garbage <- Clean Awaiters <- MainOnly
  MaxCalls = 4
  Patient = FALSE
CHECK_DEADLOCK FALSE
INVARIANTS TypeOK QueuedExact TaskInOnePlace CountersExact WaitersExact
PROPERTIES DeadlockOnlyWhenAlone ImplementsBoundedChannel
