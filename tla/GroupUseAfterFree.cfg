SPECIFICATION Spec
CONSTANTS
  main = main k1 = k1 k2 = k2 k3 = k3 g1 = g1 g2 = g2
  NoTask = NoTask NoGroup = NoGroup
  Externals <- MainOnly
  Tasks <- TwoTasks Groups <- OneGroup
  PoolSize = 1 MaxThreads = 1
  CreateMayFail = FALSE
CHECK_DEADLOCK FALSE
INVARIANT NoUseAfterFree
