SPECIFICATION LiveSpec
CONSTANTS
  main = main k1 = k1 k2 = k2 k3 = k3 g1 = g1 g2 = g2
  NoTask = NoTask NoGroup = NoGroup
  Externals <- MainOnly
  Tasks <- TwoTasks Groups <- TwoGroups
  PoolSize = 2 MaxThreads = 2
  CreateMayFail = TRUE
CHECK_DEADLOCK FALSE
INVARIANTS TypeOK ScopeOutlivesChildren ErrorsPropagate PendingExact
PROPERTY ScopesEnd
