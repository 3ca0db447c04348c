CONSTANTS
  main = main
  worker = worker
  Threads = {main, worker}
  NoThread = none
  Locks = {"device", "submit", "g_mu", "jobs", "promise"}
  Ops <- AllOps
  Script <- AllScripts
  Starts <- StartsOf
  After <- Own
  Buffers <- EveryBuffer
  Observed <- Synchronised
  Serial <- Waiting
  Twice <- DestroyedTwice
SPECIFICATION Spec
INVARIANTS TypeOK NothingLeaks NothingFreedTwice NothingFreedInUse ReadsTheLatest OneAtATime
