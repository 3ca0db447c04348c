CONSTANTS
  call1 = call1
  call2 = call2
  lone = lone
  Calls <- AllCalls
  Grouped <- GroupedCalls
  NoCall = none
SPECIFICATION AsyncLiveSpec
INVARIANTS AsyncTypeOK JobInOnePlace UsedWhileOpen
PROPERTIES ArrayLeftAlone PromiseTellsTheTruth CancelledCallsReturn EveryCallReturns
CHECK_DEADLOCK FALSE
