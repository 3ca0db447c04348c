SPECIFICATION LiveSpec
CONSTANTS
  t1 = t1 t2 = t2
  Callers <- TwoCallers
  StashMax = 2 TableSize = 4 DirectBase = 8
  InitMayFail = FALSE
  MaxOps = 2 MaxDirect = 0 MaxOutstanding = 2 MaxUses = 1
CHECK_DEADLOCK FALSE
PROPERTY AwaitReturns
