SPECIFICATION LiveSpec
CONSTANTS
  t1 = t1 t2 = t2
  Callers <- TwoCallers
  StashMax = 2 TableSize = 4 DirectBase = 9
  InitMayFail = TRUE
  MaxOps = 3 MaxDirect = 1 MaxOutstanding = 2 MaxUses = 2
CHECK_DEADLOCK FALSE
INVARIANTS TypeOK InOnePlace ContextsKept
PROPERTY AwaitedIsReaped
