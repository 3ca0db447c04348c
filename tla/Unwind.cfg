SPECIFICATION Spec
CONSTANTS
  MaxTry = 3 MaxBind = 2 MaxScopes = 5
CHECK_DEADLOCK FALSE
INVARIANTS TypeOK HandlersLive ChainIntact
PROPERTIES GroupsEndedAsLeft ParamsReleasedOnce
