SPECIFICATION Spec
CONSTANTS
  B = 2 NumNames = 2 Elems = 3 NoList = none
  MaxLength = 8 MaxTrie = 4 MaxRefs = 3
PROPERTY OthersUnchanged
CHECK_DEADLOCK FALSE
