SPECIFICATION CarefulSpec
CONSTANTS
  B = 2 NumNames = 2 Elems = 3 NoList = none
  MaxLength = 4 MaxTrie = 8 MaxRefs = 2
INVARIANTS TypeOK CountsExact ImmutableLists
CHECK_DEADLOCK FALSE
