CONSTANTS
  i1 = i1
  i2 = i2
  i3 = i3
  Ids <- MCIds
  Base = 2
  MaxHeight = 5
  MaxResults = 2
  MaxDepth = 1
SPECIFICATION Spec
CONSTRAINTS
  Disciplined
  SmallCallbacks
  FewEmpty
SYMMETRY Symmetry
CHECK_DEADLOCK FALSE
INVARIANTS
  TypeOK
  Kept
  HostLeaksNothing
  ValuesKeep
  NothingAstray
