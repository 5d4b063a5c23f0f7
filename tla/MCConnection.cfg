CONSTANTS
  MaxWrites = 4
  MaxLen = 3
  MaxDepth = 9
SPECIFICATION Spec
CHECK_DEADLOCK FALSE
INVARIANTS
  TypeOK
  NothingRaises
  OutputInOrder
  ListsAreTrue
  LossIsReported
PROPERTIES
  OutputLeaves
  RefusalIsReported
