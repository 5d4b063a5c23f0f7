CONSTANTS
  MaxConnects = 2
  MaxHosts = 3
  MaxFailures = 1
  OffersTLS = TRUE
  NeedsSession = TRUE
SPECIFICATION Spec
CHECK_DEADLOCK FALSE
INVARIANTS
  TypeOK
  EveryHostIsTried
  ReadyIsEarned
  OneEnd
PROPERTIES
  Settles
