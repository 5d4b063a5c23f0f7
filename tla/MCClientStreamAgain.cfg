CONSTANTS
  MaxConnects = 2
  MaxHosts = 2
  MaxFailures = 1
  OffersTLS = FALSE
  NeedsSession = FALSE
SPECIFICATION Spec
CHECK_DEADLOCK FALSE
PROPERTIES
  ReadyComes
