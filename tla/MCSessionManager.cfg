CONSTANTS
  s1 = s1
  s2 = s2
  s3 = s3
  alice = alice
  bob = bob
  Sids <- MCSids
  JIDs <- MCJIDs
  MaxSessions = 3
  MaxCalls = 3
  MaxEvents = 1
SPECIFICATION Spec
CONSTRAINT Shallow
SYMMETRY Symmetry
CHECK_DEADLOCK FALSE
INVARIANTS
  TypeOK
  RegisteredIsListed
  ViewIsRegistry
  VisitedAreEnded
  ListedIsRegistered
PROPERTIES
  EndsOnlyThatPeer
