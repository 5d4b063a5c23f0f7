CONSTANTS
  s1 = s1
  s2 = s2
  alice = alice
  bob = bob
  Sids <- MCSids
  JIDs <- MCJIDs
  Owner <- MCOwner
  MaxInfo = 1
  Again <- MCAgain
SPECIFICATION Spec
CONSTRAINT ShortQueues
CHECK_DEADLOCK FALSE
INVARIANTS
  TypeOK
  QuietAgreement
  OnlyCallersWedge
PROPERTIES
  HangUpReaches
  ImplementsProtocol
