CONSTANTS
  s1 = s1
  s2 = s2
  s3 = s3
  alice = alice
  bob = bob
  Sids <- MCTwoSids
  JIDs <- MCJIDs
  MaxSessions = 2
  MaxCalls = 3
  MaxEvents = 2
SPECIFICATION Spec
CHECK_DEADLOCK FALSE
PROPERTIES
  OutOfOrderIsAnswered
