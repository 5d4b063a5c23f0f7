CONSTANTS
  r1 = r1
  r2 = r2
  ann = ann
  Me = Me
  None = None
  Rooms <- MCRooms
  Others <- MCOneOther
  MaxCalls = 4
  MaxMoves = 1
  Manners = {"patient", "hasty"}
SPECIFICATION Spec
CHECK_DEADLOCK FALSE
INVARIANTS
  TypeOK
  OccupantsAgree
  BelievedIsTrue
  ViewIsOccupants
PROPERTIES
  JoinIsAnswered
  LeaveIsHeard
