CONSTANTS
  r1 = r1
  r2 = r2
  ann = ann
  Me = Me
  None = None
  Rooms <- MCOneRoom
  Others <- MCOneOther
  MaxCalls = 4
  MaxMoves = 2
  Manners = {"callback"}
SPECIFICATION Spec
CHECK_DEADLOCK FALSE
PROPERTIES
  CallbackJoinIsAnswered
