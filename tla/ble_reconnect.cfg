SPECIFICATION Spec
CONSTANTS
  MaxConns = 2
  MaxMsgs = 2
  Rooms = {1, 2}
  DefaultRoom = 2
  Wrap = 2
  Interval = 1
INVARIANT HandlesOfPeer
CHECK_DEADLOCK FALSE
