SPECIFICATION Spec
CONSTANTS
  MaxConns = 2
  MaxMsgs = 2
  Rooms = {1, 2}
  DefaultRoom = 2
  Wrap = 6
  Interval = 1
INVARIANTS ToldIsUsable LocalTimeInInterval
PROPERTY ScanFindsDevice
CHECK_DEADLOCK FALSE
