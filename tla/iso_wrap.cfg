SPECIFICATION IsoSpec
CONSTANTS
  m1 = m1
  m2 = m2
  m3 = m3
  m4 = m4
  a = a
  b = b
  Messages = {m1, m2, m3, m4}
  Standing = {}
  Muids = {a, b}
  Everyone = Everyone
  None = None
  Dest <- WrapDest
  Data <- WrapData
  NumLimit = 3
  Channels = 2
  PduRoom = 4
  MaxAllocFailures = 0
  MaxFaults = 0
INVARIANT RepetitionsWerePlayed
CHECK_DEADLOCK FALSE
