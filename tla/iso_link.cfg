SPECIFICATION IsoSpec
CONSTANTS
  m1 = m1
  m2 = m2
  m3 = m3
  m4 = m4
  a = a
  b = b
  Messages = {m1, m2, m3, m4}
  Standing = {m3}
  Muids = {a, b}
  Everyone = Everyone
  None = None
  Dest <- MCDest
  Data <- MCData
  NumLimit = 14
  Channels = 2
  PduRoom = 3
  MaxAllocFailures = 1
  MaxFaults = 2
INVARIANTS QueueSound OneChannelEach PlayedAsGiven RepetitionsWerePlayed
PROPERTIES ImplementsReliableDelivery EveryMessageAcknowledged
CHECK_DEADLOCK FALSE
