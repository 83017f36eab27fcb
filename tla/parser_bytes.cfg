CONSTANTS
  Bytes <- MCShortBytes
  SysexMax = 4
  MaxTime = 3
  MaxRound = 2
  CanFail = {"message"}
  NULL = NULL
SPECIFICATION Spec
INVARIANTS ShortStreamInv MemorySafe DeliveredComplete
PROPERTY NeverBackInTime
