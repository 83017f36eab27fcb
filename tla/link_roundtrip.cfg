CONSTANTS
  Bytes <- MCBytes
  Outgoing <- MCMessages
  SysexMax = 4
  MaxTime = 2
  MaxRound = 1
  CanFail = {}
  NULL = NULL
SPECIFICATION LinkSpec
INVARIANTS LinkInv RoundTrip
