SPECIFICATION LinkSpec
CONSTANTS
  NULL = NULL
  Input <- MCInput
  Times = {100, 130, 250}
  PckMax = 14
  Mtus = {17}
  DefaultMtu = 17
  MaxNumber = 3
  MaxQueue = 1
  MaxConns = 1
  SysexMax = 8
INVARIANTS MessagesComeThrough TimestampsComeThrough
CHECK_DEADLOCK FALSE
