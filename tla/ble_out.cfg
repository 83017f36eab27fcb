SPECIFICATION FairSpec
CONSTANTS
  NULL = NULL
  Input <- MCInput
  Times = {5}
  PckMax = 8
  Mtus = {8, 11}
  DefaultMtu = 8
  MaxNumber = 3
  MaxQueue = 2
  MaxConns = 2
INVARIANTS TypeOK PacketInBounds EncodedInOrder
PROPERTIES EveryMessageEncoded EveryPacketSent
CHECK_DEADLOCK FALSE
