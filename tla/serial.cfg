SPECIFICATION FairSpec
CONSTANTS
  m1 = m1
  m2 = m2
  NULL = NULL
  Heap = {m1, m2}
  Labels = 3
  MaxBurst = 1
  CanExhaust = TRUE
  CanTxFail = FALSE
  CanLineFail = TRUE
INVARIANTS OneOwner WireOwned
PROPERTIES SentInOrder ReceivedInOrder EveryMessageReturned EveryByteDelivered
CHECK_DEADLOCK FALSE
