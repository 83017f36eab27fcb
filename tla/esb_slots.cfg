SPECIFICATION Spec
CONSTANTS
  d1 = d1
  d2 = d2
  Devices = {d1, d2}
  None = None
  Lags <- MCLags
  Airtime = 40
  InUse = {0, 4}
  Deadline = 1500
INVARIANTS TypeOK AcksDoNotCollide ChainComplete AcksOnTime
PROPERTY EveryReplySent
CHECK_DEADLOCK FALSE
