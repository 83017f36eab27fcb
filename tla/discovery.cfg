SPECIFICATION Spec
CONSTANTS
  d1 = d1
  d2 = d2
  Devices = {d1, d2}
  MuidsOf <- MCMuids
  CentralMuid <- MCCentralMuid
  MaxNumMuid = 2
  MaxQueued = 2
  MaxMissed = 3
  Losses = TRUE
INVARIANTS TypeOK ListedKnowsSender OneEntryPerMuid
PROPERTY EveryoneDiscovered
CHECK_DEADLOCK FALSE
