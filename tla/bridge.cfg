SPECIFICATION FairSpec
CONSTANTS
  NULL = NULL
  Roles = {"central", "peripheral"}
  Input <- MCInput
  MaxGiven = 3
  MaxQueue = 1
  MaxDropped = 1
INVARIANTS PlayedInOrder NothingLeaked
PROPERTIES EveryMessagePlayed
CHECK_DEADLOCK FALSE
