SPECIFICATION Spec
CONSTANTS
  Configs <- MCConfigs
  MaxSegments = 2
  MaxSequence = 4
  Faults = {"kill"}
  MaxFaults = 2
INVARIANTS
  TruncationSyncedFirst
CHECK_DEADLOCK FALSE
