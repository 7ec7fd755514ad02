\* What is reported after a kill and a recovery.
SPECIFICATION Spec
CONSTANTS
  k1 = k1
  k2 = k2
  r1 = r1
  r2 = r2
  v1 = v1
  v2 = v2
  Absent = Absent
  NoRequest = NoRequest
  Requests <- MCRequests
  Resources <- MCResources
  MaxRetained = 2
  JournalLimit = 5
  Faults = {"kill"}
  MaxFaults = 1
  MaxBackups = 0
INVARIANT SyncedBeforeReported
