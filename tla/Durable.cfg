\* Mutations, maintenance and backups around kills and I/O errors.
SPECIFICATION MCSpec
CONSTANTS
  k1 = k1
  k2 = k2
  r1 = r1
  r2 = r2
  v1 = v1
  v2 = v2
  Absent = Absent
  NoRequest = NoRequest
  Requests <- MCRequests
  Resources <- MCResources
  MaxRetained = 2
  JournalLimit = 6
  Faults = {"kill", "io"}
  MaxFaults = 2
  MaxBackups = 1
INVARIANTS
  Recoverable
  AckedSurvive
  AnswersStable
PROPERTIES
  ImplementsStore
  ServesAgain
CHECK_DEADLOCK FALSE
