SPECIFICATION MCSpec
CONSTANTS
  Unused = Unused
  Ops = {"o", "p", "q"}
  Absent = Absent
  Torn = Torn
  Trouble = {"process", "power"}
  MaxGenerations = 2
  MaxNotes = 1
  Objects = {1, 2}
  op1 = op1
  op2 = op2
  CopyOps = {op1, op2}
  None = None
  Nothing = Nothing
  Ruined = Ruined
  Hazards = {"process", "power"}
  MaxReceipt = 2
  MaxTroubles = 2
  Nil = Nil
  Unrest = {"process", "power"}
  MaxTerm = 2
  MaxIndex = 2
  MaxIncoming = 1
  MaxTransfers = 2
  MaxCrashes = 1
  Callers = {"a"}
  MaxAttempts = 2
  MaxElections = 1
  MaxLog = 5
  Peers = {"p", "q"}
  OpIds = {1, 2}
  Payloads = {"x", "y"}
  MaxFaults = 2
  CompletedLimit = 1
  PeerFaults = {"process", "power", "views"}
  MaxSequence = 2
  MaxRuns = 2
  MaxViews = 2
  Epochs = {1, 2, 3}
  NoEpoch = NoEpoch
  MaxEvents = 6
  States = {"a", "b"}
  RecordPayloads = {"r"}
  MaxRecords = 1
  Coordinators = {1, 2}
  MaxGeneration = 1
  MaxRevision = 2
  MaxEpoch = 2
INVARIANTS LedgerTellsStore CopiedOnce AnswersSurvive AnswersTrue OnceEach RingFollowsJournal
PROPERTIES FollowsMigrationState AnchorMovesForward
SYMMETRY OperationSymmetry
CHECK_DEADLOCK FALSE
