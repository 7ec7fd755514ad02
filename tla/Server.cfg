\* The audit stream, a forwarded request and the front end of a server.
SPECIFICATION MCSpec
CONSTANTS
  Unused = Unused
  None = None
  NoOne = NoOne
  NoRequest = NoRequest
  Sealed = Sealed
  n1 = n1
  n2 = n2
  x = x
  y = y
  Configs <- MCConfigs
  MaxSegments = 2
  MaxSequence = 6
  Nodes = {n1, n2}
  Items = {x, y}
  Requests <- Pair
  MaxElections = 3
  Faults = {"network"}
  MaxFaults = 1
  Members = {n1, n2, n3}
  Clients = {"a", "b"}
  Workers = {"w1", "w2"}
  Raw <- SomeRaw
  MaxConnections = 2
  MaxRequests = 1
  MaxViews = 1
  MaxExits = 2
INVARIANTS
  NoRecordLost
  OnceOnly
  ConsensusServed
PROPERTIES
  RetainedArchivesFixed
  AuditsAgain
  Answered
  ConnectionsClose
CHECK_DEADLOCK FALSE
