SPECIFICATION MCSpec
CONSTANTS
  Unused = Unused
  None = None
  LeaseIds = {"l", "k"}
  Operations = {"issue", "renew", "revoke"}
  Reuse = FALSE
  MaxCalls = 3
  MaxGeneration = 3
  Focus = {"identity", "tokens", "routes", "requests", "leases"}
  Entities = {"e", "f"}
  Groups = {"g"}
  Policies = {"p"}
  Tokens = {"t", "u"}
  Leases = {"l", "k"}
  Mounts = {"m", "k"}
  Namespaces = {"r", "n"}
  Root = "r"
  Paths <- SomePaths
  RequestIds <- Ids
  Values = {"x"}
  Capacity = 2
  MaxVersions = 1
  MaxSequence <- References
  NoId = NoId
  c1 = c1
  c2 = c2
  c3 = c3
  Connections = {c1, c2, c3}
  Requests <- SomeRequests
  MaxConnections = 2
  MaxIds = 1
  Ttl = 1
  Timeout = 1
  MaxClock = 2
  MaxFaults = 1
  Idle = Idle
  InboundRequests <- SomeInbound
  MaxAudited = 4
  Nobody = Nobody
  Contract = {"agent", "writer", "backup", "plugins", "keys", "assertions", "cursor", "matrix"}
  Nodes = {"n1", "n2"}
  Local = "n1"
  Assertions <- SomeAssertions
  ReplayCapacity = 2
  Skew = 1
  MaxTtl = 3
  Surfaces = {"read", "write", "other"}
  Minimum <- TwoSurfaces
  InitialBackoff = 1
  MaximumBackoff = 2
  MaxTick = 4
  MaxSteps = 5
  Closed = Closed
  Presented <- SomePresented
  TokenSkew = 1
  MfaSkew = 1
  MaxLifetime = 2
  MaxProofLife = 2
  MaxEntries = 2
  MaxNow = 4
  MaxKills = 2
  MaxPower = 1
  MaxErrors = 2
  MaxFrames = 4
  Samples <- SomeSamples
  MaxBytes = 2
  MaxRecords = 2
  MaxDamage = 2
  Problems <- SomeProblems
INVARIANTS EffectsAccounted RequestsAccounted CommitsAccounted RuntimeAudited ContractsHold ReleasedOnce FramesExact ComputedRight
PROPERTY InvalidForGood
SYMMETRY ConnectionSymmetry
CHECK_DEADLOCK FALSE
