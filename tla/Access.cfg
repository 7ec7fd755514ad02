SPECIFICATION MCSpec
CONSTANTS
  Unused = Unused
  None = None
  Kinds = {"userpass", "approle", "jwt"}
  TokenOrders <- SomeOrders
  Grants <- SomeGrants
  Assertions <- SomeAssertions
  PolicyBodies <- SomeBodies
  DefaultTtl = 1
  MaxTtl = 2
  Skew = 1
  ReplayLimit = 2
  MaxClock = 2
  MaxTokens = 3
  MaxSecrets = 1
  MaxUpsets = 1
  Unset = Unset
  Focus = {"mounts", "kv", "transit", "totp"}
  MountPaths <- SomePaths
  Fields = {"x"}
  MetaKeys = {"m"}
  DefaultRetained = 2
  Seeds = {"s", "t"}
  FailureLimit = 2
  EncryptionLimit = 1
  MaxTime <- Times
  MaxVersion = 3
  MaxRetained = 2
  MaxKeyVersion = 2
  MaxKeys = 2
INVARIANTS CredentialsBounded WholeTrees EnginesServe
PROPERTIES NoRevival KvHistory
CHECK_DEADLOCK FALSE
