SPECIFICATION PluginSpec
CONSTANTS
  None = None
  LeaseIds = {"l"}
  Operations = {"issue", "renew", "revoke"}
  Ttls = {1}
  Reuse = TRUE
  MaxTime = 1
  MaxCalls = 3
  MaxGeneration = 3
INVARIANTS EnteredBehindIntent
CHECK_DEADLOCK FALSE
