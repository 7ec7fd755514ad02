\* Replicated writes and key ceremonies around crashes, losses of power and failed calls.
SPECIFICATION MCSpec
CONSTANTS
  Unused = Unused
  None = None
  NoRequest = NoRequest
  Sealed = Sealed
  n1 = n1
  n2 = n2
  x = x
  y = y
  Nodes = {n1, n2}
  Items = {x, y}
  Requests <- Growing
  MaxElections = 2
  Faults = {"crash", "unknown", "rejected", "audit", "network"}
  MaxFaults = 2
  Shares = 2
  Threshold = 2
  MaxKeys = 2
  MaxStray = 1
  MaxVersion = 2
  Verification = {TRUE, FALSE}
INVARIANTS
  NoStaleRead
  AckedTakeEffect
  NodesReconciled
  SealHeld
  RestartSucceeds
PROPERTIES
  EventuallyUnsealed
CHECK_DEADLOCK FALSE
