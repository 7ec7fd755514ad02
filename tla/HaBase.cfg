CONSTANTS
  n1 = n1
  n2 = n2
  x = x
  y = y
  None = None
  Sealed = Sealed
  NoRequest = NoRequest
  Nodes = {n1, n2}
  Items = {x, y}
  Requests <- Growing
  Faults = {"crash", "unknown", "rejected", "audit", "network"}
  MaxFaults = 1
  MaxElections = 2
SPECIFICATION Spec
SYMMETRY Symmetry
INVARIANT
  ExactBase
CHECK_DEADLOCK FALSE
