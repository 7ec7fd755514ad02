CONSTANTS
  n1 = n1
  n2 = n2
  x = x
  y = y
  None = None
  Sealed = Sealed
  NoRequest = NoRequest
  Nodes = {n1, n2}
  Items = {x, y}
  Requests <- Returning
  Faults = {"crash"}
  MaxFaults = 1
  MaxElections = 3
SPECIFICATION Spec
SYMMETRY Symmetry
INVARIANT
  Reconciled
CHECK_DEADLOCK FALSE
