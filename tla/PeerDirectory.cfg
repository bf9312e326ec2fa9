SPECIFICATION Spec
CONSTANTS
  Ble = {b1, b2}
  Node = {n1, n2, n3}
  None = None
  MaxEntries = 2
  Retention = 1
  MaxClock = 2
  MaxQueue = 2
  MaxFaults = 1
SYMMETRY DirectorySymmetry
INVARIANTS Bijective ConnectedIffMapped RouteIsLive ShownRoutes FreshestAreKept
PROPERTY OthersUntouched
\* The events may be handled and every bound used up.
CHECK_DEADLOCK FALSE
