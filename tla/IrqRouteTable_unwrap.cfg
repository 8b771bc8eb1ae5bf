SPECIFICATION Spec
CONSTANTS
  GsiCounts <- AnyCount
  W = 2
  MasterPins = 1
  SlavePins = 1
  IoapicPins = 2
  Devices = {d1, d2}
  Vectors = {v1, v2}
  MaxRoutes = 1
SYMMETRY Symmetry
INVARIANTS UnwrapNeverFails
CHECK_DEADLOCK FALSE
