SPECIFICATION Spec
CONSTANTS
  Batches = {b1, b2}
  Conns = {c1, c2}
  None = None
  LateAuth = TRUE
  Stalls = TRUE
  MaxSecret = 0
  MaxFrames = 1
SYMMETRY Symmetric
INVARIANTS TypeOK AtMostOnce NoUnauthenticatedData
CHECK_DEADLOCK FALSE
