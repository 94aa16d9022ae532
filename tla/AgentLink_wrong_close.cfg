SPECIFICATION Spec
CONSTANTS
  Batches = {b1, b2}
  Conns = {c1, c2}
  None = None
  LateAuth = FALSE
  Stalls = FALSE
  MaxSecret = 0
  MaxFrames = 1
SYMMETRY Symmetric
INVARIANT ClosesWhatFailed
CHECK_DEADLOCK FALSE
