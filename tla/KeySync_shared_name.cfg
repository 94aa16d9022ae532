SPECIFICATION Spec
CONSTANTS
  w1 = w1
  w2 = w2
  n1 = n1
  n2 = n2
  Workers = {w1, w2}
  Names = {n1, n2}
  NameOf <- SharedNames
  Agents = {a1}
  Sockets = {s1, s2}
  None = None
  LateClose = FALSE
  DbErrors = FALSE
  MaxQueue = 1
SYMMETRY Symmetric
INVARIANT EveryWorkerCovered

CHECK_DEADLOCK FALSE
