SPECIFICATION Spec
CONSTANTS
  w1 = w1
  w2 = w2
  n1 = n1
  n2 = n2
  Workers = {w1, w2}
  Names = {n1, n2}
  NameOf <- OwnNames
  Agents = {a1}
  Sockets = {s1, s2, s3}
  None = None
  LateClose = FALSE
  DbErrors = FALSE
  MaxQueue = 1
SYMMETRY Symmetric
INVARIANTS LiveSocketListed EveryWorkerCovered

CHECK_DEADLOCK FALSE
