SPECIFICATION FairSpec
CONSTANTS
  w1 = w1
  w2 = w2
  n1 = n1
  n2 = n2
  Workers = {w1}
  Names = {n1, n2}
  NameOf <- OneWorker
  Agents = {a1}
  Sockets = {s1, s2}
  None = None
  LateClose = TRUE
  DbErrors = TRUE
  MaxQueue = 1
INVARIANTS TypeOK NoKeyGap NoDeadEntry
PROPERTIES ImplementsKeyBoard   KeyArrives
CHECK_DEADLOCK FALSE
