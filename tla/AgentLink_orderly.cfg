SPECIFICATION FairSpec
CONSTANTS
  Batches = {b1}
  Conns = {c1, c2}
  None = None
  LateAuth = FALSE
  Stalls = FALSE
  MaxSecret = 1
  MaxFrames = 1
INVARIANTS
  RegistryCurrent
  SentIsAccountedFor
PROPERTIES
  
  SentIsProcessed
CHECK_DEADLOCK FALSE
