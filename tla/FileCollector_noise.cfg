SPECIFICATION FairSpec
CONSTANTS
  Paths = {p1, p2}
  Dirs = {}
  HomeOf <- Flat
  Noise = {p2}
  None = None
  QueueCap = 2
  ChanCap = 1
  MaxChanges = 2
  MaxFails = 0
PROPERTY ChangesDelivered
CHECK_DEADLOCK FALSE
