SPECIFICATION Spec
CONSTANTS
  single = single
  brute = brute
  scan = scan
  login = login
  connect = connect
  both = both
  k1 = k1
  None = None
  Rules <- ThreeRules
  Events <- ThreeEvents
  Keys <- ThreeKeys
  Matches <- ThreeMatches
  KeyOf <- ThreeKeyOf
  Threshold <- ThreeThresholds
  RuleLists <- ThreeLists
  MaxDelay = 1
  MaxClock = 4
  MaxSeen = 4
INVARIANTS TypeOK AlertJustified BurstDetected
CHECK_DEADLOCK FALSE
