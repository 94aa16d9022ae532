SPECIFICATION Spec
CONSTANTS
  single = single
  brute = brute
  scan = scan
  login = login
  connect = connect
  both = both
  k1 = k1
  None = None
  Rules <- DemoRules
  Events <- DemoEvents
  Keys <- DemoKeys
  Matches <- DemoMatches
  KeyOf <- DemoKeyOf
  Threshold <- DemoThresholds
  RuleLists <- DemoLists
  MaxDelay = 0
  MaxClock = 3
  MaxSeen = 4
INVARIANT EveryBurstDetected
CHECK_DEADLOCK FALSE
