SPECIFICATION InstanceSpec
CONSTANTS
  dir = dir
  inner = inner
  Paths = {dir, inner}
  Dirs = {dir}
  HomeOf <- Homes
  Noise = {}
  None = None
  QueueCap = 2
  ChanCap = 1
  MaxChanges = 3
  MaxFails = 1
  auth = auth
  syslog = syslog
  Logs = {auth, syslog}
  PipeCap = 1
  MaxLines <- TwoAndOne
  MaxFaults = 1
  Packages = {ssh, curl}
  PackageVersions = {1, 2}
  MaxInstalls = 2
  MaxStarts = 1
INVARIANTS
  CollectorsTypeOK
  NoUnnoticedChange NoBlindDirectory 
  LinesAccountedFor ToldIsWritten
PROPERTIES   PackagesReceived
CHECK_DEADLOCK FALSE
