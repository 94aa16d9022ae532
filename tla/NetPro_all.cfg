SPECIFICATION FairSpec
CONSTANTS
  first = first
  second = second
  Cpus = {cpu0, cpu1}
  Objects = {first, second}
  None = None
  Scripts <- AllHooks
  Slots = 2
  PipeSize = 1
  BufSize = 1
  ChanSize = 1
  MaxStops = 1
INVARIANTS TypeOK Conserved InKernelOrder AttemptCountedOnce 
PROPERTY EventuallyHanded
CHECK_DEADLOCK FALSE
