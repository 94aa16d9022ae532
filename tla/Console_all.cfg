SPECIFICATION InstanceSpec
CONSTANTS
  c1 = c1
  agent = agent
  file = file
  package1 = package1
  package2 = package2
  login = login
  me = me
  them = them
  page = page
  None = None
  Conns = {c1}
  Agents = {agent}
  Items = {file, package1, package2, login}
  AgentOf <- OneAgent
  Batches <- SomeBatches
  Alert <- SomeAlerts
  Users = {me, them}
  Pages = {page}
  Owners <- EitherOwner
  UserOf <- MyPage
  MaxSigns = 1
  MaxQueue = 1
  MaxTasks = 2
  MaxFaults = 1
INVARIANTS TypeOK ToldOfStored  
PROPERTIES BatchesHandled 
CHECK_DEADLOCK FALSE
