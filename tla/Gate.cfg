CONSTANTS
  o1 = o1
  Owner = {o1, o2}
  NoOwner = nobody
  Settings <- Deployments
  FirstSettings <- Begin
  HourTicks = 1
  HalfTicks = 2
  MaxNow = 2
  Chats = {c1, c2}
  Clients = {a1}
  Managed = {}
  Envs <- BootEnv
  Capacity = 2
  RecoverLimit = 1
  MaxEvents = 2
  MaxHours = 2
  MaxCrashes = 1
SPECIFICATION GateSpec
INVARIANTS CoverageHonest RightReader
PROPERTIES ReportsSettle DueReported
CHECK_DEADLOCK FALSE
