CONSTANTS
  Chats = {c1}
  Clients = {a1}
  Managed = {c1}
  Envs <- BootEnv
  Capacity = 2
  RecoverLimit = 1
  MaxEvents = 2
  MaxHours = 1
  MaxCrashes = 0
SPECIFICATION FairSpec
PROPERTY DueReported
CHECK_DEADLOCK FALSE
