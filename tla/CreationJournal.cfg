CONSTANTS
  Chats = {c1, c2}
  Clients = {a1, a2}
  Managed = {c2}
  Envs <- AnyEnv
  Capacity = 1
  RecoverLimit = 1
  MaxEvents = 2
  MaxHours = 1
  MaxCrashes = 2
SPECIFICATION Spec
INVARIANTS OncePerAttempt AckedOwnsChat HourlyCountExact
CHECK_DEADLOCK FALSE
