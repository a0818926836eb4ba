CONSTANTS
  NTables = 2
  MaxEdits = 2
  MaxJobs = 2
  CrashAt <- WhileArmed
  MaxVersion = 4
  MaxTries = 3
  ChatIds = {c1, c2}
  WikiIds = {w1}
  Plans = {p1, p2}
  First = {}
  MaxLinks = 1
  MaxCuts = 1
  MaxFails = 1
  Page = {a}
  Nobody = nobody
  Concurrent = 1
  PerMinute = 1
  MaxCalls = 2
SPECIFICATION ServicesSpec
INVARIANTS
  BackupComplete ContentMatchesState CatalogHonest LinkedBothWays SummaryHonest
PROPERTIES JobSettles CatalogConverges LinkRepaired SlotsReturn
