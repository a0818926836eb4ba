CONSTANTS
  NTables = 1
  MaxEdits = 1
  MaxJobs = 1
  CrashAt = {"disarmed"}
SPECIFICATION FairSpec
PROPERTY JobSettles
