CONSTANTS
  f1 = f1
  Files = {f1}
  Size <- Sizes
  Budget = 3
  Concurrent = 2
  Batch = 1
  MaxCrashes = 0
  CrashAt <- AtPut
  SlowPuts = FALSE
  MayDelete = TRUE
SPECIFICATION UploadsSpec
INVARIANT NoOrphanFile
CHECK_DEADLOCK FALSE
