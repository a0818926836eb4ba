\* The log: two clients, one incarnation, pages of one of two events; long polls
\* are answered.  The attachments: three files, a budget of three, one process lost.
CONSTANTS
  c1 = c1
  c2 = c2
  r1 = r1
  r2 = r2
  Client = {c1, c2}
  Request = {r1, r2}
  Owner <- OneEach
  MaxEvents = 2
  PageEvents = 1
  MaxGen = 1
  f1 = f1
  Files = {f1, f2, f3}
  Size <- Sizes
  Budget = 3
  Concurrent = 2
  Batch = 2
  MaxCrashes = 1
  CrashAt <- AtPut
  SlowPuts = FALSE
  MayDelete = TRUE
SPECIFICATION StoresSpec
INVARIANTS HonestReply Wakeups CursorCovered LiveWikiKeepsFiles
PROPERTIES ReadBeforeReply ImplementsCasLog PollAnswered CleanedUp
