CONSTANTS
  Flow = {f1, f2}
  Limit = 1
  FlowLife = 2
  SessionLife = 2
  SweepPause = 1
  MaxNow = 4
  MaxPasses = 2
  Ip = {i1, i2}
  Burst = 2
  Refill = 2
  MaxIps = 1
  MaxTime = 4
  Sender = {a, b}
  Env <- Deployed
  Titles = {"t1", "t2"}
  Texts = {"x", "y"}
  Nick = {"human", "bob"}
  MaxPosts = 2
  MaxActs = 4
  Reader = {c1, c2}
  Item = {p, q}
  MaxExports = 2
  MaxChanges = 1
  Leaf = {p, q}
  NoLeaf = none
  MaxRev = 2
  MaxClicks = 3
SPECIFICATION ClientsSpec
INVARIANTS
  SignInOnce QuotaBound HonestVerdict ScreenedFirst ShownAsAsked
  OneExport PageCoherent OneSave
CHECK_DEADLOCK FALSE
