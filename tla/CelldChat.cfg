CONSTANTS
  Client = {c1, c2}
  MaxEvents = 2
  PageEvents = 1
  Retention = TRUE
  MaxGen = 2
SPECIFICATION FairSpec
INVARIANT StoredInGeneration
PROPERTY ExpiresInTheEnd
