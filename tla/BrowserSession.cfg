CONSTANTS
  NSends = 2
  Names = {human, bob}
  Human = human
  MaxTries = 2
  MaxPeer = 1
SPECIFICATION FairSpec
INVARIANTS OneName PostedOnce
PROPERTY SendSettles
CHECK_DEADLOCK FALSE
