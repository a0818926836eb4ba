CONSTANTS
  Leaf = {p, q}
  NoLeaf = none
  MaxRev = 2
  MaxClicks = 3
SPECIFICATION EditorSpec
INVARIANT NoBlindOverwrite
CHECK_DEADLOCK FALSE
