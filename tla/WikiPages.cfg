CONSTANTS
  Client = {c1, c2}
  Page = {p, q, r}
  None = none
  MaxDepth = 1
  MaxSearches = 1
  MaxComments = 1
  MaxVersion = 4
SYMMETRY Symmetry
SPECIFICATION Spec
INVARIANTS TreeSound NoLostEdit AnswerCurrent
