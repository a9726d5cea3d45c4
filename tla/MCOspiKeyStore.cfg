SPECIFICATION Spec
CONSTANTS
  Keys = {k1}
  Ids = {i1}
  NoKey = NoKey
  GenMax = 3
  Pages = 2
INVARIANT SelectedWasReadBack
CHECK_DEADLOCK FALSE
