SPECIFICATION BoardSpec
CONSTANTS
  Keys = {k1, k2}
  Ids = {i1, i2}
  NoKey = NoKey
  GenMax = 4
  Pages = 2
INVARIANT TypeOK
INVARIANT GenerationsAdjacent
INVARIANT NorSelectedWasReadBack
PROPERTY NewestUntouched
PROPERTY RegisterSpec
CHECK_DEADLOCK FALSE
