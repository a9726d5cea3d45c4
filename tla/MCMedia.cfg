SPECIFICATION Spec
CONSTANTS
  HalfTick = 2
  SeqMod = 3
  GenMod = 2
  Debounce = 1
  ActiveHigh = FALSE
  MaxReadFailures = 1
INVARIANT GenerationNamesSession
INVARIANT SettledIsCurrent
INVARIANT WaitForeverMeansIdleOrError
PROPERTY SettlesToPin
PROPERTY DebounceHonoured
