SPECIFICATION Spec
CONSTANTS
  HalfTick = 2
  SeqMod = 3
  GenMod = 2
  Debounce = 1
  ActiveHigh = TRUE
  MaxReadFailures = 1
INVARIANT WaitForeverMeansIdle
