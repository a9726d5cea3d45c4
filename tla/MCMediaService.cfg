SPECIFICATION Spec
CONSTANTS
  HalfTick = 3
  SeqMod = 3
  GenMod = 2
  Debounce = 1
  ActiveHigh = FALSE
  MaxReadFailures = 1
  MaxEdges = 2
  MaxLatency = 1
  MaxStopTimeouts = 1
INVARIANT FinalUse
INVARIANT OffIsClean
INVARIANT NoLostWakeup
PROPERTY MediaSpec
PROPERTY EventuallySettled
PROPERTY StopCompletes
