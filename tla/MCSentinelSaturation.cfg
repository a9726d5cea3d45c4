SPECIFICATION Spec
CONSTANTS
  CounterMax = 2
  SampleMax = 1
  MaxCalls = 0
  MaxRangeErrors = 3
  MaxResets = 0
  Capacity = 2
  MaxGeneration = 0
INVARIANT WindowCountsRangeErrors
