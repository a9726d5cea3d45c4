SPECIFICATION Spec
CONSTANTS
  CounterMax = 2
  MaxCalls = 3
  MaxRangeErrors = 0
  SampleMax = 1
  MaxResets = 1
  Capacity = 2
  MaxGeneration = 1
INVARIANT TypeOK
INVARIANT WindowCountsCalls
INVARIANT WindowNamesSession
