SPECIFICATION Spec
CONSTANTS
  Days = 3
  DaySeconds = 3
INVARIANT TrustedIsRight
INVARIANT ReadsRight
