SPECIFICATION Spec
CONSTANTS
  Tasks = {t1, t2}
  ActiveMax = 3
  CounterMax = 2
  SampleMax = 2
  MaxCalls = 3
  MaxErrors = 2
  MaxResets = 2
SYMMETRY Symmetry
CHECK_DEADLOCK FALSE
INVARIANT NoCallOutlivesObserver
INVARIANT NoCallStraddlesReset
INVARIANT ActiveAccounted
PROPERTY CountersOnly
