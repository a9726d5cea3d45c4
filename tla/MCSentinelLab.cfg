SPECIFICATION Spec
CONSTANTS
  MaxGeneration = 3
  WarmupWindows = 2
  StageCount = 3
  InjectedStages <- MCInjectedStages
INVARIANTS VerdictOfOneSession LearnsFromCleanWindows
INVARIANTS BackingNotErased CleanAfterwards NoLostCompletion
