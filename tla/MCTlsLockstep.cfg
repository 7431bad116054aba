SPECIFICATION RestartSpec
CONSTANTS
  SleepEnabled = FALSE
  Combo <- MCCombo
  Combos <- MCCombos
  NumRun <- MCNumRun
  FailLimit = 1
  Broken <- MCBroken
  OldServer = TRUE
  OneMachine = FALSE
  OtherOpenssl = 0
INVARIANT RestartInvariant
CHECK_DEADLOCK FALSE
