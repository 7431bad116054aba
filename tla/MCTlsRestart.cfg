SPECIFICATION RestartSpec
CONSTANTS
  SleepEnabled = FALSE
  Combo <- MCCombo
  Combos <- MCCombos
  NumRun <- UnequalRuns
  FailLimit = 1
  Broken <- NoneBroken
  OldServer = TRUE
  OneMachine = TRUE
  OtherOpenssl = 0
INVARIANTS NeverWrongServer ResultsAsNamed OwnServer
PROPERTY OnlyControllerKills
CHECK_DEADLOCK FALSE
