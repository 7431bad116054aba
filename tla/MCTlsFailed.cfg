SPECIFICATION FairSpec
CONSTANTS
  SleepEnabled = TRUE
  Combo <- MCCombo
  Combos <- MCCombos
  NumRun <- OneRun
  FailLimit = 2
  Broken <- NoneBroken
  OldServer = FALSE
  OtherOpenssl = 0
PROPERTY FailedIsRetried
CHECK_DEADLOCK FALSE
