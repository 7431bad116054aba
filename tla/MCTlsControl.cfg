SPECIFICATION FairSpec
CONSTANTS
  SleepEnabled = TRUE
  Combo <- MCCombo
  Combos <- MCCombos
  NumRun <- TwoRuns
  FailLimit = 2
  Broken <- NoneBroken
  OldServer = TRUE
  OtherOpenssl = 0
INVARIANTS
  TypeOK
  RightServer
  ResultsAsNamed
PROPERTIES
  ServerStays
  SentMeansDelivered
  ImplementsPlan
  Completes
CHECK_DEADLOCK FALSE
