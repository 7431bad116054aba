SPECIFICATION Spec
CONSTANTS
  Shell = {s1, s2}
  SpeedFails = TRUE
  Unread = Unread
  Interrupts = TRUE
  MaxJobs = 4
INVARIANTS TypeOK TestingConf KeygenConf
CHECK_DEADLOCK FALSE
