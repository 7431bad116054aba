SPECIFICATION Spec
CONSTANTS
  Shell = {s1}
  SpeedFails = TRUE
  Unread = Unread
  Interrupts = FALSE
  MaxJobs = 3
INVARIANT TestingConfRestored
CHECK_DEADLOCK FALSE
