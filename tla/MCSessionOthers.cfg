SPECIFICATION Spec
CONSTANTS
  Suite = "computational"
  MachineId = {1, 2}
  MaxRuns = 1
  MaxSessions = 2
PROPERTIES OthersKept
