SPECIFICATION Spec
CONSTANTS
  Suite = "tls"
  MachineId = {1, 2}
  MaxRuns = 2
  MaxSessions = 3
INVARIANTS ParsedIsOwn
