SPECIFICATION Spec
CONSTANTS
  Suite = "computational"
  MachineId = {1, 2}
  MaxRuns = 2
  MaxSessions = 3
INVARIANTS TypeOK UpOneSession ParsedOneSession ParsedIsOwn SessionInvariant
PROPERTIES OldResultsKept
