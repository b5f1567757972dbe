SPECIFICATION Spec
CONSTANTS
  NLines = 1
  Runs = {r1, r2}
  MaxFaults = 1
  LinesCap = 1
  OutCap = 1
  MaxInFlight = 2
  None = None
PROPERTY NoDeadReader
CHECK_DEADLOCK FALSE
