SPECIFICATION FairSpec
CONSTANTS
  NLines = 2
  Runs = {r1, r2, r3}
  MaxFaults = 1
  LinesCap = 1
  OutCap = 1
  MaxInFlight = 2
  None = None
PROPERTIES BridgeRefined BridgeRecovers ExitsWhenClosed
CHECK_DEADLOCK FALSE
