SPECIFICATION FairSpec
CHECK_DEADLOCK FALSE
CONSTANTS
  Versions = {v0, v1, v2}
  Base = v0
  Keldless = {v1}
  None = None
  MaxFailed = 1
  MaxPins = 1
  MaxFaults = 1
  MaxDeaths = 1
INVARIANTS
  UpdateTypeOK
  AgentKept
  NotRetried
  OneVersion
PROPERTIES
  Converges
