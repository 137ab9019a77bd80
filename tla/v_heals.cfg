SPECIFICATION FairSpec
CHECK_DEADLOCK FALSE
CONSTANTS
  Versions = {v0, v1}
  Base = v0
  Keldless = {}
  None = None
  MaxFailed = 1
  MaxPins = 0
  MaxFaults = 0
  MaxDeaths = 0
PROPERTY BadReleaseHeals
