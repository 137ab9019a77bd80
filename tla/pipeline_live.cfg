SPECIFICATION FairSpec
CONSTANTS
  Keys = {k1}
  HookKeys = {k1}
  WatchKeys = {k1}
  Capacity = 1
  RecentCap = 1
  DrainPage = 1
  MaxAttempts = 2
  AtlasEnabled = TRUE
  MaxDeaths = 1
  MaxFaults = 1
  None = None
PROPERTIES
  Settles
