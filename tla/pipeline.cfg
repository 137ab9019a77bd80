SPECIFICATION Spec
CONSTANTS
  Keys = {k1, k2}
  HookKeys = {k1}
  WatchKeys = {k2}
  Capacity = 1
  RecentCap = 1
  DrainPage = 2
  MaxAttempts = 2
  AtlasEnabled = TRUE
  MaxDeaths = 1
  MaxFaults = 1
  None = None
INVARIANTS
  PipelineTypeOK
PROPERTIES
  SpoolSpec
  OldestFirst
  CustodyKept
  UnpairedKeepsAll
