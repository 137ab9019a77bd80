SPECIFICATION FairSpec
CONSTANTS
  MaxRestarts = 1
  ReadyTicks = 4
  LoadTicks = 3
  RestBase = 1
  RestMax = 2
  Grace = 3
  Cooldown = 7
  SidecarAt = 2
  DaemonAt = 4
  MaxTurns = 2
  MaxPresses = 1
  MaxSleeps = 1
  MaxDeaths = 1
  MaxFaults = 1
INVARIANTS
  SidecarTypeOK
PROPERTIES
  OncePerCooldown
  Recovers
