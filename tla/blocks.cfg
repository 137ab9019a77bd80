SPECIFICATION FairSpec
CONSTANTS
  Transcripts = {t1}
  Refusable = {1}
  None = None
  MaxBlocks = 2
  MaxPerSweep = 2
  BatchSize = 1
  MaxFaults = 1
  MaxRestarts = 1
  MaxPresses = 1
INVARIANTS
  BlockTypeOK
  CursorSafe
  ActiveHasEntry
  StaysActive
PROPERTIES
  BacklogDrains
