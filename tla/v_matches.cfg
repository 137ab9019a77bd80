SPECIFICATION Spec
CHECK_DEADLOCK FALSE
CONSTANTS
  Jobs = {1, 2}
  Waiting = {1}
  MaxAttempts = 2
  MaxPerSweep = 1
  MaxPublishes = 3
  MaxChanges = 1
  MaxFaults = 1
  MaxRestarts = 1
PROPERTY MatchesKept
