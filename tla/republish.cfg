CHECK_DEADLOCK FALSE
SPECIFICATION FairSpec
CONSTANTS
  Blocks = {1, 2, 3, 4}
  Bad = {1, 2}
  BatchSize = 2
  RefusalLimit = 2
  MaxWait = 2
  MaxWobbles = 1
  MaxFaults = 2
  MaxRestarts = 2
INVARIANTS
  RepublishTypeOK
  GoodNotBlamed
PROPERTIES
  NothingLost
  RefusedOncePerSweep
  GoodDelivered
  ComesToRest
