SPECIFICATION FairListSpec
CHECK_DEADLOCK FALSE
CONSTANTS
  Lists = {l1, l2}
  Empty = Empty
  Hooks = {h1}
  MaxChanges = 1
  MaxCrashes = 1
  MaxLost = 1
INVARIANTS
  ProjectTypeOK
PROPERTIES
  ListArrives
