SPECIFICATION FairSpec
CONSTANTS
  Keys = {a, b, c}
  Hooks = {h1}
  Worker = worker
  Sizes = {1, 3}
  Limit = 2
  EvictBatch = 1
  DrainPage = 2
  MaxWrites = 3
INVARIANTS
  SpoolTypeOK
PROPERTIES
  SpoolSpec
  DeletesWhatWasRead
  DriftRepaired
  WriteEnds
