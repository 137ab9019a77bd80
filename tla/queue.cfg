SPECIFICATION FairSpec
CONSTANTS
  Keys = {k1, k2, k3}
  Consumers = {c1, c2}
  Capacity = 2
  RecentCap = 2
  None = None
INVARIANTS
  QueueTypeOK
  InflightExact
PROPERTIES
  NeverRequeued
  InflightReleased
