CONSTANTS
  Capacity = 2
  Producers = {p1, p2}
  Consumers = {c1, c2}
  Closer = closer
  Values = {v1}
  None = None
SPECIFICATION FairSpec
INVARIANTS
  TypeOK
  MutualExclusion
  RingConsistent
  WakeupsSuffice
PROPERTIES
  ImplementsFifo
  Drains
  BlockedProducersWoken
