CONSTANTS
  Clients = {c1}
  Workers = {w1}
  GC = gc
  Slots = {s1, s2}
  Bufs = {b1}
  Capacity = 2
  None = None
  ReuseBeforeUnlock = FALSE
SPECIFICATION FairSpec
PROPERTIES
  WaitReturns
  OrphansFreed
