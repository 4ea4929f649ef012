CONSTANTS
  Clients = {c1}
  Workers = {w1}
  GC = gc
  Slots = {s1}
  Bufs = {b1}
  Capacity = 1
  None = None
  ReuseBeforeUnlock = FALSE
SPECIFICATION Spec
INVARIANT ErrorsReported
