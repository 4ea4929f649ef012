CONSTANTS
  Clients = {c1, c2}
  Workers = {w1}
  GC = gc
  Slots = {s1, s2}
  Bufs = {b1, b2}
  Capacity = 1
  None = None
  ReuseBeforeUnlock = FALSE
SPECIFICATION Spec
INVARIANTS
  TypeOK
  
  OneOwner
  
  ResultIsFinal
PROPERTY ImplementsCalls
SYMMETRY Symmetry
