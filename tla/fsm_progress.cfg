CONSTANTS
  Raft = raft
  Fsm = fsm
  Calls = {k1, k2}
  Capacity = 2
  MaxCount = 1
  None = None
SPECIFICATION FairSpec
PROPERTY CallsAnswered
CHECK_DEADLOCK FALSE
