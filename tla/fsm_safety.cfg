CONSTANTS
  Raft = raft
  Fsm = fsm
  Calls = {k1, k2, k3}
  Capacity = 2
  MaxCount = 2
  None = None
SPECIFICATION Spec
INVARIANTS
  TypeOK
  AnswersInOrder
  WorkedOnOnce
  NoAnswerAfterCleanup
SYMMETRY Symmetry
CHECK_DEADLOCK FALSE
