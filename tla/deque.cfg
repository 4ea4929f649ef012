CONSTANTS
  MaxPuts = 4
  MaxRuns = 3
SPECIFICATION FairSpec
INVARIANTS
  SleepsOnlyWithReason
  HoldsTheRest
PROPERTIES
  TakerEnds
  AllTaken
CHECK_DEADLOCK FALSE
