CONSTANT MaxRuns = 3
SPECIFICATION FairSpec
INVARIANTS
  TypeOK
  NoUseAfterUnmap
  FreshRun
  ExitJustified
PROPERTIES
  InitReturns
  DeathNoticed
CHECK_DEADLOCK FALSE
