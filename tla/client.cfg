SPECIFICATION FairSpec
CONSTANTS
  Cmdlines <- MCCmdlines
  Slots = {s1, s2, s3}
  None = None
  DefaultRuns = 2
  SHM_SIZE = 64
  Kilo = 4
  Word = 256
  PortWord = 16
  MaxLines = 2
INVARIANTS
  TypeOK
  
  ShutdownAfterWork
  SyncAnswers
PROPERTY
  ProgramEnds
