CONSTANTS
  MaxLen = 8
  MaxDepth = 2
  StatsTokens = {2, 3}
SPECIFICATION FairSpec
INVARIANTS
  
  TokensMatch
  DumpsWhole
  PrintsStats
PROPERTIES
  Terminates
