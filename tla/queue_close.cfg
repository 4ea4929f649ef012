CONSTANTS
  Capacity = 1
  Producers = {p1}
  Consumers = {c1}
  Closer = closer
  Values = {v1}
  None = None
SPECIFICATION FairSpec
PROPERTY ConsumersExit
