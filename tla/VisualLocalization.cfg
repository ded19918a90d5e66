\* Four instants and a buffer of one tick, so that a slow pose falls out of
\* it; two restarts, of one process or of both.
SPECIFICATION FairSpec
CONSTANTS
  MaxTime = 3
  CacheTime = 1
  MaxRestarts = 2
  None = None
PROPERTIES
  OrderKept
  PoseIsUsed
