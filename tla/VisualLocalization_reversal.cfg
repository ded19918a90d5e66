\* Images whose stamps go back.
SPECIFICATION FairSpec
CONSTANTS
  MaxTime = 2
  CacheTime = 1
  MaxRestarts = 1
  None = None
PROPERTY TimeReversalDiscarded
