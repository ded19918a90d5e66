\* Three images in any order and four measurements: a frame waits for its
\* measurements, fails or is dropped as too old.  The node ends.
SPECIFICATION FairSpec
CONSTANTS
  MaxTime = 3
  MaxImages = 3
INVARIANTS
  FedAll
PROPERTIES
  ReadyWakes
  ShutdownEnds
CHECK_DEADLOCK FALSE
