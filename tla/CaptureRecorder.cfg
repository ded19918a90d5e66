\* Up to three selected frames and a queue of two, so that it overflows; a thinned frame, a stamp of zero, a mixed stream
\* and a clock that goes back.  The process ends.
SPECIFICATION FairSpec
CONSTANTS
  Stamp = {0, 1, 2, 3, 5}
  Signature = {s1, s2}
  Interval = 2
  QueueSize = 2
  FrameTimeout = TRUE
  None = None
INVARIANTS
  AcceptedIsWhole
  DiskIsPrefix
PROPERTIES
  SessionKept
  FinishEnds
CHECK_DEADLOCK FALSE
