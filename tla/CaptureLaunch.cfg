\* One frame to select, so that a bag may fail before or after it. The session ends.
SPECIFICATION LaunchSpec
CONSTANTS
  Stamp = {1}
  Signature = {s1}
  Interval = 1
  QueueSize = 1
  FrameTimeout = FALSE
  None = None
INVARIANTS
  BagCoversImages
  CleanRunAccepted
PROPERTY CaptureEnds
CHECK_DEADLOCK FALSE
