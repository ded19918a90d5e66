\* Two configurations, two resets and one tick, after which a cloud is stale:
\* LoadMap, the retries and a second Configure all happen.  The system stops
\* when the node is finalized and the bounded clock has run out.
SPECIFICATION Spec
CONSTANTS
  Value = {0, 1}
  OdomValue = {0, 1}
  MaxTime = 1
  StaleAge = 0
  OdomGap = 0
  MaxEpoch = 2
  MaxConfigures = 2
  None = None
INVARIANTS
  CorrectionFromOneInstant
  AlignHasTarget
PROPERTY PublishesCurrentCorrection
CHECK_DEADLOCK FALSE
