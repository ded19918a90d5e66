\* One wheel, positions on both sides of the jump limit, and timeouts of which
\* either can expire before the other.
SPECIFICATION FairSpec
CONSTANTS
  Wheel = {left}
  Speed = {0, 1}
  NotFinite = NotFinite
  Position <- SmallPositions
  StateTimeout = 2
  CommandTimeout = 1
  StartupTimeout = 2
  MaxRate = 1
  JumpSlack = 0
  MaxReach = 2
INVARIANTS
  TypeOK
  ActiveMatchesLifecycle
  StopIsLastWord
  NoLeftoverCommand
  OdometryWithinReach
PROPERTIES
  FaultLatched
  FaultTearsDown
  CallsReturn
