SPECIFICATION LinkSpec
CONSTANTS
  Wheel = {left}
  Speed = {0, 1}
  NotFinite = NotFinite
  Position = {0}
  StateTimeout = 1
  CommandTimeout = 1
  StartupTimeout = 0
  MaxRate = 1
  JumpSlack = 0
  MaxReach = 0
  MaxDelay = 1
  LeaseTime = 2
  StopTime = 1
  OpenDelay = 1
  MaxResets = 2
  MaxCommands = 2
  MaxStates = 1
INVARIANTS
  MotionIsRecent
  HaltReachesMotors
  OdometryInOneBoot
  ResetNeedsActivation
VIEW LinkView
