SPECIFICATION SessionSpec
CONSTANTS
  Wheel = {left}
  Speed = {0, 1, 2}
  MaxCommand = 1
  Malformed = Malformed
  Wrap = 6
  ControlPeriod = 2
  CommandTimeout = 3
  PingPeriod = 3
  StatePeriod = 2
  MaxResets = 1
INVARIANTS
  TypeOK
  WatchdogStops
  CommandBelongsToSession
  NothingLeaks
  EntitiesLive
PROPERTIES
  LeaseKept
  Reconnects
