\* No noise, one command, and encoder interrupts at any time.
SPECIFICATION Spec
CONSTANTS
  Bits = {1, 2, 3}
  HEADER1 = {1}
  HEADER2 = {2, 3}
  Position <- SmallPosition
  CommandBytes = 10
  StatusBytes = 4
  PayloadBytes = {{}}
  MaxNoise = 0
  MaxChanges = 2
  None = None
INVARIANT VelocityIsRate
