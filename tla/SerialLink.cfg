\* Three bits, the headers each other's complement, room for two commands on the
\* line to the board, and one lost or changed byte.
SPECIFICATION FairSpec
CONSTANTS
  Bits = {1, 2, 3}
  HEADER1 = {1}
  HEADER2 = {2, 3}
  Position <- SmallPosition
  CommandBytes = 10
  StatusBytes = 4
  PayloadBytes = {{2}, {3}}
  MaxNoise = 1
  MaxChanges = 1
  None = None
INVARIANT AcceptedWasSent
PROPERTY LinkSettles
