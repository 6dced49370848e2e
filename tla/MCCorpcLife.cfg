SPECIFICATION FairSpec
CONSTANTS
  Opened = {o1}
  Accepted = {a1}
  Ports = {p1, p2}
  MaxPorts = 1
  MaxStreams = 2
  MaxHeld = 2
INVARIANT HandlesAreValid
PROPERTY FreedAtLast
CHECK_DEADLOCK FALSE
