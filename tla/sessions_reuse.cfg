SPECIFICATION Spec
CONSTANTS
  Addrs = {1, 2}
  NoAddr = 0
  Worlds <- Reusing
CHECK_DEADLOCK FALSE
INVARIANT PointersLive
