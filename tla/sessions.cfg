SPECIFICATION FairSpec
CONSTANTS
  Addrs = {1, 2, 3}
  NoAddr = 0
  Worlds <- Both
CHECK_DEADLOCK FALSE
INVARIANTS TypeOK NoDangling PointersLive OrphansAreStrays
PROPERTY DeadCallEnds
