SPECIFICATION Spec
CONSTANTS
  Pager = Pager
  Server = Server
  M = 4
  Half = 2
  Window = 2
  Lifetime = 1
  Loads <- OneWay
CHECK_DEADLOCK FALSE
INVARIANT GapIsReported
