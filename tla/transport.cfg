SPECIFICATION FairSpec
CONSTANTS
  Pager = Pager
  Server = Server
  M = 4
  Half = 2
  Window = 2
  Lifetime = 1
  Loads <- Mixed
CHECK_DEADLOCK FALSE
INVARIANTS TypeOK NothingForgotten
PROPERTIES ChannelImplemented Settled
