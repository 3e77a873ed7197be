SPECIFICATION Spec
CONSTANTS
  Pager = Pager
  Phone = Phone
  Bridge = Bridge
  Outside = Outside
  ToPager = ToPager
  ToPhone = ToPhone
  Nobody = Nobody
  M = 16
  Half = 8
  Plans <- Tried
CHECK_DEADLOCK FALSE
INVARIANTS TypeOK Recognised OldFramesHeldBack DirectReliable
PROPERTY HandoverImplemented
