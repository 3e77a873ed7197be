SPECIFICATION Spec
CONSTANTS
  M = 32
  Expire = 3
  RetryTime = 2
  Delays <- Soon
  MaxTime = 7
  MaxPackets = 2
CHECK_DEADLOCK FALSE
INVARIANT RegistrationAwaited
