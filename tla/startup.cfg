SPECIFICATION FairSpec
CONSTANTS
  W = 3
  P = 4
  MaxVolume = 2
  DefaultPort = 1
  Letters <- Characters
  CommandLines <- Typed
CHECK_DEADLOCK FALSE
INVARIANTS TypeOK Unwound ScmTold AsWritten
PROPERTY StopAnswered
