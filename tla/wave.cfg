SPECIFICATION FairSpec
CONSTANTS
  Buffers = 3
  Events = {e1, e2, e3, e4}
  NoEvent = NoEvent
  Waves <- Settings
  DeviceFails = TRUE
INVARIANTS TypeOK RingExact EventsOwned NoLostCompletion VolumeRecoverable CleanExit
INVARIANTS BlocksInsideTone ToneContinuous
PROPERTIES ToneEnds
