SPECIFICATION FairSpec
CONSTANTS
  HistSize = 3
  MaxBuf = 2
  DropPct = 40
  TargetExtra = 1
  AdjustDelay = 1
  ShrinkDelay = 2
  EmptyDelay = 1
  SilenceDelay = 1
  Threshold = 3
  MaxDiscont = 1
  Interp = 2
  LongMin <- Low
  LongMax <- High
  Sizes <- Two
  Stamps <- Sent
  Types <- Kinds
  MaxTime = 5
  MaxFrames = 4
CHECK_DEADLOCK FALSE
INVARIANTS TypeOK CacheExact FullInOrder VoiceForward
PROPERTY PollEnds
