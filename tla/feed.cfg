SPECIFICATION FairSpec
CHECK_DEADLOCK FALSE
CONSTANTS
  None = None
  Frames <- MCFrames
  MaxTime = 6
  MaxTicks = 4
  Skew = 1
  MaxAttempts = 2
  MaxDeaths = 1
  Providers = {"live","fixture"}
  ResumePoints <- MCResumePoints
INVARIANTS WholeBars TapExact
PROPERTIES InOrderAndOnce EveryBarComes
