SPECIFICATION FairSpec
CONSTANTS
  w1 = w1 w2 = w2 Nobody = Nobody Other = Other
  AutoLabel = {1, 2}
  Train = {3}
  Executor = "worker"
  Worker = {w1, w2}
  Frames = 2
  MaxAttempts = 2
  Commits <- Each
  Poison = {1}
  Cancels = {}
  MayFail = TRUE
  LongWaits = FALSE
  OtherWork = FALSE
  StopInClaim = FALSE
  MaxCrashes = 1
  MaxStops = 1
  MaxLosses = 0
CHECK_DEADLOCK FALSE
INVARIANT TypeOK
 
INVARIANT FrameOnce
PROPERTY EveryJobEnds
PROPERTY KeepsQueue
