SPECIFICATION FairSpec
CONSTANTS
  w1 = w1 w2 = w2 Nobody = Nobody Other = Other
  AutoLabel = {1, 2}
  Train = {3}
  Executor = "api"
  Worker = {w1}
  Frames = 1
  MaxAttempts = 2
  Commits <- Each
  Poison = {}
  Cancels = {3}
  MayFail = FALSE
  LongWaits = FALSE
  OtherWork = TRUE
  StopInClaim = FALSE
  MaxCrashes = 1
  MaxStops = 0
  MaxLosses = 1
CHECK_DEADLOCK FALSE
INVARIANT ReapsOnlyDead
PROPERTY CancelSurvivesCrash
PROPERTY StuckRowClears
