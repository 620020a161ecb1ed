SPECIFICATION FairSpec
CONSTANTS
  w1 = w1 w2 = w2
  Kinds = {"error_sweep", "relabel_all", "reanalyze_all", "drivable_backfill"}
  Units = {1, 2, 3, 4, 5, 6}
  Window = 4
  Streak = 2
  Bad = {2}
  OutageIn = {"error_sweep", "relabel_all", "drivable_backfill"}
  MayTrain = {"launch"}
  Worker = {w1}
  MaxClicks = 1
  MaxCrashes = 3
  MaxOutages = 2
CHECK_DEADLOCK FALSE
INVARIANT TypeOK
 
INVARIANT WholeScopeRead
PROPERTY NoRework
PROPERTY EndsUnlessStranded
