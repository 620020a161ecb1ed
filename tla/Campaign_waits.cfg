SPECIFICATION FairSpec
CONSTANTS
  d1 = d1 d2 = d2
  Driver = {d1}
  LabelBudget = 2
  MaxIterations = 2
  Patience = 1
  TargetValue = 2
  MinBatch = 1
  Object = {1, 2}
  Values = {0, 1, 2}
  RequireApproval = TRUE
  Autopilot = {"mine", "judge", "evaluate"}
  Careful = TRUE
  TickBlocked = TRUE
  JobsEnd = {"done", "error"}
  MaxCrashes = 0
  MaxFails = 0
  MaxStops = 0
  MaxSteps = 14
CHECK_DEADLOCK FALSE
PROPERTY CampaignEnds
