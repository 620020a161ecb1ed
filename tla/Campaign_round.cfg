SPECIFICATION FairSpec
CONSTANTS
  d1 = d1 d2 = d2
  Driver = {d1}
  LabelBudget = 3
  MaxIterations = 4
  Patience = 1
  TargetValue = 2
  MinBatch = 1
  Object = {1, 2, 3, 4}
  Values = {0, 1, 2}
  RequireApproval = TRUE
  Autopilot = {"mine", "judge", "evaluate"}
  Careful = TRUE
  TickBlocked = TRUE
  JobsEnd = {"done"}
  MaxCrashes = 1
  MaxFails = 1
  MaxStops = 1
  MaxSteps = 26
CHECK_DEADLOCK FALSE
INVARIANT TypeOK
INVARIANT LabelsCountedOnce
INVARIANT RetrainsPerIteration
PROPERTY CampaignEnds
