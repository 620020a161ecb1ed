SPECIFICATION FairSpec
CONSTANTS
  r1 = r1 r2 = r2 car = car bus = bus out = out
  Objects = {1, 2, 3, 4}
  Size = 2
  Label = {car, bus}
  Out = out
  Runner = {r1}
  Moves = {"leave", "relabel"}
  Patient = TRUE
  MaxEdits = 2
  MaxCrashes = 1
  MaxFails = 1
  MaxCancels = 1
CHECK_DEADLOCK FALSE
INVARIANT TypeOK
INVARIANT SkippedIsWritten
INVARIANT ShardsAreTheArchive
PROPERTY ListedExportEnds
