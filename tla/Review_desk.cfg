SPECIFICATION Spec
CONSTANTS
  o1 = o1 o2 = o2 ann = ann rev = rev c1 = c1 c2 = c2
  Object = {o1}
  Class = {c1, c2}
  Person = {ann, rev}
  Reviewer = {rev}
  InitialState = {"settled"}
  Checked = {TRUE, FALSE}
  MaxVersion = 3
  MaxRuns = 2
  MaxUndone = 1
CHECK_DEADLOCK FALSE
INVARIANT TypeOK
INVARIANT AcceptedNeedsReviewer
PROPERTY NoBlindEdit
PROPERTY LaterBatchStands
PROPERTY BatchComesBack
