SPECIFICATION FairSpec
CONSTANTS
  l1 = l1 l2 = l2 l3 = l3 smp = smp smq = smq a = a b = b e1 = e1 e2 = e2
  daemon = daemon manual = manual night = night desk = desk worker = worker request = request
  Lot = {l1}
  Object = {smp, smq, a, b}
  Epoch = {e1}
  RunId = {1, 2, 3, 4}
  Ticker = {daemon}
  Planner = {night}
  Reverter = {worker}
  EpochOf <- OneEpoch
  Chunk <- TwoDrives
  Draw <- PairFirst
  SampleSize = 2
  Spot = {a}
  MinPopulation = 2
  Tier = "default"
  Fitted = {e1}
  Ruled = {smp, smq}
  Batches = {}
  Clicks = {}
  Hand = {}
  MaxCrashes = 2
PROPERTY AllowedLotSettles
