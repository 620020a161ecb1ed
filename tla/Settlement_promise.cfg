SPECIFICATION Spec
CONSTANTS
  l1 = l1 l2 = l2 l3 = l3 smp = smp smq = smq a = a b = b e1 = e1 e2 = e2
  daemon = daemon manual = manual night = night desk = desk worker = worker request = request
  Lot = {l1, l2}
  Object = {smp, a, b}
  Epoch = {e1}
  RunId = {1, 2, 3, 4}
  Ticker = {daemon}
  Planner = {night}
  Reverter = {worker, request}
  EpochOf <- OneEpoch
  Chunk <- TwoDrives
  Draw <- InOrder
  SampleSize = 1
  Spot = {a}
  MinPopulation = 2
  Tier = "safety"
  Fitted = {e1}
  Ruled = {}
  Batches <- OneGrid
  Clicks = {}
  Hand = {}
  MaxCrashes = 0
SYMMETRY AnyLot
INVARIANT SafetyLotWasAcked
 
