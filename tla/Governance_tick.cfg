CONSTANTS
  det = det
  seg = seg
  tick = tick
  train = train
  p1 = p1
  p2 = p2
  cord = cord
  v1 = v1
  v2 = v2
  v3 = v3
  NoModel = NoModel
  Model = {v1, v2, v3}
  Task = {det}
  Ticker = {tick}
  Trainer = {}
  Person = {}
  Killer = {cord}
  Home <- HomeOne
  MayName <- NamesOne
  Score <- ScoreRising
  Sound = {v1, v2, v3}
  Seed = {v1}
SPECIFICATION FairSpec
INVARIANT TypeOK
PROPERTY PromotionBeatsReplaced
PROPERTY NeverSilentlyRearmed
PROPERTY ChampionNotLost
PROPERTY DriftPauseLifts
