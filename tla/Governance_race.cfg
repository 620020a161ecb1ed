CONSTANTS
  det = det
  seg = seg
  tick = tick
  train = train
  p1 = p1
  p2 = p2
  cord = cord
  v1 = v1
  v2 = v2
  v3 = v3
  NoModel = NoModel
  Model = {v1, v2, v3}
  Task = {det, seg}
  Ticker = {}
  Trainer = {train}
  Person = {p1}
  Killer = {}
  Home <- HomeTwo
  MayName <- NamesAny
  Score <- ScoreRising
  Sound = {v1, v3}
  Seed = {v1}
SPECIFICATION Spec
INVARIANT OneChampion
INVARIANT ChampionSound
