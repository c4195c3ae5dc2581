SPECIFICATION LearnSpec
CONSTANTS
  Pair = {p1, p2}
  Slots = 4
  Neurons = 2
  GrowthBatch = 2
  Overrun = 1
  MaxFree = 2
  StoreSlots = 3
  Ends = {"n1", "n2"}
  MaxCount = 2
  Tokens = 12
  SeqLen = 2
  PoolSize = 3
  BatchSize = 2
  Loss = {1, 2, 3}
  Levels = 1
  MaxEpoch = 4
  Cells = {0, 1}
  LayerOf <- OneLayer
  ONE = 12
  Window = 3
  TargetRate = 24
  MaxFactor = 15
  MinFactor = 1
  Pairs = {"p1", "p2"}
  Optima = {1, 2}
  MaxProtected = 2
  Eta = 10
  Theta = 8
  Rate = 5
  MinEta = 1
  MaxTheta = 12
  MaxRaises = 1
  MaxWindows = 2
  MaxTunings = 1
  Unit = 4
  Fine = 2
  TopTrace = 6
  TopW = 7
  ClampW = 6
  MinW = 2
  MaxSilence = 1
  Beat = 2
  MaxAge = 5
  Tau = 4
  Amps = {1, 2}
  Rewards = {0, 1, 2}
  Newborn <- NewWeights
  MaxTime = 12
  Spiking = {"a", "b"}
  Links <- OneLink
  Delay = 2
  LtdLevel = 2
  LtpLevel = 4
  TopCalcium = 5
  PlateauTerm = 2
  ClampE = 2
  MaxWeight = 2
  MaxNow = 3
  Pyramids = 4
  Winners = 2
  SwrDuration = 3
  Short = 2
  Long = 5
  HalfLife = 10
  MaxConsolidations = 3
  Significance = {8, 20}
  Hash = {0, 10, 30}
  MaxDist = 16
  MaxRecorded = 4
INVARIANTS
  SlotsAreExclusive
  TrainingHolds
PROPERTIES
  PoolIsSound
  WeightsFollowRules
  BalanceHolds
  MemoryHolds
CHECK_DEADLOCK FALSE
