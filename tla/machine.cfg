SPECIFICATION MachineSpec
CONSTANTS
  State = {n1, n2}
  Fresh = fresh
  Junk = junk
  MaxSaves = 5
  MaxEpoch = 1
  Fold = 2
  ClockWrap = 5
  Factors = {0, 3}
  MaxIrqs = 6
  UpdatePeriod = 2
  DreamTerm = 3
  DreamPause = 2
  MaxSteps = 10
  Plan <- TwoBuses
  Outputs = 2
  FirstMotor = 3
  MaxRounds = 2
  Chars = {0, 2}
  Mask = 2
  Spacing = 1
  Ring = 2
  RhythmWrap = 2
  Sensors = {0, 1, 2}
  Fields = 2
  Readings = {0, 60, 61}
  Threshold = 50
  MinDelta = 1
  Commands = {0, 1}
  SensorBase = 4
  ProprioBase = 8
  InternalBase = 9
  MaxNow = 3
  MaxSpikes = 3
  Words = 2
  Bits = 3
  Contents <- TwoWords
  Sums = {0, 3, 5}
  Slots = 3
  MaxBad = 1
  MaxMoves = 2
  RollbackAfter = 1
  ResetAt = 3
  MaxFlips = 2
  MaxCalls = 4
  Motors = {0, 1, 2}
  Places = 2
  Feelings = {0, 3}
  Surprise = 2
  Cooldown = 2
  ManySamples = 2
  FewSamples = 1
  MaxSamples = 4
  TraceSize = 5
  MaxEdges = 3
  Tracks = 1
  Neurons = {"n1", "n2"}
  Layer <- Layered
  Pauses = {0, 6}
  MaxFired = 5
  MaxRuns = 2
  Frac = 8
  Limit = 4
  Dim = 9
  Loads <- ThreeLoads
INVARIANTS
  SlotsAreSound
  TimeHolds
  SensingHolds
  ArithmeticHolds
  RecordIsTrue
PROPERTIES
  RestoredIsNewest
  MonitorsHold
CHECK_DEADLOCK FALSE
