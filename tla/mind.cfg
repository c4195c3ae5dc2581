\* Periods divided down in the order the code has them; levels are the ends of
\* their range and the thresholds between.
SPECIFICATION MindSpec
CONSTANTS
  Width = 2
  Vocab <- MCVocab
  MaxSeqLen = 3
  TimeSteps = 4
  Current <- MCCurrent
  Wq <- MCQ
  Wk <- MCK
  Wv <- MCV
  Wo <- MCO
  W1 <- MC1
  W2 <- MC2
  WHead <- MCHead
  Client = {a, b}
  Command = {"perceive", "synthesize", "train", "dataset", "eval"}
  Cap = 2
  MaxRequests = 3
  Hello <- MCHello
  World <- MCWorld
  Stream <- MCStream
  Prompt <- MCPrompt
  MaxNew = 2
  End = {0}
  Tokens <- MCTokens
  SeqLen = 1
  Levels = {0, 40, 80, 100}
  Pressure = {0, 100}
  AttnPeriod = 2
  ShiftInterval = 6
  MinDwell = 3
  MaxDwell = 5
  Rules = {hard, soft}
  Soft = {soft}
  LayerIn <- Layout
  TopLayer = 2
  Voltages = {0, 1}
  Common = {9}
  Biases = {50}
  SalPeriod = 2
  Shift = 3
  Half = 1
  BottomUp = 50
  TopDown = 50
  Acts = {0, 1}
  Hashes = {7}
  Reach = 5
  MaxPatterns = 2
  Offsets = {1}
  Targets = {0, 1}
  MaxMs = 3
  MaxEvents = 4
  Layers <- FourLayers
  Looks = 2
  History = 8
  Actions = 3
  Hypotheses = 2
  Banks = 2
  Prototypes = 2
  Buckets = 2
  HashSpan = 4
  Potentials = {0, 100}
  Energy = {20}
  MaxTime = 1
  MaxCycles = 2
  PredErrors = {0, 400}
  MaxError = 400
  Percents = {0, 100}
  Rates = {100}
  ModePeriod = 2
  CalPeriod = 4
  AdaptTerm = 1
  MaxSteps = 5
  Relays = 3
  Striosomes = 4
  Slices = 2
  Matrix = 16
  Cols = 2
  Purkinje = 2
  Rise = 50
  Rhythm = 7
  Pulse = 4
  Beat = 2
  StrioPeriod = 2
  AstroPeriod = 1
  CerebPeriod = 4
  Attentions = {0, 100}
  Errors = {0, 5, 40}
  Dopamines = {0, 100}
  Precision = 4
  Dt = 100
  MaxTick = 6
SYMMETRY ClientSymmetry
INVARIANTS
  StepsAreCounted
  EvalIsIsolated
  SafetyPrevails
  FocusIsInhabited
  CyclesAreLearnt
  SignalsAreFlat
  TimeIsKept
PROPERTIES
  WholeIsAnswered
  OverrideNeedsQuiet
CHECK_DEADLOCK FALSE
