SPECIFICATION Spec
CONSTANTS
  Tokens = 5
  SeqLen = 2
  PoolSize = 3
  BatchSize = 2
  Loss = {1, 2, 3}
  Levels = 1
  MaxEpoch = 4
INVARIANT BestIsPersisted
CHECK_DEADLOCK FALSE
