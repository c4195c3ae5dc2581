SPECIFICATION Spec
CONSTANTS
  Pair = {p1, p2, p3}
  Slots = 4
  Neurons = 2
  GrowthBatch = 2
  Overrun = 1
  MaxFree = 2
INVARIANT
  MaintenanceReturns
