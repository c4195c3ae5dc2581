SPECIFICATION DeviceSpec
CONSTANTS
  Image = {v1, v2, dud}
  Dud = {dud}
  MaxLosses = 3
  IdleLimit = 3
  Work = 3
  EnergyPeriod = 6
  CyclePeriod = 24
  ForcePeriod = 24
  SavePeriod = 48
  SimSteps = 3
  ShortRest = 12
  LongRest = 18
  Horizon = 48
INVARIANTS
  StagingSparesBootBank
  FallbackIsWhole
  SwitchDecided
  TurnsArePaced
  NoSimulationLeaks
PROPERTIES
  UpdateSettles
  LayersWake
