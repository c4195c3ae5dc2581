SPECIFICATION DeviceSpec
CONSTANTS
  Image = {v1, v2, dud}
  Dud = {dud}
  MaxLosses = 0
  IdleLimit = 3
  Work = 3
  EnergyPeriod = 6
  CyclePeriod = 24
  ForcePeriod = 24
  SavePeriod = 48
  SimSteps = 3
  ShortRest = 12
  LongRest = 18
  Horizon = 48
INVARIANT DreamsStayInside
