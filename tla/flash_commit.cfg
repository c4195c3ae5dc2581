\* Three captures are one for the boot and one to program over it, and one to
\* boot with when power was lost.
SPECIFICATION Spec
CONSTANTS
  State = {w1}
  Fresh = Fresh
  Junk = Junk
  MaxSaves = 3
  MaxEpoch = 0
PROPERTY
  CommittedIsRestored
