\* A staging interrupted after another has already set UpdateReady.
SPECIFICATION Spec
CONSTANTS
  Image = {v1, v2, dud}
  Dud = {dud}
  MaxLosses = 3
INVARIANT
  BootBankIsWhole
