SPECIFICATION Spec
CONSTANTS
  Width = 6
  Inputs <- EnergyInputs
  BShared <- BSharedNames
INVARIANT WindowTotals
