CONSTANTS
  MaxAborts = 3
  MaxPulls = 0
SPECIFICATION Spec
PROPERTY CountOnlyResetsUponPowerLoss
