CONSTANTS
  Kinds = {"SD1", "SD2", "MMC"}
  MaxBlocks = 2
  MaxCards = 2
  InitTicks = 3
  ReadyTicks = 2
  DataTicks = 1
SPECIFICATION Spec
INVARIANTS TypeOK NoStaleCard WriteOkMeansAccepted StatSettles
PROPERTY EveryCallReturns
