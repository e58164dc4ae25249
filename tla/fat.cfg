CONSTANTS
  LastCluster = 6
  FatEntries = 4
  TableEntries = 1
  SectorPieces = 2
  Names = {"a", "b"}
  Pieces = {"p"}
  MaxSize = 3
  Sizes = {1, 2}
  Places = {0, 3}
  Modes <- MCModes
  Cards <- MCCards
  MaxCalls = 5
  MaxFaults = 1
SPECIFICATION Spec
INVARIANTS TypeOK TornOnlyWhenExposed FreeCountIsTrue WindowIsTrue
PROPERTY KeepsFiles
CHECK_DEADLOCK FALSE
