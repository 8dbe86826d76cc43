SPECIFICATION FairSpec

CONSTANTS
  WAY_BLOCK_SIZE = 2
  MAX_WAY_BLOCKS = 4
  north = north
  south = south
  Cells = {north, south}
  NoCell = NoCell
  WayIds = {1, 2, 3, 4, 5, 6}
  CellOf <- MCCellOf
  NoAnswer = NoAnswer

INVARIANTS
  TypeOK
  FreeSlotCertain
  ScanExact
  NoWayTwice
  ChainsIntact
  IInv

PROPERTIES
  ScanEnds
  RefinesIndex
