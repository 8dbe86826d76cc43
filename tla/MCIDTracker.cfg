SPECIFICATION Spec

CONSTANTS
  BIN_SIZE = 3
  N_BINS = 3
  INT_WIDTH = 8
  Ids <- MCIds

INVARIANT TypeOK
PROPERTY RefinesIdSet
CHECK_DEADLOCK FALSE
