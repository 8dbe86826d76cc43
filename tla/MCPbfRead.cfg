SPECIFICATION Spec

CONSTANTS
  Files <- MCFiles
  CallbackSets <- MCCallbacks
  NoDense = NoDense
  MAX_TAGS = 2
  SLAB_SIZE = 4
  GRANULARITY = 10
  LAT_OFFSET = 3

INVARIANTS
  TypeOK
  PrefixInOrder
  NothingMissed
  FailsOnBadBlob

\* Reading a file ends.
CHECK_DEADLOCK FALSE
