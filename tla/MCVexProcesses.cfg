SPECIFICATION FairSpec

CONSTANTS
  Loaders = {l1, l2}
  Extractors = {e1, e2}
  Disks = {disk}
  Memory = {memory}
  ELEMENTS = 1
  MAX_LOADS = 2

INVARIANTS
  TypeOK
  OneSnapshot
  LoadedOnce
  IInv

PROPERTIES
  LoadedStays
  ExtractionEnds
  LoadEnds
