SPECIFICATION Spec

CONSTANTS
  Extracts <- MCExtracts
  PBF_BLOCK_SIZE = 2
  MAX_KEYS_VALS = 7

INVARIANTS
  TypeOK
  DecodesAsWritten
  FileReadsBack
  ArraysInUse
  FullOfBuffered

\* An extraction ends.
CHECK_DEADLOCK FALSE
