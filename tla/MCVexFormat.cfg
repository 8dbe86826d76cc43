SPECIFICATION Spec

CONSTANTS
  GROUP_BITS = 2
  WORD_BITS = 9
  COORD_RANGE = 256
  VARINT_BUF = 9
  none = none
  name = name
  text = text
  Strings <- MCStrings
  Length <- MCLength
  Streams <- MCStreams

INVARIANTS
  TypeOK
  VarintsFit
  StreamReadsBack
