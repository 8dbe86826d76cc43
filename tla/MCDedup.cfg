SPECIFICATION Spec

CONSTANTS
  s1 = s1
  s2 = s2
  s3 = s3
  s4 = s4
  s5 = s5
  Strings <- MCStrings
  SIZE = 2
  Hash <- MCHash
  NULL = NULL

INVARIANTS
  TypeOK
  OneToOne
PROPERTY RefinesStringTable
