SPECIFICATION Spec

CONSTANTS
  Requests = {r1, r2}
  Queries <- MCQueries
  NaN = NaN
  dbname = dbname
  MAX_LAT = 90
  MAX_LON = 180

INVARIANT StreamsExtract

\* All requests may be answered.
CHECK_DEADLOCK FALSE
