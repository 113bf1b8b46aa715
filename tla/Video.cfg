SPECIFICATION FairSpec
CONSTANTS
  NaN = NaN
  Sizes <- SmallFiles
  Chunk = 2
  TokenTtl = 2
  Beyond = 2
INVARIANTS TypeOK Assembled LengthHonest
PROPERTIES FetchCompletes
CHECK_DEADLOCK FALSE
