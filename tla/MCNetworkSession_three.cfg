SPECIFICATION Spec
CONSTANTS
  PrefixSize = 2
  BodySizes <- SomeSizes
  JunkLengths <- SomeLengths
  Pieces = 3
  MaxJobs = 3
  MaxConnects = 1
INVARIANTS
  FramingInSync
CHECK_DEADLOCK FALSE
