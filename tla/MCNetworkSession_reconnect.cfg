SPECIFICATION Spec
CONSTANTS
  PrefixSize = 2
  BodySizes <- SomeSizes
  JunkLengths <- SomeLengths
  Pieces = 2
  MaxJobs = 3
  MaxConnects = 2
INVARIANTS
  FramingInSync
CHECK_DEADLOCK FALSE
