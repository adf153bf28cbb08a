SPECIFICATION FairSpec
CONSTANTS
  PrefixSize = 2
  BodySizes <- SomeSizes
  JunkLengths <- SomeLengths
  Pieces = 4
  MaxJobs = 3
  MaxConnects = 3
INVARIANTS
  TypeOK
  InStepUntilLost
  LockedOnlyWhileWaiting
  ResponseMeetsItsCallback
PROPERTIES
  EveryJobEnds
CHECK_DEADLOCK FALSE
