SPECIFICATION FairSpec
CONSTANTS
  PartiesNum = 3
  ThreadsNum = 2
  BatchSize = 3
  Factor = 2
  Operations <- MCOperations
INVARIANTS
  ArrivesInPlace
  ReceivedWhole
  NothingLeft
PROPERTIES
  AllCallsReturn
CHECK_DEADLOCK FALSE
