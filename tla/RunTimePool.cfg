SPECIFICATION FairSpec
CONSTANTS
  ThreadsNum = 3
  BatchSize = 2
  Sizes <- MCSizes
  MaxCalls = 2
INVARIANTS
  IInv
  ReturnIsComplete
  TaskNotInUse
  RunsCurrentTask
  NoLostUnlock
  KeepRunningNotRaced
  AppliedAtMostOnce
PROPERTIES
  CallReturns
  DestructorReturns
  ImplementsCall
CHECK_DEADLOCK FALSE
