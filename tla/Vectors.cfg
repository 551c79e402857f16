SPECIFICATION Spec
CONSTANTS
  Sizes <- MCSizes
  BatchSizes = {1, 2, 3}
  ThreadsNums = {1, 2, 3}
  WordBits = 5
  MaxViews = 2
INVARIANTS
  Partition
  Balanced
  ViewsShow
  AssignedThroughView
  CompressedReturns
