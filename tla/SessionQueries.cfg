SPECIFICATION Spec
CONSTANTS
  Width = 6
  Inputs <- MCInputs
  BShared <- BSharedNames
INVARIANTS
  BlocksInOrder
  AggregatesGroup
  GapWindowsAreSessions
  ThresholdWindowsAreSessions
  SessionTotals
  WindowTotals
  DistinctCounted
PROPERTY RowsStayTogether
