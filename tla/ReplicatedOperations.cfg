SPECIFICATION FairSpec
CONSTANTS
  PartiesNum = 3
  Buffered = FALSE
  Width = 3
  Programs <- MCPrograms
  Data = {2, 5}
  Randoms <- MCRandoms
INVARIANTS
  TypeOK
  Replicated
  ResultsMatchPlain
PROPERTIES
  Terminates
CHECK_DEADLOCK FALSE
