SPECIFICATION FairSpec
CONSTANTS
  PartiesNum = 4
  MaxAltered = 1
  Alterable <- MCCompared
  Buffered = TRUE
  Width = 3
  Programs <- MCAll
  Data = {2, 5}
  Randoms <- MCRandom
INVARIANTS
  TypeOK
  Replicated
  NoMessageLeft
  ResultsMatchPlain
  NobodyAccused
PROPERTIES
  TerminatesUnaltered
CHECK_DEADLOCK FALSE
