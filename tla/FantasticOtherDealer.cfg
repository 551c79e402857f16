SPECIFICATION FairSpec
CONSTANTS
  PartiesNum = 4
  MaxAltered = 0
  Alterable = {}
  Buffered = TRUE
  Width = 3
  Programs <- MCOtherDealer
  Data = {5}
  Randoms <- MCRandom
PROPERTIES
  Terminates
CHECK_DEADLOCK FALSE
