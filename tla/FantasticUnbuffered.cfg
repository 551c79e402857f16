SPECIFICATION FairSpec
CONSTANTS
  PartiesNum = 4
  MaxAltered = 0
  Alterable = {}
  Buffered = FALSE
  Width = 3
  Programs <- MCProduct
  Data = {5}
  Randoms <- MCRandom
PROPERTIES
  Terminates
CHECK_DEADLOCK FALSE
