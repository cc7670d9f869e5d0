CONSTANTS
  NumBlocks = 1
  PackMod = 3
  MaxRetry = 0
  WaitLimit = 50
  ResetLimit = 2
  CheckMod = 3
  LineCap = 2
  MaxOffers = 1
  Losable = {}
  Boards <- OneBoard
SPECIFICATION Spec
PROPERTIES FailureMeansNotInstalled
CHECK_DEADLOCK FALSE
