CONSTANTS
  NumBlocks = 1
  PackMod = 3
  MaxRetry = 0
  WaitLimit = 2
  ResetLimit = 1
  CheckMod = 3
  LineCap = 1
  MaxOffers = 2
  Losable <- LoseSome
  Boards <- TwoBoards
SPECIFICATION FairSpec
PROPERTIES CallReturns SilentZcFreesLine
CHECK_DEADLOCK FALSE
