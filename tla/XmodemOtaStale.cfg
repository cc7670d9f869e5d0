CONSTANTS
  NumBlocks = 1
  PackMod = 3
  MaxRetry = 0
  WaitLimit = 1
  ResetLimit = 2
  CheckMod = 3
  LineCap = 2
  MaxOffers = 2
  Losable <- LoseSome
  Boards <- OneBoard
SPECIFICATION Spec
INVARIANTS VersionOnlyAfterUpload
CHECK_DEADLOCK FALSE
