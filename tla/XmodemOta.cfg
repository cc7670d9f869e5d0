CONSTANTS
  NumBlocks = 4
  PackMod = 3
  MaxRetry = 1
  WaitLimit = 2
  ResetLimit = 2
  CheckMod = 3
  LineCap = 1
  MaxOffers = 1
  Losable <- LoseSome
  Boards <- OneBoard
SPECIFICATION Spec
INVARIANTS TypeOK RecordsFaithful BlocksInOrder NotAbandonedMidImage FirstUploadHonest
PROPERTIES ImplementsTransfer
CHECK_DEADLOCK FALSE
