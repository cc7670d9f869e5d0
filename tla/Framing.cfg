CONSTANTS
  ReadMax = 16
  BufLenth = 24
  Messages <- ThreeMessages
  Damages = {1}
  MaxFrames = 3
SPECIFICATION Spec
INVARIANTS TypeOK BackInStep
PROPERTIES UpgradeOnlyByCut
CHECK_DEADLOCK FALSE
