CONSTANTS
  SlotNum = 2
  Producers = {"app", "sender"}
  Fills <- TwoFills
  MaxRequests = 3
  MonitorEvery = 2
  ControlAfter = 1
  ControlWrap = 2
  MaxUpgrades = 1
SPECIFICATION GatewayFairSpec
INVARIANTS GatewayTypeOK AtMostOnce HeaderWhole LostOnlyByOverlap StrayBounded
PROPERTIES SlotsCleared SweepsRecur
