CONSTANTS
  MonitorNum = 2
  ControlNum = 1
  MaxResend = 2
  ResendAfter = 1
  OfflineAfter = 2
  Targets <- OneDevice
  Commands = {"LEVEL"}
  MaxRequests = 1
SPECIFICATION Spec
PROPERTIES NoDevDeletesLevel
