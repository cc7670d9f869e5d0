CONSTANTS
  MonitorNum = 2
  ControlNum = 1
  MaxResend = 2
  ResendAfter = 1
  OfflineAfter = 2
  Targets <- OneDevice
  Commands = {"ONOFF", "WD", "PERMIT_JOIN", "SET_ZC_TO_FACTORY", "LEAVE_DEV", "WRITE_ATTR", "BIND"}
  MaxRequests = 2
SPECIFICATION FairSpec
INVARIANTS TypeOK SentBounded UnacceptedLatest
PROPERTIES ForgottenForGood EntriesFreed ControlsFreed
