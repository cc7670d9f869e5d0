CONSTANTS
  Apps = {"cloud", "local"}
  WaitNum = 2
  Keys <- LockKeys
  Devices = {"siren", "bell"}
  Durations = {2, 5}
  TimesMod = 4
  MaxCalls = 4
SPECIFICATION Spec
INVARIANTS TypeOK UserAskedForKey OneEntryPerKey WarningTimed ReportsWarned
PROPERTIES KeptUntilDone
CHECK_DEADLOCK FALSE
