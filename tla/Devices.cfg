CONSTANTS
  Macs = {"lamp", "lock"}
  Addrs = {1, 2}
  AddrSize = 4
  SweptMacs = {"lamp"}
  ListSize = 2
  ControlNum = 1
  LineMax = 2
  MaxLost = 1
SPECIFICATION FairSpec
INVARIANTS TypeOK SenderFound ListFollows OfflineIsMeant
PROPERTIES BackOnLine
