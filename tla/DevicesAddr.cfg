CONSTANTS
  Macs = {"lamp"}
  Addrs = {1, 5}
  AddrSize = 4
  SweptMacs = {"lamp"}
  ListSize = 1
  ControlNum = 1
  LineMax = 1
  MaxLost = 0
SPECIFICATION Spec
PROPERTIES FoundWhenUpdated
