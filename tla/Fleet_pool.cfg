SPECIFICATION CalmSpec
CONSTANTS
  Key = {k1}
  Waiter = {w1}
  MaxRetries = 1
  MaxObj = 2
  MaxPipe = 6
  MaxAttach = 3
  MaxStart = 1
  None = None
INVARIANTS DevicesDriven NobodyWaitsInVain
PROPERTIES OnlyAbsentDropped DevicesSettle
CHECK_DEADLOCK FALSE
