SPECIFICATION CalmSpec
CONSTANTS
  Key = {k1, k2}
  Waiter = {}
  MaxRetries = 1
  MaxObj = 2
  MaxPipe = 3
  MaxAttach = 2
  MaxStart = 1
  None = None
INVARIANT StoppedIsClosed
CHECK_DEADLOCK FALSE
