SPECIFICATION SharedSpec
CONSTANTS
  Client = {c1, c2}
  Device = {d1}
  Shell = {s1, s2}
  TTL = 1
  MaxTime = 2
  Nobody = Nobody
  Key = {k1}
  Waiter = {}
  MaxRetries = 1
  MaxObj = 2
  MaxPipe = 3
  MaxAttach = 3
  MaxStart = 2
  None = None
  Transport = {t1, t2}
  Duplex = {x1}
  MaxDevices = 2
  MaxErrors = 2
  MaxUsbOpens = 4
  NoDevice = 0
SYMMETRY Symmetry
INVARIANTS OpenIsManaged GoneLeavesNothing StrangersCameEarlier UsbShared OneVoice
PROPERTIES LeaseIsKept StallIsNoDeadEnd ClosedByTheLast
CHECK_DEADLOCK FALSE
