SPECIFICATION DaemonSpec
CONSTANTS
  Client = {c1, c2}
  Device = {d1}
  Shell = {s1}
  TTL = 1
  MaxTime = 2
  Nobody = Nobody
SYMMETRY Symmetry
INVARIANT GoneLeavesNoShell
CHECK_DEADLOCK FALSE
