SPECIFICATION ServicesRunSpec
CONSTANTS
  Caller = {"p", "q"}
  Apart = TRUE
  MaxRaised = 2
  MaxUses = 2
  OverlapEnable = FALSE
  Dialog = {"x", "y"}
  NoText = "no text"
  MaxCalls = 2
  MaxCommands = 2
  InitCommands = 5
  MaxReopens = 1
  MaxServiceUses = 4
  Session = {"r1", "r2"}
  Modem = {"m1", "m2"}
  Viewer = {"r1"}
  Nil = "nil"
  MaxNews = 1
  MaxBatch = 2
  Overlapping = FALSE
INVARIANTS ServicesSound ToolkitSound
PROPERTIES NoCarryOver CallsSettle
CHECK_DEADLOCK FALSE
