SPECIFICATION LinksSpec
CONSTANTS
  Shell = {"a"}
  Stream = {"s"}
  MaxOutput = 1
  MaxWrites = 2
  Overlapping = FALSE
  None = "none"
  MaxOpens = 2
  MaxCloses = 2
  MaxPorts = 3
  MaxSessions = 4
  Length = 3
  SeqSpace = 6
  FirstSeq = 4
  Padding = {0}
  MaxFrames = 4
INVARIANTS AdbSound 
PROPERTIES LinksSettle
CHECK_DEADLOCK FALSE
