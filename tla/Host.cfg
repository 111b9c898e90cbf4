SPECIFICATION HostSpec
CONSTANTS
  N = 2
  MaxAttempts = 2
  MaxLoops = 2
  Closer = {1, 2}
  Resettable = {1}
  None = 0
  Call = {"a", "o"}
  Opens = {"o"}
  Sock = {"s1", "s2"}
  MaxData = 1
  MaxChunk = 2
  Hasty = FALSE
  Undefined = "none"
  MaxLines = 2
  Retention = 1
  MaxRecords = 4
  MaxClock = 3
  MaxRuns = 3
INVARIANTS  OneLoopPerAdapter NothingReopened OwnAnswer CloseLeavesNothing ShellIsKnown
PROPERTIES QuietOnceClosed HostSettles
CHECK_DEADLOCK FALSE
