SPECIFICATION Spec
CONSTANTS
  Command = {"p1", "p2", "d"}
  Text <- MCText
  TextOf <- QueryText
  Prefix <- MCPrefix
  PrefixOf <- MCPrefixOf
  URCPrefix <- MCURCPrefix
  Dial <- MCDial
  Prompting = {}
  Suppressing = {}
  NoCarrier = "NO CARRIER"
  None = "none"
  MaxQueue = 2
  Threshold = 2
  Echo = FALSE
  WriteMayFail = TRUE
  MaxResets = 1
  MaxUnsolicited = 0
INVARIANTS NoOrphan
PROPERTIES ImplementsExecutor
CHECK_DEADLOCK FALSE
