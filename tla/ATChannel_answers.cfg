SPECIFICATION Spec
CONSTANTS
  Command = {"q", "s"}
  Text <- MCText
  TextOf <- QueryText
  Prefix <- MCPrefix
  PrefixOf <- MCPrefixOf
  URCPrefix <- MCURCPrefix
  Dial <- MCDial
  Prompting = {"s"}
  Suppressing = {"s"}
  NoCarrier = "NO CARRIER"
  None = "none"
  MaxQueue = 1
  Threshold = 2
  Echo = TRUE
  WriteMayFail = TRUE
  MaxResets = 0
  MaxUnsolicited = 1
INVARIANTS OwnAnswer AnswersReachCaller
PROPERTIES ChannelSettles
CHECK_DEADLOCK FALSE
