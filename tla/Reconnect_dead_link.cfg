SPECIFICATION Spec
CONSTANTS
  N = 2
  MaxAttempts = 2
  MaxLoops = 2
  Closer = {c1}
  Resettable = {}
  None = 0
PROPERTIES ReconnectedIsOpen
CHECK_DEADLOCK FALSE
