SPECIFICATION MCDevicesSpec
CONSTANTS
  Peer = {"p", "q"}
  TextName <- MCTextName
  TextOf <- MCTextOf
  FirstRef = 255
  MaxSent = 2
  Sleep = {0, 2, 59, 62, 620, 3600, 36000, 400000, 1152000}
  Awake = {0, 2, 62, 63, 100, 1860, 3600, 11160}
  Cycle = {100, 512, 1500, 2048, 3000, 100000, 1048576}
  Byte = {"a", "cr", "lf", ">", " "}
  PromptInLine = FALSE
  MaxBytes = 7
  MaxChunk = 3
  ModelLayers = TRUE
  MaxSteps = 4
  MaxNavigates = 2
  MaxPlugs = 2
  Stick = {1, 2}
  UserDisk = 3
  Dual = FALSE
  Located = {1}
  DiskWaits = 2
  PollAttempts = 1
  MaxUnplugs = 1
  MaxNodes = 4
  MaxModems = 3
  MaxTimeouts = 2
  Frequency = {200, 400, 1190}
  Target = 200
  Asker = {"a", "b", "c"}
  MaxLogins = 2
  PollSlots = {1, 2}
  MaxChanges = 2
  MaxLapses = 1
  MaxStops = 1
  MaxPolls = 2
INVARIANTS CodecsAgree SticksAreSwitched FoundRight ConnectedSoundly 
PROPERTIES ListedAsSent EachStepIsCheapest KeepsUp
CHECK_DEADLOCK FALSE
