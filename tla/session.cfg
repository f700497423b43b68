SPECIFICATION Spec
CONSTANTS
  MaxTokens = 3
  MaxGaveUp = 1
  LogCap = 1
  HostSlots = 2
  Clients = {"a", "b"}
  Limits <- MCLimits
  Scenes = {"viewers", "status", "log", "gdb", "delete"}
INVARIANTS StreamHoldsViewer LogsGapless
PROPERTIES ViewerReleased StatusReaches BreaksCleared
CHECK_DEADLOCK FALSE
