SPECIFICATION Spec
CONSTANTS
  MaxTokens = 3
  MaxGaveUp = 1
  LogCap = 1
  HostSlots = 2
  Clients = {"a", "b"}
  Limits <- MCRace
  Scenes = {"delete"}
PROPERTIES NoCommandUnderGdb
CHECK_DEADLOCK FALSE
