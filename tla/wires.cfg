SPECIFICATION WiredFairSpec
CONSTANTS
  Boards = {"a", "b"}
  Margin = 1
  Threshold = 2
  A2nCap = 32
  N2aCap = 34
  HostOps <- MCOps
  UntilTimes = {}
  MaxCommands = 2
  MaxStartups = 1
  StepSpan = 1
  Horizon = 2
  MaxFaults = 1
  Edges <- MCEdges
  RingLens = {1, 2}
  RxBatch = 1
  MaxFrames = 2
  MaxEvents = 2
INVARIANTS FramesInOrder
PROPERTIES FrameOnTime FramesDelivered
CHECK_DEADLOCK FALSE
