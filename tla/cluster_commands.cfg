SPECIFICATION Spec
CONSTANTS
  Boards = {a, b}
  Margin = 2
  Threshold = 1
  A2nCap = 32
  N2aCap = 34
  HostOps <- AllOps
  UntilTimes = {1, 3}
  MaxCommands = 2
  MaxStartups = 2
  StepSpan = 1
  Horizon = 4
  MaxFaults = 0
SYMMETRY Symmetric
INVARIANTS NoRunBeforeBarrier ViewsAgree
PROPERTIES OnlySteppedMoves CapReachedByAll ConservativelySynchronised
CHECK_DEADLOCK FALSE
