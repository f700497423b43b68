SPECIFICATION Spec
CONSTANTS
  Boards = {a, b}
  Margin = 1
  Threshold = 1
  A2nCap = 2
  N2aCap = 1
  HostOps <- EndOps
  UntilTimes = {1}
  MaxCommands = 2
  MaxStartups = 2
  StepSpan = 1
  Horizon = 3
  MaxFaults = 1
SYMMETRY Symmetric
INVARIANTS SkewBounded StatusTimeSimulated
CHECK_DEADLOCK FALSE
