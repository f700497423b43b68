SPECIFICATION FairSpec
CONSTANTS
  Boards = {a, b}
  Margin = 1
  Threshold = 1
  A2nCap = 32
  N2aCap = 34
  HostOps <- RunOps
  UntilTimes = {1, 2}
  MaxCommands = 2
  MaxStartups = 1
  StepSpan = 1
  Horizon = 3
  MaxFaults = 0
PROPERTIES StatusTimeMonotone StopReachesNodes RunAdvances CappedRunEnds StepAnswered
CHECK_DEADLOCK FALSE
