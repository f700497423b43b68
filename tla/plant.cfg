SPECIFICATION Spec
CONSTANTS
  Ceilings = {1, 3, 5}
  Dt = 2
  Horizon = 6
INVARIANTS OnGrid
CHECK_DEADLOCK FALSE
