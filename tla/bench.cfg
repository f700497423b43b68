SPECIFICATION Spec
CONSTANTS
  RecvCap = 1
  MemCap = 1
  CsvCap = 2
  KeepBatches = 1
  Quantum = 1
  Holds <- MCHolds
  Limits <- MCLimits
  Scenes = {"hold", "live", "uart", "csv"}
INVARIANTS HoldOnTime ActionsInOrder StreamExact CsvAccounted
PROPERTIES LiveCatchesUp
