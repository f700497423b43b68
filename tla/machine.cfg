SPECIFICATION FairSpec
CONSTANTS
  Ceilings = {1, 4}
  MaxQuantum = 2
  Periods = {0, 1, 2, 3}
  Delays = {0, 2}
  MaxEvents = 3
  Horizon = 4
INVARIANTS MachineConsistent EventsTimely FiredInOrder
PROPERTIES KeepsGuestClock ReachesCeiling StepEnds
CHECK_DEADLOCK FALSE
