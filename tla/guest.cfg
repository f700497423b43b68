SPECIFICATION Spec
CONSTANTS
  Top = 6
  Addresses <- MCAddresses
  Devices <- MCDevices
  Aliases <- MCAliases
  PageSize = 2
  MaxRegions = 4
  MaxAccesses = 2
INVARIANTS OneMemory
PROPERTIES StopIsGuests
CHECK_DEADLOCK FALSE
