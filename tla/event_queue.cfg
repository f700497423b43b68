SPECIFICATION QueueSpec
CONSTANTS
  Times = {0, 1, 2}
  MaxEvents = 4
PROPERTIES QueueIsPendingEvents
