SPECIFICATION Spec
CONSTANTS
  Clients = {c1}
  MaxBufferedEvents = 2
  MaxEvents = 3
  MaxFaults = 0
INVARIANT CleanEndIsComplete
CHECK_DEADLOCK FALSE
