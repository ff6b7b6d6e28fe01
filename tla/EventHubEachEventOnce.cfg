\* One client, one fault (the connection that ends), no write fails.
SPECIFICATION Spec
CONSTANTS
  Clients = {c1}
  MaxBufferedEvents = 2
  MaxEvents = 3
  MaxFaults = 1
INVARIANT EachEventOnce
CHECK_DEADLOCK FALSE
