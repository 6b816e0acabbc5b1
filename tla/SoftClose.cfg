\* A soft close waits for the clients.
CONSTANTS
  NClients = 2
  Workers = {w}
SPECIFICATION Spec
INVARIANTS
  SoftCloseWaits
CHECK_DEADLOCK FALSE
