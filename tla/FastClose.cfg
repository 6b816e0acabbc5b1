\* A fast close stops every worker.
CONSTANTS
  NClients = 1
  Workers = {w}
SPECIFICATION FairSpec
PROPERTIES
  FastCloseStopsWorkers
CHECK_DEADLOCK FALSE
