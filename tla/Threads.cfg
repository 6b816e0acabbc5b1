\* Two workers, two clients, any signal at any time.
CONSTANTS
  NClients = 2
  Workers = {v, w}
SPECIFICATION FairSpec
INVARIANTS
  TypeOK
  OneHolder
  NoStrandedRequest
PROPERTIES
  RequestServed
  FastCloseStopsHandler
  SoftCloseEnds
CHECK_DEADLOCK FALSE
