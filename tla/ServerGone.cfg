\* A call that waits for a lock, and a server that ends meanwhile.
CONSTANTS
  Sizes = {0, 1}
  MaxBack = 1
  Room = 2
  MaxTorn = 0
  Timeout = 5000
  Interval = 2000
SPECIFICATION Spec
INVARIANT SuccessMeansAnswered
CHECK_DEADLOCK FALSE
