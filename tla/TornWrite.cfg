\* A write of a file that cannot be read, and what the calls after it return.
CONSTANTS
  Sizes = {0, 1}
  MaxBack = 1
  Room = 2
  MaxTorn = 0
  Timeout = 5000
  Interval = 2000
SPECIFICATION Spec
INVARIANT SuccessMeansServed
CHECK_DEADLOCK FALSE
