\* Empty and full data, up to two files back, a socket that holds two fields.
CONSTANTS
  Sizes = {0, 1}
  MaxBack = 2
  Room = 2
  MaxTorn = 0
  Timeout = 5000
  Interval = 2000
SPECIFICATION FairSpec
INVARIANTS
  TypeOK
  FramesAligned
  QuietBetweenCalls
  ResultIsVerdict
  NothingLeftOpen
PROPERTIES
  EveryCallReturns
  EveryEndIsNoticed
CHECK_DEADLOCK FALSE
