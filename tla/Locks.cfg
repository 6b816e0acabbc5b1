\* Three clients contend for the lock of one file; one may die waiting.
CONSTANTS
  Clients = {a, b, c}
  Files = {f}
  NoClient = NoClient
  NoFile = NoFile
  MaxMemory = 1
  MaxFiles = 1
  Sizes = {0}
  Workers = 2
  Mortal = {c}
SPECIFICATION FairSpec
INVARIANTS
  TypeOK
  LockDiscipline
  OneAnswerEach
  DepartedHoldNothing
  GrantsAreTrue
  ReadsAreIsolated
PROPERTIES
  LocksAreServed
  EveryRequestAnswered
CHECK_DEADLOCK FALSE
