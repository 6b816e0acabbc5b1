\* Two clients share a store that overflows while they wait for locks, and each turn
\* of the loops that replace files is a step.
CONSTANTS
  Clients = {a, b}
  Files = {f, g}
  NoClient = NoClient
  NoFile = NoFile
  MaxMemory = 2
  MaxFiles = 2
  Sizes = {1, 2}
  Workers = 2
  Mortal = {}
SYMMETRY Symmetric
SPECIFICATION LoopSpec
INVARIANTS
  LockDiscipline
  OneAnswerEach
  GrantsAreTrue
  ReadsAreIsolated
  Accounting
PROPERTIES
  LoopIsOneStep
  LocksAreServed
CHECK_DEADLOCK FALSE
