\* One client fills and overfills three files, under each of the policies.
CONSTANTS
  Clients = {a}
  Files = {f, g, h}
  NoClient = NoClient
  NoFile = NoFile
  MaxMemory = 3
  MaxFiles = 3
  Sizes = {0, 1, 2}
  Workers = 1
  Mortal = {}
  Configs <- TestConfigs
  MaxUses = 3
  Coarse = TRUE
SYMMETRY Symmetric
SPECIFICATION PolicySpec
INVARIANTS
  PolicyTypeOK
  Capacity
  Accounting
  WriteModeIsFresh
PROPERTIES
  FilesLeaveForAReason
  PolicyIsFollowed
CHECK_DEADLOCK FALSE
