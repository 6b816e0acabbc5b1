\* The lists of the store are used as linked_list.h defines them.
CONSTANTS
  Clients = {a, b}
  Files = {f}
  NoClient = NoClient
  NoFile = NoFile
  MaxMemory = 1
  MaxFiles = 1
  Sizes = {0}
  Workers = 2
  Mortal = {}
SYMMETRY Symmetric
SPECIFICATION Spec
INVARIANTS
  HeapSound
CHECK_DEADLOCK FALSE
