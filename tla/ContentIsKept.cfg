\* A file that stays stored never shrinks.
CONSTANTS
  Clients = {a}
  Files = {f}
  NoClient = NoClient
  NoFile = NoFile
  MaxMemory = 4
  MaxFiles = 1
  Sizes = {1, 2}
  Workers = 2
  Mortal = {}
SPECIFICATION Spec
PROPERTIES
  ContentIsKept
CHECK_DEADLOCK FALSE
