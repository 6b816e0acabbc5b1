\* One list of each kind, up to four nodes, two values that may repeat.
SPECIFICATION Spec
CONSTANTS
  Value   = {v1, v2}
  Address = {a1, a2, a3, a4}
  NULL    = NULL
INVARIANTS
  ListIsWhole
  TailFollows
PROPERTIES
  ImplementsList
\* A list used through a wrong tail has no defined next step.
CHECK_DEADLOCK FALSE
