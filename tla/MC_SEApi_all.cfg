SPECIFICATION Spec
CONSTANTS
  Visitors = {v1}
  Holders = {h1}
  Loaders = {l1}
  OpenMayFail = TRUE
  MemoryMayFail = TRUE
  MaxOpened = 4
INVARIANTS
  OpenIffReferenced
  CountIsReferences
CHECK_DEADLOCK FALSE
