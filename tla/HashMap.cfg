SPECIFICATION Spec
CONSTANTS
  Keys <- KeySet
  Vals = {v, w}
  size = 2
  hashFunc <- Hashes
  NULL = NULL
INVARIANTS
  TypeOK
  KeysOnce
PROPERTIES
  IsMapWithHeads
CHECK_DEADLOCK FALSE
