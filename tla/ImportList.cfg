SPECIFICATION Spec
CONSTANTS
  Keys <- KeySet
  size = 2
  hashFunc <- Hashes
  NULL = NULL
  StackSize = 2
  MaxItems = 4
  MaxClauses = 3
INVARIANTS
  TypeOK
  NothingDangles
  ListsAreOwn
CHECK_DEADLOCK FALSE
