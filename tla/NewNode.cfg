SPECIFICATION Spec
CONSTANTS
  Name <- Names
  Chain <- Chains
  Wanted <- Wanteds
  MaxDefs = 3
  MaxDepth = 1
  JUNK = JUNK
  NULL = NULL
INVARIANTS
  NewNodeExists
CHECK_DEADLOCK FALSE
