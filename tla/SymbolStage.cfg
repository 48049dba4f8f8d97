SPECIFICATION Spec
CONSTANTS
  Name <- Names
  Chain <- Chains
  Wanted <- Wanteds
  MaxDefs = 3
  MaxDepth = 1
  JUNK = JUNK
  NULL = NULL
INVARIANTS
  TypeOK
  SlicesClean
  PartsTogether
  NothingLost
PROPERTIES
  SymbolsStay
CHECK_DEADLOCK FALSE
