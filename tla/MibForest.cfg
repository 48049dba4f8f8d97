SPECIFICATION Spec
CONSTANTS
  Name <- Names
  Defined <- Main
  SymbolTables <- Tables
  MaxDefs = 3
  NULL = NULL
  JUNK = JUNK
  OidCap = 5
INVARIANTS
  TypeOK
  NodesInPlace
  OidsTrue
  SimpleTreesBecomeOne
PROPERTIES
  Terminates
