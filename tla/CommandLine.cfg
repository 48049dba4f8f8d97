SPECIFICATION Spec
CONSTANTS
  Words <- AllWords
  PathString <- Paths
  CommandLines <- Lines
  MaxArgs = 5
  NULL = NULL
INVARIANTS
  TypeOK
  NeverCrashes
  AcceptsValid
  ParsedAsWritten
CHECK_DEADLOCK FALSE
