SPECIFICATION Spec
CONSTANTS
  Module = {"m", "a", "b", "old", "absent"}
  Type = {"T", "Counter32"}
  BuiltIn = {"Counter32"}
  Main = "m"
  Texts <- AllTexts
  Alias <- MCAlias
  ImportCap = 20
  SwitchCap = 5120
  OpenMax = 6
  NONE = NONE
INVARIANTS
  TypeOK
  StateFollowsFile
  SuspendedBuffersLive
  DocumentIsMainText
  ImportsResolved
  TypeErrorsTrue
PROPERTIES
  Terminates
  RespectsImports
CHECK_DEADLOCK FALSE
