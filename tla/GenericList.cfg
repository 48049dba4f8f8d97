SPECIFICATION Spec
CONSTANTS
  Lists = {l, r}
  Elements <- Elems
  x = x
  y = y
  Given <- Inserts
  NULL = NULL
  WILD = WILD
  Overwritten <- Spoilt
  sx = sx
  sy = sy
SYMMETRY Alike
INVARIANTS
  TypeOK
  Apart
PROPERTIES
  CallsKeepPromises
CHECK_DEADLOCK FALSE
