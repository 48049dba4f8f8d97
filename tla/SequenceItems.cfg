SPECIFICATION ItemSpec
CONSTANTS
  Seqs = {l, r}
  YYVAL = YYVAL
  Columns <- AllColumns
  x = x
  y = y
  Given <- Inserts
  NULL = NULL
SYMMETRY Alike
INVARIANTS
  ItemTypeOK
  ChainsAreOwn
PROPERTIES
  ItemsKeepPromises
CHECK_DEADLOCK FALSE
