SPECIFICATION FairSpec
CONSTANTS
  Trees <- AllTrees
  SIZE_OF_QUEUE = 4
INVARIANTS
  TypeOK
  ShownInOrder
  HeadingsTrue
PROPERTIES
  TravelReturns
CHECK_DEADLOCK FALSE
