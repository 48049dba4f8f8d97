SPECIFICATION RingSpec
CONSTANTS
  Data <- Rows
  SIZE_OF_QUEUE = 4
  NONE = NONE
INVARIANTS
  RingTrue
PROPERTIES
  IsFifo
