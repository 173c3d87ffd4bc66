SPECIFICATION FairSpec
CONSTANTS
  None = None
  Known <- MCKnown
  Polite = TRUE
  MaxMessages = 4
  MaxEvents = 2
CHECK_DEADLOCK FALSE
INVARIANTS TypeOK Framed StreamInOrder
PROPERTIES IsQueue RequestsAnswered GoneNoticed
