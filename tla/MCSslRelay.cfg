SPECIFICATION Spec
CONSTANTS
  Data <- TwoRequests
  NoBuf = NoBuf
  TIMEOUT = 2
  MaxReads = 1
INVARIANTS
  QueueInv
PROPERTIES
  ImplementsPipe
  SentOrStopped
  LetGoEnds
  ManagerEndsWithLink
CHECK_DEADLOCK FALSE
