SPECIFICATION Spec
CONSTANTS
  d1 = d1
  d2 = d2
  Data <- TwoDatagrams
  NoBuf = NoBuf
  TIMEOUT = 2
  MaxReceived = 1
INVARIANTS
  QueueInv
PROPERTIES
  ImplementsPipe
  LetGoEnds
  DeadIsRemoved
CHECK_DEADLOCK FALSE
