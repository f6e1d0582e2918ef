SPECIFICATION TproxySpec
CONSTANTS
  d1 = d1
  d2 = d2
  Data <- TwoBuffers
  NoBuf = NoBuf
  TIMEOUT = 2
  MaxReads = 1
INVARIANTS
  QueueInv
PROPERTIES
  ImplementsPipe
  EndsClosed
  Served
CHECK_DEADLOCK FALSE
