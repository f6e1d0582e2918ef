SPECIFICATION Spec
CONSTANTS
  d1 = d1
  d2 = d2
  Data <- TwoBuffers
  NoBuf = NoBuf
  TIMEOUT = 2
  MaxReads = 1
INVARIANTS
  QueueInv
  HandshakeInOrder
PROPERTIES
  ImplementsPipe
  EndsClosed
CHECK_DEADLOCK FALSE
