SPECIFICATION Spec
CONSTANTS
  d1 = d1
  d2 = d2
  Data <- TwoBuffers
  NoBuf = NoBuf
  TIMEOUT = 2
  MaxReads = 1
INVARIANTS
  TypeOK
  OneWriter
  NoLostWakeup
PROPERTIES
  ImplementsPipe
  DeliveredOrStopped
  ClosedIsAnnounced
  Reclaimed
CHECK_DEADLOCK FALSE
