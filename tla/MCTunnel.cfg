SPECIFICATION Spec
CONSTANTS
  c1 = c1
  u1 = u1
  NoOne = NoOne
  Conns <- OneConn
  Srcs <- OneSrc
  MaxLinks = 2
  MaxRead = 2
  MaxUdp = 1
INVARIANTS
  SessionInv
  OwnDataInOrder
PROPERTIES
  EndsTogether
  EndsWithLink
  Delivered
CHECK_DEADLOCK FALSE
