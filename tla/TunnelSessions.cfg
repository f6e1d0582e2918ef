SPECIFICATION Spec
CONSTANTS
  c1 = c1
  u1 = u1
  NoOne = NoOne
  Conns <- OneConn
  Srcs <- OneSrc
  MaxLinks = 1
  MaxRead = 1
  MaxUdp = 2
INVARIANT OneConnectionOneSession
CHECK_DEADLOCK FALSE
