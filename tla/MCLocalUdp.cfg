SPECIFICATION Spec
CONSTANTS
  r1 = r1
  r2 = r2
  c1 = c1
  c2 = c2
  Data <- OneEach
  NoBuf = NoBuf
  TIMEOUT = 2
  Srcs = {c1, c2}
  NoSrc = NoSrc
  Dests = {r1, r2}
  NoDest = NoDest
  MaxSession = 3
  MaxRequests = 3
  MaxPosted = 2
INVARIANTS
  QueueInv
  TablesAgree
  RepliesToOwner
PROPERTIES
  SentOrStopped
  Forgotten
CHECK_DEADLOCK FALSE
