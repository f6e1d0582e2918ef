SPECIFICATION ServerSpec
CONSTANTS
  MaxLinks = 2
  MaxQueue = 1
  Workers = 1
INVARIANTS
  ManagerInv
PROPERTIES
  EndsWithLink
  AcceptsAgain
CHECK_DEADLOCK FALSE
