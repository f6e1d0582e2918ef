SPECIFICATION ServerSpec
CONSTANTS
  MaxLinks = 1
  MaxQueue = 1
  Workers = 1
INVARIANTS
  ManagerNotNull
CHECK_DEADLOCK FALSE
