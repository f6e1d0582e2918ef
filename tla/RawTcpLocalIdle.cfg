SPECIFICATION Spec
CONSTANTS
  d1 = d1
  d2 = d2
  Data <- OneBuffer
  NoBuf = NoBuf
  TIMEOUT = 2
  MaxReads = 1
PROPERTIES
  StopsOnlyWhenIdle
CHECK_DEADLOCK FALSE
