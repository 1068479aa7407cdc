CONSTANTS
  Clients = {}
  MaxSpurious = 2
SPECIFICATION Spec
PROPERTY ShutdownReturns
CHECK_DEADLOCK FALSE
