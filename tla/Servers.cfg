SPECIFICATION Spec
CONSTANTS
  NumRobots = 3
  Cells <- MCCells
  Walkable <- MCCells
  TcpClients = {"t1", "t2", "t3"}
  Browsers = {"b1", "b2"}
  Fields <- MCFields
  Crowds <- MCCrowds
  Script <- MCScript
INVARIANTS
  TypeOK
  AtMostOneLate
  QuietBeforeRobots
  ObeysWhatWasSent
PROPERTIES
  
  
  StopReturns
CHECK_DEADLOCK FALSE
