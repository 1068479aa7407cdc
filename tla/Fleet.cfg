CONSTANTS
  Robots = {"r0", "r1"}
  Points = {"a", "b"}
  Adjacent <- MCPair
  StartPos <- MCPairStart
  MAX_TIME = 3
  PARK_TIME = 1
  MaxRouteLen = 3
  MaxClock = 2
  MaxResets = 1
SPECIFICATION Spec
INVARIANT TypeOK
INVARIANT NoStaleEntries
INVARIANT DrivesAsReserved
INVARIANT SearchAvoidsReserved
