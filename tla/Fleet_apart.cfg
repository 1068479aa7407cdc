CONSTANTS
  Robots = {"r0", "r1"}
  Points = {"a", "b", "c"}
  Adjacent <- MCLane
  StartPos <- MCLaneStart
  MAX_TIME = 3
  PARK_TIME = 1
  MaxRouteLen = 3
  MaxClock = 2
  MaxResets = 1
SPECIFICATION Spec
INVARIANT DrivenApart
