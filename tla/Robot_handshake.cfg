CONSTANTS
  Points = {"a", "b", "c"}
  Chargers = {"c"}
  StartPos = "a"
  MaxRouteLen = 3
  RouteMayFail = TRUE
  CHARGE_FULL = 3
  CHARGE_THRESHOLD = 1
  CHARGE_STEP = 2
  CHARGE_PRIORITY = 10
  MOVE_PRIORITY = 5
  MaxDeficit = 0
  Clients = {"tcp"}
  MoveTargets = {"b"}
  MaxMissions = 1
  MaxStops = 1
  MaxResets = 1
  MaxToggles = 1
  Adjacent <- MCAdjacent
  MissionInputs <- MCDelivery
SPECIFICATION Spec
INVARIANT TypeOK
INVARIANT RouteHandshake
INVARIANT PathFollowsPosition
PROPERTY MovesOneCell
INVARIANT ThreadsHold
PROPERTY ArrivesOrBreaksOff
PROPERTY QueuedStaysCancelled
