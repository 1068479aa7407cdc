CONSTANTS
  Points = {"a", "b", "c"}
  Chargers = {"c"}
  StartPos = "a"
  MaxRouteLen = 3
  RouteMayFail = FALSE
  CHARGE_FULL = 3
  CHARGE_THRESHOLD = 1
  CHARGE_STEP = 2
  CHARGE_PRIORITY = 10
  MOVE_PRIORITY = 5
  MaxDeficit = 1
  Clients = {"tcp"}
  MoveTargets = {}
  MaxMissions = 1
  MaxStops = 1
  MaxResets = 0
  MaxToggles = 0
  Adjacent <- MCAdjacent
  MissionInputs <- MCDelivery
SPECIFICATION Spec
PROPERTY CancelledStaysCancelled
