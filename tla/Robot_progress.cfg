CONSTANTS
  Points = {"a", "b"}
  Chargers = {"b"}
  StartPos = "a"
  MaxRouteLen = 2
  RouteMayFail = TRUE
  CHARGE_FULL = 3
  CHARGE_THRESHOLD = 1
  CHARGE_STEP = 2
  CHARGE_PRIORITY = 10
  MOVE_PRIORITY = 5
  MaxDeficit = 1
  Clients = {"tcp"}
  MoveTargets = {}
  MaxMissions = 2
  MaxStops = 0
  MaxResets = 0
  MaxToggles = 0
  Adjacent <- MCAdjacent
  MissionInputs <- MCMixed
SPECIFICATION FairSpec
PROPERTY RouteEnds
PROPERTY MissionsTaken
PROPERTY ChargingEnds
INVARIANT QueueByPriority
PROPERTY KeepsPromise
PROPERTY MissionsEnd
PROPERTY ArrivesOrBreaksOff
