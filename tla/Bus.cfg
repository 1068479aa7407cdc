SPECIFICATION Spec
CONSTANTS
  r1 = r1
  r2 = r2
  Nobody = Nobody
  Robots <- MCRobots
  Points = {p1, p2}
  Subscribers <- MCSubscribers
  Lookahead = 1
  MAX_LOG = 1
  MAX_EVENTS = 2
  MaxClock = 1
INVARIANTS
  TypeOK
  InOrderOfTime
  WarningIsCurrent
  HoldersGoOn
  HandlersAlive

  
CHECK_DEADLOCK FALSE
