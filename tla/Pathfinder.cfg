SPECIFICATION Spec
CONSTANTS
  Width = 3
  Height = 3
  MAX_TIME = 5
  ObstacleSets <- MCObstacleSets
  Reservations <- MCReservations
  Queries <- MCQueries
INVARIANTS
  TypeOK
  RouteIsSound
  RouteIsCheapest
PROPERTY
  Terminates
CHECK_DEADLOCK FALSE
