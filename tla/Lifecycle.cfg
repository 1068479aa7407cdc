CONSTANTS
  Clients = {"tcp", "web"}
  MaxSpurious = 2
SPECIFICATION Spec
INVARIANT TypeOK
INVARIANT NoLostWakeup
PROPERTY RequestsTaken
PROPERTY RoutesTaken
PROPERTY ArrivalsTaken
