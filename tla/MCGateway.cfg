CONSTANTS
  c1 = c1
  c2 = c2
  c3 = c3
  c4 = c4
  p1 = p1
  p2 = p2
  Conns = {c1}
  Ips = {p1}
  CodeRequired = FALSE
  MaxEvents = 1
  WindowSeconds = 0
  MaxTurnsPerDay = 5
  MaxTurnsPerSession = 2
  MaxNow = 0
  MaxDay = 0
  MaxReceived = 5
  MaxEmitted = 5
SPECIFICATION LoopSpec
INVARIANTS TypeOK NothingLostOnTheWay OrphansOnlyBySender
PROPERTIES EventsAreSent EndpointEnds
CHECK_DEADLOCK FALSE
