CONSTANTS
  c1 = c1
  c2 = c2
  c3 = c3
  c4 = c4
  p1 = p1
  p2 = p2
  Conns = {c1, c2, c3, c4}
  Ips = {p1, p2}
  CodeRequired = TRUE
  MaxEvents = 2
  WindowSeconds = 2
  MaxTurnsPerDay = 0
  MaxTurnsPerSession = 0
  MaxNow = 4
  MaxDay = 0
  MaxReceived = 0
  MaxEmitted = 0
SPECIFICATION Spec
SYMMETRY Symmetry
INVARIANTS AdmissionsWithinWindow
PROPERTIES RefusedOnlyWhenFull
CHECK_DEADLOCK FALSE
