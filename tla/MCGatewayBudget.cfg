CONSTANTS
  c1 = c1
  c2 = c2
  c3 = c3
  c4 = c4
  p1 = p1
  p2 = p2
  Conns = {c1, c2}
  Ips = {p1}
  CodeRequired = FALSE
  MaxEvents = 2
  WindowSeconds = 0
  MaxTurnsPerDay = 2
  MaxTurnsPerSession = 2
  MaxNow = 0
  MaxDay = 1
  MaxReceived = 3
  MaxEmitted = 0
SPECIFICATION Spec
SYMMETRY Symmetry
INVARIANTS ServedWithinCeiling CountMatchesServed
CHECK_DEADLOCK FALSE
