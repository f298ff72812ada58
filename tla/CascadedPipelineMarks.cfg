\* The order of the marks of a turn.
SPECIFICATION Spec
CONSTANT MaxText = 2
INVARIANTS
  TurnCompleteIsLast
