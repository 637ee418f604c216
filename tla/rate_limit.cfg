SPECIFICATION Spec
CONSTANTS
  Callers = {c1, c2, c3}
  Limit = 2
  MaxCount = 3
INVARIANTS
  TypeOK
  AtMostLimit
  NoEndlessWindow
PROPERTIES
  WindowEnds
