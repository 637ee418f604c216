SPECIFICATION Spec
CONSTANTS
  Revokers = {r1, r2}
  Visitors = {v1}
  NoOne = NoOne
  Second = 3
  JWTExp = 6
  MaxTime = 8
  BanEnds = {5, 9}
  MaxTokens = 2
  MaxBegun = 3
INVARIANTS
  TypeOK
  StaysRevoked
  FailureRevokesNothing
SYMMETRY Symmetry
CHECK_DEADLOCK FALSE
