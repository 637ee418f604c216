SPECIFICATION Spec
CONSTANTS
  Users = {u1, u2}
  Emails = {e1, e2}
  Requests = {r1, r2}
  NoUser = NoUser
  NoEmail = NoEmail
  MaxCodes = 2
INVARIANTS
  TypeOK
  OnlyTheHolder
  CodesUsedOnce
  WayIn
SYMMETRY Symmetry
CHECK_DEADLOCK FALSE
