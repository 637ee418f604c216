SPECIFICATION Spec
CONSTANTS
  Users = {u1, u2}
  Requests = {r1, r2}
  NoUser = NoUser
  MaxTime = 3
  MaxMessages = 2
INVARIANT
  HiddenReappears
SYMMETRY Symmetry
CHECK_DEADLOCK FALSE
