SPECIFICATION Spec
CONSTANTS
  u1 = u1
  u2 = u2
  u3 = u3
  h1 = h1
  h2 = h2
  NoUser = NoUser
  Users <- MCUsers
  Handlers <- MCHandlers
  MaxRows = 1
  MaxBanned = 1
  MaxBatch = 1
SYMMETRY Symmetry
CHECK_DEADLOCK FALSE
PROPERTY OwnerCannotLeave
