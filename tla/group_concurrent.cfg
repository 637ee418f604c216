SPECIFICATION OwnershipSpec
CONSTANTS
  u1 = u1
  u2 = u2
  h1 = h1
  h2 = h2
  NoUser = NoUser
  Users <- MCUsers
  Handlers <- MCHandlers
  MaxRows = 2
  MaxBanned = 1
  MaxBatch = 2
SYMMETRY Symmetry
INVARIANTS
  TypeOK
  NoOrphanRows
  OneOwnerUnlessMisled
PROPERTIES
  DecisionStaysWithItsRow
  KeepsPromise
CHECK_DEADLOCK FALSE
