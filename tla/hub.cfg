SPECIFICATION MCSpec
CONSTANTS
  u1 = u1
  p1 = p1
  p2 = p2
  c1 = c1
  c2 = c2
  Users = {u1}
  Processes = {p1, p2}
  Clients = {c1, c2}
  UserOf <- MCUserOf
  SendCap = 1
  QueueCap = 1
INVARIANTS
  TypeOK
  NoPanic
PROPERTIES
  ClosedConnectionsLeave
  PresenceUp
  PresenceDown
  NoneStranded
CHECK_DEADLOCK FALSE
