SPECIFICATION LSpec
CONSTANTS
  u1 = u1
  c1 = c1
  Users = {u1}
  Processes = {p1}
  Clients = {c1}
  UserOf <- MCUserOf
  SendCap = 1
  QueueCap = 1
PROPERTY
  LogoutDisconnects
CHECK_DEADLOCK FALSE
