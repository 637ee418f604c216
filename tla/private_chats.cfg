SPECIFICATION Spec
CONSTANTS
  Users = {1, 2}
  Chats = {c1, c2}
  Requests = {r1, r2}
  Fillers = {f1}
  NoId = NoId
INVARIANTS
  TypeOK
  AnswersStand
  StaleWithExcuse
PROPERTIES
  IsDirectory
  AbandonedGo
  ContactsConverge
CHECK_DEADLOCK FALSE
