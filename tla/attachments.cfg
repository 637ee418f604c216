SPECIFICATION Spec
CONSTANTS
  f1 = f1
  m1 = m1
  m2 = m2
  r1 = r1
  r2 = r2
  j1 = j1
  j2 = j2
  Files <- OneFile
  Messages <- TwoMessages
  Reportable <- OneMessage
  Requests <- TwoRequests
  Jobs <- TwoJobs
  NoMessage = NoMessage
  NoFile = NoFile
SYMMETRY Symmetry
INVARIANTS
  TypeOK
  
  HeldSurvives
PROPERTIES
  AttachOnce
  BuriedForGood
CHECK_DEADLOCK FALSE
