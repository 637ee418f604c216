SPECIFICATION Spec
CONSTANTS
  Users = {u1, u2}
  Requests = {r1, r2, r3}
  NoUser = NoUser
  MaxTime = 2
  MaxMessages = 2
INVARIANTS
  TypeOK
  CountsExact
  ReceiptsCover
  ListedHasMessages
  HiddenOnlyIfOvertaken
PROPERTY
  ReceiptsAdvance
SYMMETRY Symmetry
CHECK_DEADLOCK FALSE
