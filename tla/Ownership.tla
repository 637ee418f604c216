----------------------------- MODULE Ownership -----------------------------
(***************************************************************************)
(* What the group chat promises about ownership, whatever its handlers do  *)
(* inside: an open group has one owner, whose account exists; only the     *)
(* owner's transfer moves the ownership, to somebody else whose account    *)
(* exists; an owner cannot be deleted before handing over or closing.      *)
(***************************************************************************)
CONSTANTS Users, NoUser

VARIABLES
  status,  \* none, open or closed
  owner,   \* the owner of the open group, NoUser when it is not open
  gone     \* accounts deleted for good

vars == <<status, owner, gone>>

Init ==
  /\ status = "none"
  /\ owner = NoUser
  /\ gone = {}

Create(u) ==
  /\ status = "none"
  /\ status' = "open"
  /\ owner' = u
  /\ u \notin gone
  /\ UNCHANGED gone

Transfer(u) ==
  /\ status = "open"
  /\ owner' = u
  /\ u # owner
  /\ u \notin gone
  /\ UNCHANGED <<status, gone>>

Close ==
  /\ status = "open"
  /\ status' = "closed"
  /\ owner' = NoUser
  /\ UNCHANGED gone

DeleteAccount(u) ==
  /\ u # owner
  /\ gone' = gone \cup {u}
  /\ UNCHANGED <<status, owner>>

Next ==
  \/ \E u \in Users : Create(u) \/ Transfer(u) \/ DeleteAccount(u)
  \/ Close

Spec == Init /\ [][Next]_vars
=============================================================================
