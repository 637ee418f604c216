--------------------------- MODULE GroupOwnership ---------------------------
(***************************************************************************)
(* What the group handlers keep of the ownership promise.                  *)
(*                                                                         *)
(* The handlers take no lock between reading a role and acting on it, so   *)
(* GroupMembership does not implement Ownership: the run owner_leaves      *)
(* shows how it fails.  This module follows the same steps, all of them,   *)
(* and records which requests were overtaken: a commit moved the ownership *)
(* to or from a user, or deleted one, whose role or account they had read. *)
(* The promise stands until an overtaken request commits.  Kicks, role     *)
(* changes, departures, joins, closures, bans and purges make reads stale  *)
(* as well, and break nothing.                                             *)
(***************************************************************************)
EXTENDS GroupMembership

VARIABLES
  overtaken,  \* history: requests in flight that were overtaken
  misled      \* history: an overtaken request has committed

history == <<overtaken, misled>>
ownershipVars == <<vars, history>>

-----------------------------------------------------------------------------
(* The users whose role a request has read: its caller's first, then its    *)
(* target's.                                                                *)
Seen(h) ==
  CASE req[h].step = "target" -> {req[h].by}
    [] req[h].step = "commit" -> {req[h].by, req[h].on}
    [] OTHER -> {}

RoleReaders == {"leave", "kick", "setRole", "transfer", "deleteAccount"}

(* g's commit changes what h has read of the ownership, or of the account   *)
(* that is to have it; CreateGroupChat has its caller's account from the    *)
(* middleware.                                                              *)
Overtakes(g, h) ==
  \/ /\ req[g].op = "transfer"
     /\ req[h].op \in RoleReaders
     /\ Seen(h) \cap {req[g].by, req[g].on} # {}
  \/ /\ req[g].op = "create"
     /\ req[h].op = "deleteAccount"
     /\ req[g].by \in Seen(h)
  \/ /\ req[g].op = "deleteAccount"
     /\ \/ req[h].op = "create" /\ req[h].by = req[g].by
        \/ req[h].op = "transfer" /\ req[h].step = "commit" /\ req[h].on = req[g].by

Committed(g) ==
  /\ overtaken' = (overtaken \ {g}) \cup {h \in Handlers \ {g} : Overtakes(g, h)}
  /\ misled' = (misled \/ g \in overtaken)

Ended(h) ==
  /\ overtaken' = overtaken \ {h}
  /\ UNCHANGED misled

OwnershipInit == Init /\ overtaken = {} /\ misled = FALSE

OwnershipNext ==
  \/ \E h \in Handlers :
       \/ (Arrive(h) \/ Read(h)) /\ UNCHANGED history
       \/ Commit(h) /\ Committed(h)
       \/ Fail(h) /\ Ended(h)
  \/ Environment /\ UNCHANGED history

OwnershipSpec == OwnershipInit /\ [][OwnershipNext]_ownershipVars

-----------------------------------------------------------------------------
Dead == {"deleted", "purged"}

(* An active group has exactly one owner, whose account is not deleted:     *)
(* the sum of LeaveGroup's, KickMember's, UpdateMemberRole's,               *)
(* TransferOwnership's and DeleteAccount's role checks.                     *)
OneLivingOwner ==
  chat = "active" =>
    \E o \in Users :
      /\ role[o] = "owner"
      /\ account[o] \notin Dead
      /\ \A u \in Users : role[u] = "owner" => u = o

(* No interleaving leaves a group without an owner, with two, or with a     *)
(* deleted one, unless a request commits that a transfer, a creation or an  *)
(* account deletion had overtaken.                                          *)
OneOwnerUnlessMisled == misled \/ OneLivingOwner

(* What makes that inductive: what a request that has passed its checks     *)
(* still knows when it commits, if nothing has overtaken it.                *)
OwnerStays(u) == chat = "active" => role[u] = "owner"
NotOwner(u) == chat = "active" => role[u] # "owner"

RequestKnows(h) ==
  LET r == req[h]
      past == r.step \in {"target", "commit"}
      deciding == r.step = "commit"
  IN
  /\ r.op \in {"setRole", "transfer"} /\ past => OwnerStays(r.by)
  /\ r.op = "kick" /\ past => r.byRole = "admin" \/ (r.byRole = "owner" /\ OwnerStays(r.by))
  /\ r.op \in {"kick", "setRole"} /\ deciding /\ r.onRow = rows[r.on] => NotOwner(r.on)
  /\ r.op = "leave" /\ deciding /\ r.byRow = rows[r.by] => NotOwner(r.by)
  /\ r.op = "transfer" /\ deciding => NotOwner(r.on) /\ account[r.on] \notin Dead
  /\ r.op = "deleteAccount" /\ deciding => NotOwner(r.by)
  /\ r.op = "create" /\ r.step # "idle" => account[r.by] \notin Dead

OwnershipInv ==
  /\ TypeOK
  /\ NoOrphanRows
  /\ SawGroup
  /\ misled \in BOOLEAN
  /\ ~misled => OneLivingOwner /\ \A h \in Handlers \ overtaken : RequestKnows(h)

-----------------------------------------------------------------------------
(* The abstract group, read off the tables.                                 *)
TheOwner == IF chat = "active" THEN CHOOSE o \in Users : role[o] = "owner" ELSE NoUser
Status == CASE chat = "none" -> "none"
            [] chat = "active" -> "open"
            [] OTHER -> "closed"
Gone == {u \in Users : account[u] \in Dead}

Promise == INSTANCE Ownership WITH status <- Status, owner <- TheOwner, gone <- Gone

(* Until an overtaken request commits, every step of the handlers is a step *)
(* of the abstract group or changes nothing it shows: only the owner's own  *)
(* transfer moves the ownership, and an owner is not deleted.               *)
KeepsPromise == Promise!Init /\ [][misled' \/ [Promise!Next]_(Promise!vars)]_ownershipVars
=============================================================================
