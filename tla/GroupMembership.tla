-------------------------- MODULE GroupMembership --------------------------
(***************************************************************************)
(* Membership and roles of one group chat, as the group handlers change    *)
(* them from concurrent HTTP requests.                                     *)
(*                                                                         *)
(* Every handler opens a READ COMMITTED transaction, reads the group and   *)
(* the requestor's row, then the target's row, decides, and writes the     *)
(* rows it read BY ID, re-checking nothing but that they still exist.      *)
(* One step of the model is one of those reads, or the write together with *)
(* the commit: the row lock a write takes hides it from every other        *)
(* transaction until the commit.                                           *)
(***************************************************************************)
EXTENDS Naturals, FiniteSets

CONSTANTS
  Users,     \* the accounts
  Handlers,  \* goroutines serving requests: how many can be in flight at once
  NoUser,    \* the absent target of a request
  MaxRows,   \* bound: group_members rows ever inserted for one user
  MaxBatch,  \* bound: users named in one create or add request
  MaxBanned  \* bound: users banned at the same time

ASSUME MembershipAssumption ==
  /\ NoUser \notin Users
  /\ MaxRows \in Nat
  /\ MaxBatch \in Nat
  /\ MaxBanned \in Nat

VARIABLES
  account,  \* users row: active, banned, deleted (soft) or purged (hard)
  chat,     \* chats row of the group: none, active, deleted (soft) or purged
  role,     \* committed role of each user, "none" without a group_members row
  rows,     \* rows inserted so far for each user: the identity of the last one
  req       \* what each handler is doing

vars == <<account, chat, role, rows, req>>
data == <<account, chat, role, rows>>

Roles == {"member", "admin", "owner"}
Ops == {"create", "add", "join", "leave", "kick", "setRole", "transfer",
        "deleteGroup", "deleteAccount"}

Idle == [op |-> "none", step |-> "idle", by |-> NoUser, on |-> NoUser,
         to |-> "none", fresh |-> {}, byRole |-> "none", byRow |-> 0, onRow |-> 0]

Init ==
  /\ account = [u \in Users |-> "active"]
  /\ chat = "none"
  /\ role = [u \in Users |-> "none"]
  /\ rows = [u \in Users |-> 0]
  /\ req = [h \in Handlers |-> Idle]

-----------------------------------------------------------------------------
(* The row a handler read is still there: ent updates and deletes by id and *)
(* answers NotFound, which rolls the request back, when it is not.          *)
PresentByUser(u, n) == role[u] # "none"
Present(u, n) == role[u] # "none" /\ rows[u] = n

(* group_members rows for S can be inserted: the foreign keys to users and  *)
(* group_chats hold and the unique index has no row for the pair.           *)
CanInsertUnkeyed(S) ==
  /\ chat # "purged"
  /\ \A u \in S : role[u] = "none" /\ rows[u] < MaxRows
CanInsert(S) ==
  /\ chat # "purged"
  /\ \A u \in S : account[u] # "purged" /\ role[u] = "none" /\ rows[u] < MaxRows

(* The system message every membership change writes, and the update of the *)
(* chat's last message: the sender and the chat must still exist.           *)
CanPost(u) == account[u] # "purged" /\ chat # "purged"

InsertMembers(S) ==
  /\ role' = [u \in Users |-> IF u \in S THEN "member" ELSE role[u]]
  /\ rows' = [u \in Users |-> IF u \in S THEN rows[u] + 1 ELSE rows[u]]

At(h, op, step) == req[h].op = op /\ req[h].step = step
Advance(h, r) == req' = [req EXCEPT ![h] = r] /\ UNCHANGED data
Done(h) == req' = [req EXCEPT ![h] = Idle]

(* Any handler may give up at any step, rolling its transaction back: an    *)
(* early return of one of its checks, a database error, a dropped request.  *)
Fail(h) ==
  /\ req[h].step # "idle"
  /\ Done(h)
  /\ UNCHANGED data

-----------------------------------------------------------------------------
(* A request arrives: the middleware has just found the caller's account    *)
(* neither deleted nor banned, and the body has passed validation.          *)
Receive(h, r) ==
  /\ req[h].step = "idle"
  /\ account[r.by] = "active"
  /\ Advance(h, r)

Request(op, u) == [Idle EXCEPT !.op = op, !.step = "requestor", !.by = u]

ReceiveCreate(h) ==
  /\ chat = "none"
  /\ \E u \in Users : \E S \in SUBSET (Users \ {u}) :
       Cardinality(S) <= MaxBatch /\ Receive(h, [Request("create", u) EXCEPT !.fresh = S])

ReceiveAdd(h) ==
  \E u \in Users : \E S \in SUBSET Users :
    S # {} /\ Cardinality(S) <= MaxBatch /\ Receive(h, [Request("add", u) EXCEPT !.fresh = S])

ReceiveSimple(h) ==
  \E u \in Users, op \in {"join", "leave", "deleteGroup", "deleteAccount"} :
    Receive(h, Request(op, u))

ReceiveKick(h) ==
  \E u, t \in Users : Receive(h, [Request("kick", u) EXCEPT !.on = t])

ReceiveSetAnyRole(h) ==
  \E u, t \in Users, r \in Roles :
    Receive(h, [Request("setRole", u) EXCEPT !.on = t, !.to = r])

ReceiveSetRole(h) ==
  \E u, t \in Users, r \in {"admin", "member"} :
    Receive(h, [Request("setRole", u) EXCEPT !.on = t, !.to = r])

ReceiveTransfer(h) ==
  \E u, t \in Users :
    u # t /\ Receive(h, [Request("transfer", u) EXCEPT !.on = t])

-----------------------------------------------------------------------------
(* Reading the group and the requestor's own row, and the role it requires. *)
(* The request keeps what its later steps use: a kick the role, a leave and *)
(* a transfer the row they will write.                                      *)
ReadRequestor(h, op, allowed, next) ==
  LET u == req[h].by IN
  /\ At(h, op, "requestor")
  /\ chat = "active"
  /\ role[u] \in allowed
  /\ Advance(h, [req[h] EXCEPT
       !.step = next,
       !.byRole = IF op = "kick" THEN role[u] ELSE "none",
       !.byRow = IF op \in {"leave", "transfer"} THEN rows[u] ELSE 0])

(* CreateGroupChat: the members are checked before the transaction opens.   *)
CreateCheck(h) ==
  /\ At(h, "create", "requestor")
  /\ \A m \in req[h].fresh : account[m] = "active"
  /\ Advance(h, [req[h] EXCEPT !.step = "commit"])

CreateCommit(h) ==
  LET u == req[h].by IN
  /\ At(h, "create", "commit")
  /\ chat = "none"
  /\ CanInsert(req[h].fresh \cup {u})
  /\ chat' = "active"
  /\ role' = [v \in Users |-> IF v = u THEN "owner"
                              ELSE IF v \in req[h].fresh THEN "member" ELSE "none"]
  /\ rows' = [v \in Users |-> IF v \in req[h].fresh \cup {u} THEN rows[v] + 1 ELSE rows[v]]
  /\ Done(h)
  /\ UNCHANGED account

(* AddMember: those already in the group are skipped; the bulk insert is    *)
(* all or nothing.                                                          *)
AddRequestor(h) == ReadRequestor(h, "add", {"owner", "admin"}, "target")

AddTargets(h) ==
  LET new == {t \in req[h].fresh : role[t] = "none"} IN
  /\ At(h, "add", "target")
  /\ \A t \in req[h].fresh : account[t] = "active"
  /\ new # {}
  /\ Advance(h, [req[h] EXCEPT !.step = "commit", !.fresh = new])

AddCommit(h) ==
  /\ At(h, "add", "commit")
  /\ CanInsert(req[h].fresh)
  /\ CanPost(req[h].by)
  /\ InsertMembers(req[h].fresh)
  /\ Done(h)
  /\ UNCHANGED <<account, chat>>

(* JoinPublicGroup and JoinGroupByInvite: whether the group is public or    *)
(* the code valid is the caller's luck.                                     *)
JoinCheck(h) == ReadRequestor(h, "join", {"none"}, "commit")

JoinCommit(h) ==
  /\ At(h, "join", "commit")
  /\ CanInsert({req[h].by})
  /\ CanPost(req[h].by)
  /\ InsertMembers({req[h].by})
  /\ Done(h)
  /\ UNCHANGED <<account, chat>>

(* LeaveGroup: "Owner cannot leave the group."                              *)
LeaveRequestor(h) == ReadRequestor(h, "leave", Roles \ {"owner"}, "commit")

LeaveCommit(h) ==
  LET u == req[h].by IN
  /\ At(h, "leave", "commit")
  /\ Present(u, req[h].byRow)
  /\ CanPost(u)
  /\ role' = [role EXCEPT ![u] = "none"]
  /\ Done(h)
  /\ UNCHANGED <<account, chat, rows>>

(* KickMember: an admin removes plain members, the owner anyone else.       *)
KickRequestor(h) == ReadRequestor(h, "kick", {"owner", "admin"}, "target")

KickTarget(h) ==
  LET t == req[h].on IN
  /\ At(h, "kick", "target")
  /\ role[t] # "none"
  /\ t # req[h].by
  /\ req[h].byRole = "admin" => role[t] = "member"
  /\ Advance(h, [req[h] EXCEPT !.step = "commit", !.onRow = rows[t]])

KickCommit(h) ==
  LET t == req[h].on IN
  /\ At(h, "kick", "commit")
  /\ Present(t, req[h].onRow)
  /\ CanPost(req[h].by)
  /\ role' = [role EXCEPT ![t] = "none"]
  /\ Done(h)
  /\ UNCHANGED <<account, chat, rows>>

(* UpdateMemberRole: the owner makes another member admin or member.        *)
SetRoleRequestor(h) == ReadRequestor(h, "setRole", {"owner"}, "target")

SetRoleTarget(h) ==
  LET t == req[h].on IN
  /\ At(h, "setRole", "target")
  /\ role[t] \notin {"none", req[h].to}
  /\ t # req[h].by
  /\ account[t] = "active"
  /\ Advance(h, [req[h] EXCEPT !.step = "commit", !.onRow = rows[t]])

SetRoleCommit(h) ==
  LET t == req[h].on IN
  /\ At(h, "setRole", "commit")
  /\ Present(t, req[h].onRow)
  /\ CanPost(req[h].by)
  /\ role' = [role EXCEPT ![t] = req[h].to]
  /\ Done(h)
  /\ UNCHANGED <<account, chat, rows>>

(* TransferOwnership: the owner steps down to admin, the target becomes     *)
(* owner, in one transaction.                                               *)
TransferRequestor(h) == ReadRequestor(h, "transfer", {"owner"}, "target")

TransferTarget(h) ==
  LET t == req[h].on IN
  /\ At(h, "transfer", "target")
  /\ role[t] \notin {"none", "owner"}
  /\ account[t] = "active"
  /\ Advance(h, [req[h] EXCEPT !.step = "commit", !.onRow = rows[t]])

TransferWithoutDemotion(h) ==
  LET t == req[h].on IN
  /\ At(h, "transfer", "commit")
  /\ Present(t, req[h].onRow)
  /\ role' = [role EXCEPT ![t] = "owner"]
  /\ Done(h)
  /\ UNCHANGED <<account, chat, rows>>

TransferCommit(h) ==
  LET u == req[h].by
      t == req[h].on
  IN
  /\ At(h, "transfer", "commit")
  /\ Present(u, req[h].byRow)
  /\ Present(t, req[h].onRow)
  /\ CanPost(u)
  /\ role' = [role EXCEPT ![u] = "admin", ![t] = "owner"]
  /\ Done(h)
  /\ UNCHANGED <<account, chat, rows>>

(* DeleteGroup: soft delete by the owner.                                   *)
DeleteGroupRequestor(h) == ReadRequestor(h, "deleteGroup", {"owner"}, "commit")

DeleteGroupCommit(h) ==
  /\ At(h, "deleteGroup", "commit")
  /\ chat # "purged"
  /\ chat' = "deleted"
  /\ Done(h)
  /\ UNCHANGED <<account, role, rows>>

(* DeleteAccount: owned groups are counted before the transaction opens.    *)
DeleteAccountUnchecked(h) ==
  /\ At(h, "deleteAccount", "requestor")
  /\ Advance(h, [req[h] EXCEPT !.step = "commit"])

DeleteAccountCheck(h) ==
  /\ At(h, "deleteAccount", "requestor")
  /\ ~(chat = "active" /\ role[req[h].by] = "owner")
  /\ Advance(h, [req[h] EXCEPT !.step = "commit"])

DeleteAccountCommit(h) ==
  LET u == req[h].by IN
  /\ At(h, "deleteAccount", "commit")
  /\ account[u] # "purged"
  /\ account' = [account EXCEPT ![u] = "deleted"]
  /\ Done(h)
  /\ UNCHANGED <<chat, role, rows>>

-----------------------------------------------------------------------------
(* The system administrator and the scheduler. Their statements carry their *)
(* own conditions or concern states that never change back, so each is one  *)
(* step.                                                                    *)
Ban(u) ==
  /\ account[u] = "active"
  /\ Cardinality({v \in Users : account[v] = "banned"}) < MaxBanned
  /\ account' = [account EXCEPT ![u] = "banned"]
  /\ UNCHANGED <<chat, role, rows, req>>

Unban(u) ==
  /\ account[u] = "banned"
  /\ account' = [account EXCEPT ![u] = "active"]
  /\ UNCHANGED <<chat, role, rows, req>>

AdminDeleteGroup ==
  /\ chat = "active"
  /\ chat' = "deleted"
  /\ UNCHANGED <<account, role, rows, req>>

(* The cleanup job deletes the users row; the foreign key takes the         *)
(* group_members row with it.                                               *)
PurgeUser(u) ==
  /\ account[u] = "deleted"
  /\ account' = [account EXCEPT ![u] = "purged"]
  /\ role' = [role EXCEPT ![u] = "none"]
  /\ UNCHANGED <<chat, rows, req>>

PurgeGroup ==
  /\ chat = "deleted"
  /\ chat' = "purged"
  /\ role' = [u \in Users |-> "none"]
  /\ UNCHANGED <<account, rows, req>>

-----------------------------------------------------------------------------
Arrive(h) ==
  \/ ReceiveCreate(h) \/ ReceiveAdd(h) \/ ReceiveSimple(h)
  \/ ReceiveKick(h) \/ ReceiveSetRole(h) \/ ReceiveTransfer(h)

Read(h) ==
  \/ CreateCheck(h)
  \/ AddRequestor(h) \/ AddTargets(h)
  \/ JoinCheck(h) \/ LeaveRequestor(h)
  \/ KickRequestor(h) \/ KickTarget(h)
  \/ SetRoleRequestor(h) \/ SetRoleTarget(h)
  \/ TransferRequestor(h) \/ TransferTarget(h)
  \/ DeleteGroupRequestor(h) \/ DeleteAccountCheck(h)

Commit(h) ==
  \/ CreateCommit(h) \/ AddCommit(h) \/ JoinCommit(h) \/ LeaveCommit(h)
  \/ KickCommit(h) \/ SetRoleCommit(h) \/ TransferCommit(h)
  \/ DeleteGroupCommit(h) \/ DeleteAccountCommit(h)

Environment ==
  \/ \E u \in Users : Ban(u) \/ Unban(u) \/ PurgeUser(u)
  \/ AdminDeleteGroup \/ PurgeGroup

Next ==
  \/ \E h \in Handlers : Arrive(h) \/ Read(h) \/ Commit(h) \/ Fail(h)
  \/ Environment

Spec == Init /\ [][Next]_vars
-----------------------------------------------------------------------------
Request_ == [op : Ops \cup {"none"},
             step : {"idle", "requestor", "target", "commit"},
             by : Users \cup {NoUser},
             on : Users \cup {NoUser},
             to : Roles \cup {"none"},
             fresh : SUBSET Users,
             byRole : Roles \cup {"none"},
             byRow : Nat,
             onRow : Nat]

(* The type invariant of the component, with what a request in flight must *)
(* name: a caller always, a target for the operations that have one.       *)
TypeOK ==
  /\ account \in [Users -> {"active", "banned", "deleted", "purged"}]
  /\ chat \in {"none", "active", "deleted", "purged"}
  /\ role \in [Users -> Roles \cup {"none"}]
  /\ rows \in [Users -> Nat]
  /\ req \in [Handlers -> Request_]
  /\ \A h \in Handlers :
       /\ req[h].step # "idle" => req[h].by \in Users
       /\ req[h].op \in {"kick", "setRole", "transfer"} => req[h].on \in Users
       /\ req[h].op = "setRole" => req[h].to \in {"admin", "member"}

(* A group_members row never outlives its user or its group, whatever      *)
(* insert was in flight when the cleanup job (entity_cleanup.go) deleted   *)
(* the user or the chat: no insert resurrects a row of a purged parent.    *)
NoOrphanRows ==
  \A u \in Users :
    role[u] # "none" => account[u] # "purged" /\ chat \in {"active", "deleted"}

(* A request past its first read has seen the group: from then on the chat *)
(* is deleted or purged at worst, so an insert that finds it not purged    *)
(* finds it at all.  Makes NoOrphanRows inductive.                         *)
SawGroup ==
  \A h \in Handlers :
    req[h].op \notin {"none", "create", "deleteAccount"} /\ req[h].step \in {"target", "commit"}
      => chat # "none"

(* A decision taken about one membership is never applied to another: when *)
(* a user leaves and comes back while a kick, a role change or a transfer  *)
(* about the old membership is in flight, that request must not touch the  *)
(* new row (the handlers write by row id, not by user id).                 *)
DecisionStaysWithItsRow ==
  [][\A u \in Users :
       role[u] # "none" /\ role'[u] # role[u] =>
         \/ account'[u] = "purged"
         \/ chat' = "purged"
         \/ \E h \in Handlers :
              /\ At(h, req[h].op, "commit") /\ req'[h] = Idle
              /\ \/ req[h].on = u /\ req[h].onRow = rows[u]
                 \/ req[h].by = u /\ req[h].byRow = rows[u]]_vars

(* "Owner cannot leave the group. Please transfer ownership first."        *)
(* (LeaveGroup's refusal, and the API description of the endpoint): no     *)
(* leave request that succeeds removes the owner's row.                    *)
OwnerCannotLeave ==
  [][\A h \in Handlers : LeaveCommit(h) => role[req[h].by] # "owner"]_vars
=============================================================================
