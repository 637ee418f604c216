----------------------- MODULE GroupMembershipProofs -----------------------
(* Type correctness of the group handlers, and the two safety properties    *)
(* that hold under every interleaving, for any users and handlers; then     *)
(* that an active group has one living owner, and implements Ownership,     *)
(* until a request commits that another one had overtaken.                  *)
EXTENDS GroupOwnership, TLAPS

LEMMA IdleType == Idle \in Request_
  BY MembershipAssumption DEF Idle, Request_, Roles

(* What a handler does to its own request: it stays typed.                  *)
LEMMA AdvanceType ==
  ASSUME TypeOK, NEW h \in Handlers, NEW r, Advance(h, r), r \in Request_, r.by \in Users,
         r.op \in {"kick", "setRole", "transfer"} => r.on \in Users,
         r.op = "setRole" => r.to \in {"admin", "member"}
  PROVE  TypeOK'
  <1>1. req' \in [Handlers -> Request_]
    BY DEF TypeOK, Advance
  <1>2. ASSUME NEW g \in Handlers
        PROVE  /\ req'[g].step # "idle" => req'[g].by \in Users
               /\ req'[g].op \in {"kick", "setRole", "transfer"} => req'[g].on \in Users
               /\ req'[g].op = "setRole" => req'[g].to \in {"admin", "member"}
    BY DEF TypeOK, Advance
  <1>. QED
    BY <1>1, <1>2 DEF TypeOK, Advance, data

LEMMA ReceiveType ==
  ASSUME TypeOK, NEW h \in Handlers, NEW r, Receive(h, r), r \in Request_, r.by \in Users,
         r.op \in {"kick", "setRole", "transfer"} => r.on \in Users,
         r.op = "setRole" => r.to \in {"admin", "member"}
  PROVE  TypeOK'
  BY AdvanceType DEF Receive

(* Reading the target of a kick, a role change or a transfer.               *)
LEMMA TargetType ==
  ASSUME TypeOK, NEW h \in Handlers, req[h].op \in {"kick", "setRole", "transfer"},
         req[h].step = "target",
         Advance(h, [req[h] EXCEPT !.step = "commit", !.onRow = rows[req[h].on]])
  PROVE  TypeOK'
  <1>. DEFINE r == [req[h] EXCEPT !.step = "commit", !.onRow = rows[req[h].on]]
  <1>1. req[h] \in Request_ /\ req[h].on \in Users /\ req[h].by \in Users
    BY DEF TypeOK
  <1>2. rows[req[h].on] \in Nat
    BY <1>1 DEF TypeOK
  <1>3. r \in Request_ /\ r.by = req[h].by /\ r.on = req[h].on /\ r.to = req[h].to
        /\ r.op = req[h].op
    BY <1>1, <1>2 DEF Request_
  <1>4. req[h].op = "setRole" => req[h].to \in {"admin", "member"}
    BY DEF TypeOK
  <1>5. Advance(h, r)
    OBVIOUS
  <1>. HIDE DEF r
  <1>. QED
    BY <1>1, <1>3, <1>4, <1>5, AdvanceType

LEMMA RequestorType ==
  ASSUME TypeOK, NEW h \in Handlers, NEW op, NEW allowed, NEW next \in {"target", "commit"},
         ReadRequestor(h, op, allowed, next)
  PROVE  TypeOK'
  <1>. DEFINE u == req[h].by
              r == [req[h] EXCEPT
                      !.step = next,
                      !.byRole = IF op = "kick" THEN role[u] ELSE "none",
                      !.byRow = IF op \in {"leave", "transfer"} THEN rows[u] ELSE 0]
  <1>1. u \in Users /\ req[h] \in Request_
    BY DEF ReadRequestor, At, TypeOK
  <1>2. r \in Request_
    BY <1>1 DEF TypeOK, Request_
  <1>3. r.by = req[h].by /\ r.on = req[h].on /\ r.to = req[h].to /\ r.op = req[h].op
    BY <1>1 DEF Request_
  <1>4. req' = [req EXCEPT ![h] = r] /\ UNCHANGED data
    BY DEF ReadRequestor, Advance
  <1>. HIDE DEF r
  <1>. QED
    BY <1>1, <1>2, <1>3, <1>4 DEF TypeOK, data

LEMMA DoneType ==
  ASSUME TypeOK, NEW h \in Handlers, Done(h)
  PROVE  /\ req' \in [Handlers -> Request_]
         /\ \A g \in Handlers :
              /\ req'[g].step # "idle" => req'[g].by \in Users
              /\ req'[g].op \in {"kick", "setRole", "transfer"} => req'[g].on \in Users
              /\ req'[g].op = "setRole" => req'[g].to \in {"admin", "member"}
  BY IdleType DEF TypeOK, Done, Idle

LEMMA InitType == Init => TypeOK
  BY IdleType DEF Init, TypeOK, Idle

LEMMA ArriveType == ASSUME TypeOK, NEW h \in Handlers, Arrive(h) PROVE TypeOK'
  <1>1. CASE ReceiveCreate(h)
    <2>. PICK u \in Users : \E S \in SUBSET (Users \ {u}) :
           Receive(h, [Request("create", u) EXCEPT !.fresh = S])
      BY <1>1 DEF ReceiveCreate
    <2>. PICK S \in SUBSET (Users \ {u}) : Receive(h, [Request("create", u) EXCEPT !.fresh = S])
      BY <1>1 DEF ReceiveCreate
    <2>. QED
      BY ReceiveType, MembershipAssumption DEF Request, Idle, Request_, Ops
  <1>2. CASE ReceiveAdd(h)
    <2>. PICK u \in Users, S \in SUBSET Users :
           Receive(h, [Request("add", u) EXCEPT !.fresh = S])
      BY <1>2 DEF ReceiveAdd
    <2>. QED
      BY ReceiveType, MembershipAssumption DEF Request, Idle, Request_, Ops
  <1>3. CASE ReceiveSimple(h)
    <2>. PICK u \in Users, op \in {"join", "leave", "deleteGroup", "deleteAccount"} :
           Receive(h, Request(op, u))
      BY <1>3 DEF ReceiveSimple
    <2>. QED
      BY ReceiveType, MembershipAssumption DEF Request, Idle, Request_, Ops
  <1>4. CASE ReceiveKick(h)
    <2>. PICK u \in Users, t \in Users : Receive(h, [Request("kick", u) EXCEPT !.on = t])
      BY <1>4 DEF ReceiveKick
    <2>. QED
      BY ReceiveType, MembershipAssumption DEF Request, Idle, Request_, Ops
  <1>5. CASE ReceiveSetRole(h)
    <2>. PICK u \in Users, t \in Users, r \in {"admin", "member"} :
           Receive(h, [Request("setRole", u) EXCEPT !.on = t, !.to = r])
      BY <1>5 DEF ReceiveSetRole
    <2>. QED
      BY ReceiveType, MembershipAssumption DEF Request, Idle, Request_, Ops, Roles
  <1>6. CASE ReceiveTransfer(h)
    <2>. PICK u \in Users, t \in Users : Receive(h, [Request("transfer", u) EXCEPT !.on = t])
      BY <1>6 DEF ReceiveTransfer
    <2>. QED
      BY ReceiveType, MembershipAssumption DEF Request, Idle, Request_, Ops
  <1>. QED
    BY <1>1, <1>2, <1>3, <1>4, <1>5, <1>6 DEF Arrive

LEMMA ReadType == ASSUME TypeOK, NEW h \in Handlers, Read(h) PROVE TypeOK'
  <1>. DEFINE c == [req[h] EXCEPT !.step = "commit"]
  <1>0. req[h] \in Request_ /\ c \in Request_ /\ c.by = req[h].by /\ c.op = req[h].op
    BY DEF TypeOK, Request_
  <1>1. CASE CreateCheck(h)
    <2>1. Advance(h, c) /\ req[h].op = "create" /\ req[h].by \in Users
      BY <1>1 DEF CreateCheck, At, TypeOK
    <2>. QED
      BY <1>0, <2>1, AdvanceType
  <1>2. CASE AddTargets(h)
    <2>. DEFINE new == {t \in req[h].fresh : role[t] = "none"}
                r == [req[h] EXCEPT !.step = "commit", !.fresh = new]
    <2>1. req[h] \in Request_ /\ req[h].op = "add" /\ req[h].step = "target"
      BY <1>2 DEF TypeOK, AddTargets, At
    <2>2. new \in SUBSET Users
      BY <2>1 DEF Request_
    <2>3. r \in Request_ /\ r.op = "add" /\ r.by = req[h].by
      BY <2>1, <2>2 DEF Request_
    <2>4. req' = [req EXCEPT ![h] = r] /\ UNCHANGED data
      BY <1>2 DEF AddTargets, Advance
    <2>. HIDE DEF r, new
    <2>. QED
      BY <2>1, <2>3, <2>4 DEF TypeOK, data
  <1>3. CASE KickTarget(h)
    BY <1>3, TargetType DEF KickTarget, At
  <1>4. CASE SetRoleTarget(h)
    BY <1>4, TargetType DEF SetRoleTarget, At
  <1>5. CASE TransferTarget(h)
    BY <1>5, TargetType DEF TransferTarget, At
  <1>6. CASE DeleteAccountCheck(h)
    <2>1. Advance(h, c) /\ req[h].op = "deleteAccount" /\ req[h].by \in Users
      BY <1>6 DEF DeleteAccountCheck, At, TypeOK
    <2>. QED
      BY <1>0, <2>1, AdvanceType
  <1>7. CASE AddRequestor(h) \/ JoinCheck(h) \/ LeaveRequestor(h) \/ KickRequestor(h)
             \/ SetRoleRequestor(h) \/ TransferRequestor(h) \/ DeleteGroupRequestor(h)
    BY <1>7, RequestorType DEF AddRequestor, JoinCheck, LeaveRequestor, KickRequestor,
         SetRoleRequestor, TransferRequestor, DeleteGroupRequestor
  <1>. QED
    BY <1>1, <1>2, <1>3, <1>4, <1>5, <1>6, <1>7 DEF Read

LEMMA CommitType == ASSUME TypeOK, NEW h \in Handlers, Commit(h) PROVE TypeOK'
  <1>. DEFINE Members == role' \in [Users -> Roles \cup {"none"}] /\ rows' \in [Users -> Nat]
              Accounts == account' \in [Users -> {"active", "banned", "deleted", "purged"}]
              Chat == chat' \in {"none", "active", "deleted", "purged"}
  <1>. SUFFICES Done(h) /\ Members /\ Accounts /\ Chat
    BY DoneType DEF TypeOK
  <1>0. req[h] \in Request_
    BY DEF TypeOK
  <1>1. CASE CreateCommit(h)
    BY <1>1 DEF CreateCommit, TypeOK, Roles
  <1>2. CASE AddCommit(h)
    BY <1>2 DEF AddCommit, InsertMembers, TypeOK, Roles
  <1>3. CASE JoinCommit(h)
    BY <1>3 DEF JoinCommit, InsertMembers, TypeOK, Roles
  <1>4. CASE LeaveCommit(h)
    BY <1>4 DEF LeaveCommit, TypeOK
  <1>5. CASE KickCommit(h)
    BY <1>5 DEF KickCommit, TypeOK
  <1>6. CASE SetRoleCommit(h)
    BY <1>6, <1>0 DEF SetRoleCommit, TypeOK, Request_
  <1>7. CASE TransferCommit(h)
    BY <1>7 DEF TransferCommit, TypeOK, Roles
  <1>8. CASE DeleteGroupCommit(h)
    BY <1>8 DEF DeleteGroupCommit, TypeOK
  <1>9. CASE DeleteAccountCommit(h)
    BY <1>9 DEF DeleteAccountCommit, TypeOK
  <1>. QED
    BY <1>1, <1>2, <1>3, <1>4, <1>5, <1>6, <1>7, <1>8, <1>9 DEF Commit

LEMMA EnvironmentType == ASSUME TypeOK, Environment PROVE TypeOK'
  BY DEF TypeOK, Environment, Ban, Unban, PurgeUser, AdminDeleteGroup, PurgeGroup

LEMMA StepType == TypeOK /\ [Next]_vars => TypeOK'
  <1>. SUFFICES ASSUME TypeOK, [Next]_vars PROVE TypeOK'
    OBVIOUS
  <1>1. CASE UNCHANGED vars
    BY <1>1 DEF vars, TypeOK
  <1>2. ASSUME NEW h \in Handlers, Arrive(h) \/ Read(h) \/ Commit(h) \/ Fail(h)
        PROVE  TypeOK'
    BY <1>2, ArriveType, ReadType, CommitType, DoneType DEF Fail, data, TypeOK
  <1>3. CASE Environment
    BY <1>3, EnvironmentType
  <1>. QED
    BY <1>1, <1>2, <1>3 DEF Next

(* Every handler keeps the rows and the requests well formed: TypeOK holds  *)
(* of the specification for any users, handlers and bounds.                 *)
THEOREM TypeCorrect == Spec => []TypeOK
  BY InitType, StepType, PTL DEF Spec

-----------------------------------------------------------------------------
RowsInv == TypeOK /\ NoOrphanRows /\ SawGroup

LEMMA InitRows == Init => RowsInv
  BY InitType DEF Init, RowsInv, NoOrphanRows, SawGroup, Idle

(* Arriving and reading change no row: only what the request has seen.      *)
LEMMA SawGroupRead ==
  ASSUME RowsInv, NEW h \in Handlers, Arrive(h) \/ Read(h)
  PROVE  SawGroup' /\ UNCHANGED data
  <1>1. CASE Arrive(h)
    <2>1. UNCHANGED data /\ \E r : r.step = "requestor" /\ req' = [req EXCEPT ![h] = r]
      BY <1>1 DEF Arrive, ReceiveCreate, ReceiveAdd, ReceiveSimple, ReceiveKick, ReceiveSetRole,
           ReceiveTransfer, Receive, Request, Idle, Advance
    <2>. QED
      BY <2>1 DEF data, RowsInv, TypeOK, SawGroup
  <1>2. CASE Read(h)
    <2>1. CASE \E op \in Ops, next \in {"target", "commit"}, allowed \in SUBSET (Roles \cup {"none"}) :
                 ReadRequestor(h, op, allowed, next)
      BY <2>1 DEF ReadRequestor, Advance, data, RowsInv, TypeOK, SawGroup
    <2>2. CASE AddTargets(h) \/ KickTarget(h) \/ SetRoleTarget(h) \/ TransferTarget(h)
      BY <2>2 DEF AddTargets, KickTarget, SetRoleTarget, TransferTarget, At, Advance, data,
           RowsInv, TypeOK, Request_, SawGroup
    <2>3. CASE CreateCheck(h) \/ DeleteAccountCheck(h)
      BY <2>3 DEF CreateCheck, DeleteAccountCheck, At, Advance, data,
           RowsInv, TypeOK, Request_, SawGroup
    <2>4. ASSUME AddRequestor(h) \/ JoinCheck(h) \/ LeaveRequestor(h) \/ KickRequestor(h)
                 \/ SetRoleRequestor(h) \/ TransferRequestor(h) \/ DeleteGroupRequestor(h)
          PROVE  \E op \in Ops, next \in {"target", "commit"},
                    allowed \in SUBSET (Roles \cup {"none"}) : ReadRequestor(h, op, allowed, next)
      BY <2>4 DEF AddRequestor, JoinCheck, LeaveRequestor, KickRequestor, SetRoleRequestor,
           TransferRequestor, DeleteGroupRequestor, Ops, Roles
    <2>. QED
      BY <1>2, <2>1, <2>2, <2>3, <2>4 DEF Read
  <1>. QED
    BY <1>1, <1>2

LEMMA SawGroupDone ==
  ASSUME RowsInv, NEW h \in Handlers, Done(h), chat' # "none" \/ UNCHANGED chat
  PROVE  SawGroup'
  BY DEF RowsInv, TypeOK, SawGroup, Done, Idle

LEMMA RowsCommit ==
  ASSUME RowsInv, NEW h \in Handlers, Commit(h)
  PROVE  NoOrphanRows' /\ SawGroup'
  <1>. USE DEF RowsInv, NoOrphanRows
  <1>0. /\ req[h] \in Request_
        /\ req[h].step = "commit" => req[h].by \in Users
        /\ chat \in {"none", "active", "deleted", "purged"}
    BY DEF TypeOK
  <1>1. CASE CreateCommit(h)
    BY <1>0, <1>1, SawGroupDone DEF CreateCommit, CanInsert, At, TypeOK
  <1>2. CASE AddCommit(h)
    <2>1. chat # "none"
      BY <1>0, <1>2 DEF SawGroup, AddCommit, At
    <2>. QED
      BY <1>0, <1>2, <2>1, SawGroupDone DEF AddCommit, CanInsert, InsertMembers, At, TypeOK, Request_
  <1>3. CASE JoinCommit(h)
    <2>1. chat # "none"
      BY <1>0, <1>3 DEF SawGroup, JoinCommit, At
    <2>. QED
      BY <1>0, <1>3, <2>1, SawGroupDone DEF JoinCommit, CanInsert, InsertMembers, At, TypeOK
  <1>4. CASE LeaveCommit(h)
    BY <1>4, SawGroupDone DEF LeaveCommit, TypeOK
  <1>5. CASE KickCommit(h)
    BY <1>5, SawGroupDone DEF KickCommit, TypeOK
  <1>6. CASE SetRoleCommit(h)
    BY <1>6, SawGroupDone DEF SetRoleCommit, Present, TypeOK
  <1>7. CASE TransferCommit(h)
    BY <1>7, SawGroupDone DEF TransferCommit, Present, TypeOK
  <1>8. CASE DeleteGroupCommit(h)
    BY <1>8, SawGroupDone DEF DeleteGroupCommit, TypeOK
  <1>9. CASE DeleteAccountCommit(h)
    BY <1>9, SawGroupDone DEF DeleteAccountCommit, TypeOK
  <1>. QED
    BY <1>1, <1>2, <1>3, <1>4, <1>5, <1>6, <1>7, <1>8, <1>9 DEF Commit

LEMMA RowsStep == RowsInv /\ [Next]_vars => RowsInv'
  <1>. SUFFICES ASSUME RowsInv, [Next]_vars PROVE NoOrphanRows' /\ SawGroup'
    BY StepType DEF RowsInv
  <1>1. CASE UNCHANGED vars
    BY <1>1 DEF vars, RowsInv, NoOrphanRows, SawGroup
  <1>2. ASSUME NEW h \in Handlers, Arrive(h) \/ Read(h)
        PROVE  NoOrphanRows' /\ SawGroup'
    BY <1>2, SawGroupRead DEF data, RowsInv, NoOrphanRows
  <1>3. ASSUME NEW h \in Handlers, Commit(h)
        PROVE  NoOrphanRows' /\ SawGroup'
    BY <1>3, RowsCommit
  <1>4. ASSUME NEW h \in Handlers, Fail(h)
        PROVE  NoOrphanRows' /\ SawGroup'
    BY <1>4, SawGroupDone DEF Fail, data, RowsInv, NoOrphanRows
  <1>5. CASE Environment
    BY <1>5 DEF Environment, Ban, Unban, PurgeUser, AdminDeleteGroup, PurgeGroup,
         RowsInv, NoOrphanRows, SawGroup, TypeOK
  <1>. QED
    BY <1>1, <1>2, <1>3, <1>4, <1>5 DEF Next

(* The foreign keys and the id-only writes keep every group_members row     *)
(* under a users row and a chats row that exist, under any interleaving of  *)
(* inserts with the cleanup job.                                            *)
THEOREM RowsHaveParents == Spec => []NoOrphanRows
  <1>1. RowsInv => NoOrphanRows
    BY DEF RowsInv
  <1>. QED
    BY <1>1, InitRows, RowsStep, PTL DEF Spec

-----------------------------------------------------------------------------
(* The step property: whoever changes or removes a row has read that row.   *)
StaysWithItsRow ==
  \A u \in Users :
    role[u] # "none" /\ role'[u] # role[u] =>
      \/ account'[u] = "purged"
      \/ chat' = "purged"
      \/ \E h \in Handlers :
           /\ At(h, req[h].op, "commit") /\ req'[h] = Idle
           /\ \/ req[h].on = u /\ req[h].onRow = rows[u]
              \/ req[h].by = u /\ req[h].byRow = rows[u]

LEMMA CommitStaysWithItsRow ==
  ASSUME RowsInv, NEW h \in Handlers, Commit(h)
  PROVE  StaysWithItsRow
  <1>. SUFFICES ASSUME NEW u \in Users, role[u] # "none", role'[u] # role[u]
                PROVE  /\ req[h].step = "commit" /\ req'[h] = Idle
                       /\ \/ req[h].on = u /\ req[h].onRow = rows[u]
                          \/ req[h].by = u /\ req[h].byRow = rows[u]
    BY DEF StaysWithItsRow, At
  <1>. USE DEF RowsInv, TypeOK, At, Done
  <1>1. ~CreateCommit(h)
    BY DEF CreateCommit, NoOrphanRows
  <1>2. ~AddCommit(h) /\ ~JoinCommit(h)
    BY DEF AddCommit, JoinCommit, CanInsert, InsertMembers
  <1>3. ~DeleteGroupCommit(h) /\ ~DeleteAccountCommit(h)
    BY DEF DeleteGroupCommit, DeleteAccountCommit
  <1>4. CASE LeaveCommit(h)
    BY <1>4 DEF LeaveCommit, Present
  <1>5. CASE KickCommit(h)
    BY <1>5 DEF KickCommit, Present
  <1>6. CASE SetRoleCommit(h)
    BY <1>6 DEF SetRoleCommit, Present
  <1>7. CASE TransferCommit(h)
    BY <1>7 DEF TransferCommit, Present
  <1>. QED
    BY <1>1, <1>2, <1>3, <1>4, <1>5, <1>6, <1>7 DEF Commit

(* Writes go to the row that was read: a kick, role change or transfer      *)
(* decided about a membership that has ended never touches the membership   *)
(* the user has taken up since.                                             *)
THEOREM DecisionsStay == Spec => DecisionStaysWithItsRow
  <1>1. ASSUME RowsInv, [Next]_vars PROVE [StaysWithItsRow]_vars
    <2>1. ASSUME NEW h \in Handlers, Arrive(h) \/ Read(h) \/ Fail(h)
          PROVE  StaysWithItsRow
      BY <1>1, <2>1, SawGroupRead DEF Fail, data, StaysWithItsRow
    <2>2. ASSUME NEW h \in Handlers, Commit(h)
          PROVE  StaysWithItsRow
      BY <1>1, <2>2, CommitStaysWithItsRow
    <2>3. CASE Environment
      BY <1>1, <2>3 DEF Environment, Ban, Unban, PurgeUser, AdminDeleteGroup, PurgeGroup,
           RowsInv, TypeOK, StaysWithItsRow
    <2>. QED
      BY <1>1, <2>1, <2>2, <2>3 DEF Next
  <1>2. DecisionStaysWithItsRow <=> [][StaysWithItsRow]_vars
    BY PTL DEF DecisionStaysWithItsRow, StaysWithItsRow
  <1>. QED
    BY <1>1, <1>2, InitRows, RowsStep, PTL DEF Spec

-----------------------------------------------------------------------------
(* Steps that move no ownership: who owns the group stays, the group does    *)
(* not open, and a user who gets a new row is not its owner.                 *)
OwnersKept ==
  chat' = "active" =>
    /\ chat = "active"
    /\ \A u \in Users : role'[u] = "owner" <=> role[u] = "owner"
    /\ \A u \in Users : rows'[u] # rows[u] => role'[u] # "owner"

LivingKept == \A u \in Users : account'[u] \in Dead => account[u] \in Dead

LEMMA RequestFields ==
  ASSUME TypeOK, NEW h \in Handlers
  PROVE  /\ req[h].step \in {"idle", "requestor", "target", "commit"}
         /\ req[h].step # "idle" => req[h].by \in Users
         /\ req[h].op \in {"kick", "setRole", "transfer"} => req[h].on \in Users
         /\ req[h].op \in Ops \cup {"none"}
  BY DEF TypeOK, Request_

(* OneLivingOwner and what an untouched request knows survive such steps.    *)
LEMMA OneOwnerKept ==
  ASSUME OneLivingOwner, OwnersKept, LivingKept
  PROVE  OneLivingOwner'
  BY DEF OneLivingOwner, OwnersKept, LivingKept

LEMMA KnowledgeKept ==
  ASSUME TypeOK, OwnersKept, LivingKept,
         NEW h \in Handlers, RequestKnows(h), req'[h] = req[h]
  PROVE  RequestKnows(h)'
  BY RequestFields DEF RequestKnows, OwnersKept, LivingKept, OwnerStays, NotOwner

(* A request that has ended, or has read nothing yet, knows nothing.         *)
LEMMA IdleKnows == ASSUME NEW h \in Handlers, req'[h] = Idle PROVE RequestKnows(h)'
  BY DEF RequestKnows, Idle

-----------------------------------------------------------------------------
LEMMA InitOwnership == OwnershipInit => OwnershipInv
  <1>. SUFFICES ASSUME OwnershipInit PROVE OwnershipInv
    OBVIOUS
  <1>1. RowsInv /\ Init
    BY InitRows DEF OwnershipInit
  <1>2. OneLivingOwner
    BY <1>1 DEF Init, OneLivingOwner
  <1>3. \A h \in Handlers : RequestKnows(h)
    BY <1>1 DEF Init, RequestKnows, Idle
  <1>4. misled \in BOOLEAN
    BY Zenon DEF OwnershipInit
  <1>. QED
    BY <1>1, <1>2, <1>3, <1>4 DEF OwnershipInv, RowsInv

LEMMA ArriveKnows ==
  ASSUME TypeOK, NEW h \in Handlers, Arrive(h)
  PROVE  UNCHANGED data /\ RequestKnows(h)' /\ \A g \in Handlers \ {h} : req'[g] = req[g]
  <1>1. PICK r : /\ r.step = "requestor"
                 /\ account[r.by] = "active"
                 /\ req' = [req EXCEPT ![h] = r]
                 /\ UNCHANGED data
    BY DEF Arrive, ReceiveCreate, ReceiveAdd, ReceiveSimple, ReceiveKick, ReceiveSetRole,
         ReceiveTransfer, Receive, Request, Idle, Advance
  <1>2. req'[h] = r /\ \A g \in Handlers \ {h} : req'[g] = req[g]
    BY <1>1 DEF TypeOK
  <1>. QED
    BY <1>1, <1>2 DEF RequestKnows, data, Dead

LEMMA ReadOthers ==
  ASSUME TypeOK, NEW h \in Handlers, Read(h)
  PROVE  UNCHANGED data /\ \A g \in Handlers \ {h} : req'[g] = req[g]
  BY DEF TypeOK, Read, Advance, CreateCheck, AddRequestor, AddTargets, JoinCheck, LeaveRequestor,
     KickRequestor, KickTarget, SetRoleRequestor, SetRoleTarget, TransferRequestor,
     TransferTarget, DeleteGroupRequestor, DeleteAccountCheck, ReadRequestor

(* Each read establishes what its request relies on from then on.            *)
LEMMA ReadKnows ==
  ASSUME TypeOK, OneLivingOwner, NEW h \in Handlers, RequestKnows(h), Read(h)
  PROVE  RequestKnows(h)'
  <1>0. TypeOK /\ OneLivingOwner /\ RequestKnows(h) /\ req[h] \in Request_
    BY DEF TypeOK
  <1>. USE DEF At, Advance, data
  <1>1. CASE CreateCheck(h) \/ DeleteAccountCheck(h)
    <2>1. CASE CreateCheck(h)
      BY <1>0, <2>1 DEF CreateCheck, TypeOK, RequestKnows
    <2>2. CASE DeleteAccountCheck(h)
      BY <1>0, <2>2 DEF DeleteAccountCheck, TypeOK, RequestKnows, NotOwner
    <2>. QED
      BY <1>1, <2>1, <2>2
  <1>2. CASE AddTargets(h)
    BY <1>0, <1>2 DEF AddTargets, TypeOK, RequestKnows
  <1>3. CASE KickTarget(h)
    BY <1>0, <1>3 DEF KickTarget, TypeOK, RequestKnows, NotOwner, OwnerStays, OneLivingOwner
  <1>4. CASE SetRoleTarget(h)
    BY <1>0, <1>4 DEF SetRoleTarget, TypeOK, RequestKnows, NotOwner, OwnerStays, OneLivingOwner
  <1>5. CASE TransferTarget(h)
    BY <1>0, <1>5 DEF TransferTarget, TypeOK, RequestKnows, NotOwner, OwnerStays, Dead
  <1>6. CASE AddRequestor(h) \/ JoinCheck(h) \/ DeleteGroupRequestor(h)
    <2>1. CASE AddRequestor(h)
      BY <1>0, <2>1 DEF AddRequestor, ReadRequestor, TypeOK, RequestKnows
    <2>2. CASE JoinCheck(h)
      BY <1>0, <2>2 DEF JoinCheck, ReadRequestor, TypeOK, RequestKnows
    <2>3. CASE DeleteGroupRequestor(h)
      BY <1>0, <2>3 DEF DeleteGroupRequestor, ReadRequestor, TypeOK, RequestKnows
    <2>. QED
      BY <1>6, <2>1, <2>2, <2>3
  <1>7. CASE LeaveRequestor(h)
    BY <1>0, <1>7 DEF LeaveRequestor, ReadRequestor, TypeOK, RequestKnows, NotOwner
  <1>8. CASE KickRequestor(h)
    BY <1>0, <1>8 DEF KickRequestor, ReadRequestor, TypeOK, RequestKnows, OwnerStays
  <1>9. CASE SetRoleRequestor(h) \/ TransferRequestor(h)
    <2>1. CASE SetRoleRequestor(h)
      BY <1>0, <2>1 DEF SetRoleRequestor, ReadRequestor, TypeOK, RequestKnows, OwnerStays
    <2>2. CASE TransferRequestor(h)
      BY <1>0, <2>2 DEF TransferRequestor, ReadRequestor, TypeOK, RequestKnows, OwnerStays
    <2>. QED
      BY <1>9, <2>1, <2>2
  <1>. QED
    BY <1>1, <1>2, <1>3, <1>4, <1>5, <1>6, <1>7, <1>8, <1>9 DEF Read

-----------------------------------------------------------------------------
LEMMA DoneOthers ==
  ASSUME TypeOK, NEW h \in Handlers, Done(h)
  PROVE  req'[h] = Idle /\ \A g \in Handlers \ {h} : req'[g] = req[g]
  BY DEF TypeOK, Done

(* The commits that move no ownership.                                       *)
LEMMA QuietCommits ==
  ASSUME TypeOK, SawGroup, NoOrphanRows, NEW h \in Handlers, RequestKnows(h),
         \/ AddCommit(h) \/ JoinCommit(h) \/ LeaveCommit(h)
         \/ KickCommit(h) \/ SetRoleCommit(h) \/ DeleteGroupCommit(h)
  PROVE  OwnersKept /\ LivingKept
  <1>0. req[h] \in Request_
    BY DEF TypeOK
  <1>. USE RequestFields DEF At, OwnersKept, LivingKept
  <1>1. CASE AddCommit(h)
    BY <1>0, <1>1 DEF AddCommit, InsertMembers, CanInsert, SawGroup, TypeOK, Request_
  <1>2. CASE JoinCommit(h)
    BY <1>0, <1>2 DEF JoinCommit, InsertMembers, CanInsert, SawGroup, TypeOK
  <1>3. CASE LeaveCommit(h)
    BY <1>0, <1>3 DEF LeaveCommit, Present, RequestKnows, NotOwner, TypeOK
  <1>4. CASE KickCommit(h)
    BY <1>0, <1>4 DEF KickCommit, Present, RequestKnows, NotOwner, TypeOK
  <1>5. CASE SetRoleCommit(h)
    BY <1>0, <1>5 DEF SetRoleCommit, Present, RequestKnows, NotOwner, TypeOK
  <1>6. CASE DeleteGroupCommit(h)
    BY <1>0, <1>6 DEF DeleteGroupCommit
  <1>. QED
    BY <1>1, <1>2, <1>3, <1>4, <1>5, <1>6

(* The ownership moves.  Who relies on it is overtaken: a request that needs *)
(* its caller to be owner has seen the very user who hands over, as there is *)
(* one owner, and one that needs a user not to be has seen that user.        *)
LEMMA TransferKeeps ==
  ASSUME TypeOK, OneLivingOwner, NEW h \in Handlers, RequestKnows(h), TransferCommit(h)
  PROVE  /\ OneLivingOwner'
         /\ \A g \in Handlers \ {h} : RequestKnows(g) /\ ~Overtakes(h, g) => RequestKnows(g)'
  <1>. USE RequestFields DEF At
  <1>1. /\ req[h].op = "transfer" /\ req[h].by \in Users /\ req[h].on \in Users
        /\ OwnerStays(req[h].by) /\ NotOwner(req[h].on) /\ account[req[h].on] \notin Dead
        /\ UNCHANGED <<account, chat, rows>>
    BY DEF TransferCommit, RequestKnows
  <1>2. OneLivingOwner'
    BY <1>1 DEF TransferCommit, OneLivingOwner, OwnerStays, NotOwner, TypeOK
  <1>3. ASSUME NEW g \in Handlers \ {h}, RequestKnows(g), ~Overtakes(h, g)
        PROVE  RequestKnows(g)'
    <2>1. req'[g] = req[g]
      BY DoneOthers DEF TransferCommit
    <2>2. CASE req[g].op \notin RoleReaders \/ req[g].step \notin {"target", "commit"}
      BY <1>1, <1>3, <2>1, <2>2 DEF RequestKnows, RoleReaders
    <2>3. CASE req[g].op \in RoleReaders /\ req[g].step \in {"target", "commit"}
      <3>1. req[g].by \notin {req[h].by, req[h].on}
        BY <1>1, <1>3, <2>3 DEF Overtakes, Seen
      <3>2. req[g].step = "commit" => req[g].on \notin {req[h].by, req[h].on}
        BY <1>1, <1>3, <2>3 DEF Overtakes, Seen
      <3>3. ~(chat = "active" /\ role[req[g].by] = "owner")
        BY <1>1, <2>3, <3>1 DEF OneLivingOwner, OwnerStays
      <3>4. OwnerStays(req[g].by) => OwnerStays(req[g].by)'
        BY <1>1, <3>3 DEF OwnerStays
      <3>5. \A u \in Users \ {req[h].on} : NotOwner(u) => NotOwner(u)'
        BY <1>1 DEF NotOwner, TransferCommit, TypeOK
      <3>. QED
        BY <1>1, <1>3, <2>1, <2>3, <3>1, <3>2, <3>4, <3>5 DEF RequestKnows, RoleReaders
    <2>. QED
      BY <2>2, <2>3
  <1>. QED
    BY <1>2, <1>3

(* The group opens: nobody has read it yet, and an account deletion that     *)
(* found its creator without groups is overtaken.                            *)
LEMMA CreateKeeps ==
  ASSUME TypeOK, SawGroup, NEW h \in Handlers, RequestKnows(h), CreateCommit(h)
  PROVE  /\ OneLivingOwner'
         /\ \A g \in Handlers \ {h} : RequestKnows(g) /\ ~Overtakes(h, g) => RequestKnows(g)'
  <1>. USE RequestFields DEF At
  <1>1. /\ req[h].op = "create" /\ req[h].by \in Users
        /\ account[req[h].by] \notin Dead /\ UNCHANGED account
    BY DEF CreateCommit, RequestKnows
  <1>2. OneLivingOwner'
    BY <1>1 DEF CreateCommit, OneLivingOwner, TypeOK
  <1>3. ASSUME NEW g \in Handlers \ {h}, RequestKnows(g), ~Overtakes(h, g)
        PROVE  RequestKnows(g)'
    <2>1. req'[g] = req[g]
      BY DoneOthers DEF CreateCommit
    <2>2. CASE req[g].op = "deleteAccount"
      <3>1. req[g].step = "commit" => NotOwner(req[g].by)'
        <4>. SUFFICES ASSUME req[g].step = "commit" PROVE role'[req[g].by] # "owner"
          BY <2>1 DEF NotOwner
        <4>1. req[g].by # req[h].by /\ req[g].by \in Users
          BY <1>1, <1>3, <2>2 DEF Overtakes, Seen
        <4>. QED
          BY <4>1 DEF CreateCommit
      <3>. QED
        BY <2>1, <2>2, <3>1 DEF RequestKnows
    <2>3. CASE req[g].op # "deleteAccount"
      <3>1. req[g].op \in {"none", "create"} \/ req[g].step \notin {"target", "commit"}
        BY <2>3 DEF SawGroup, CreateCommit
      <3>. QED
        BY <1>1, <1>3, <2>1, <2>3, <3>1 DEF RequestKnows
    <2>. QED
      BY <2>2, <2>3
  <1>. QED
    BY <1>2, <1>3

(* An account is deleted: not the owner's; who is about to make its user an  *)
(* owner is overtaken.                                                       *)
LEMMA DeleteAccountKeeps ==
  ASSUME TypeOK, OneLivingOwner, NEW h \in Handlers, RequestKnows(h), DeleteAccountCommit(h)
  PROVE  /\ OneLivingOwner'
         /\ \A g \in Handlers \ {h} : RequestKnows(g) /\ ~Overtakes(h, g) => RequestKnows(g)'
  <1>. USE RequestFields DEF At
  <1>1. /\ req[h].op = "deleteAccount" /\ req[h].by \in Users /\ NotOwner(req[h].by)
        /\ UNCHANGED <<chat, role, rows>>
    BY DEF DeleteAccountCommit, RequestKnows
  <1>2. OneLivingOwner'
    BY <1>1 DEF DeleteAccountCommit, OneLivingOwner, NotOwner, TypeOK
  <1>3. ASSUME NEW g \in Handlers \ {h}, RequestKnows(g), ~Overtakes(h, g)
        PROVE  RequestKnows(g)'
    <2>1. req'[g] = req[g]
      BY DoneOthers DEF DeleteAccountCommit
    <2>2. \A u \in Users \ {req[h].by} : account'[u] = account[u]
      BY DEF DeleteAccountCommit, TypeOK
    <2>3. req[g].op = "create" => req[g].by # req[h].by
      BY <1>1, <1>3 DEF Overtakes
    <2>4. req[g].op = "transfer" /\ req[g].step = "commit" => req[g].on # req[h].by
      BY <1>1, <1>3 DEF Overtakes
    <2>. QED
      BY <1>1, <1>3, <2>1, <2>2, <2>3, <2>4 DEF RequestKnows, OwnerStays, NotOwner
  <1>. QED
    BY <1>2, <1>3

LEMMA CommitKeeps ==
  ASSUME TypeOK, SawGroup, NoOrphanRows, OneLivingOwner,
         NEW h \in Handlers, RequestKnows(h), Commit(h)
  PROVE  /\ OneLivingOwner'
         /\ \A g \in Handlers \ {h} : RequestKnows(g) /\ ~Overtakes(h, g) => RequestKnows(g)'
  <1>1. CASE \/ AddCommit(h) \/ JoinCommit(h) \/ LeaveCommit(h)
             \/ KickCommit(h) \/ SetRoleCommit(h) \/ DeleteGroupCommit(h)
    <2>1. Done(h)
      BY <1>1 DEF AddCommit, JoinCommit, LeaveCommit, KickCommit, SetRoleCommit, DeleteGroupCommit
    <2>2. OwnersKept /\ LivingKept
      BY <1>1, QuietCommits
    <2>. QED
      BY <2>1, <2>2, DoneOthers, KnowledgeKept, OneOwnerKept
  <1>. QED
    BY <1>1, TransferKeeps, CreateKeeps, DeleteAccountKeeps DEF Commit

LEMMA EnvironmentQuiet ==
  ASSUME TypeOK, OneLivingOwner, Environment
  PROVE  OwnersKept /\ LivingKept /\ UNCHANGED req
  <1>1. UNCHANGED req
    BY DEF Environment, Ban, Unban, PurgeUser, AdminDeleteGroup, PurgeGroup
  <1>2. LivingKept
    BY DEF Environment, Ban, Unban, PurgeUser, AdminDeleteGroup, PurgeGroup, LivingKept,
       TypeOK, Dead
  <1>3. OwnersKept
    BY DEF Environment, Ban, Unban, PurgeUser, AdminDeleteGroup, PurgeGroup, OwnersKept,
       OneLivingOwner, TypeOK, Dead
  <1>. QED
    BY <1>1, <1>2, <1>3

(* The history adds nothing to what the handlers do.                         *)
LEMMA HistoryStep == [OwnershipNext]_ownershipVars => [Next]_vars
  BY DEF OwnershipNext, ownershipVars, Next

LEMMA OwnershipStep ==
  OwnershipInv /\ [OwnershipNext]_ownershipVars => OwnershipInv'
  <1>. SUFFICES ASSUME OwnershipInv, [OwnershipNext]_ownershipVars
                PROVE  OwnershipInv'
    OBVIOUS
  <1>0. /\ TypeOK /\ SawGroup /\ NoOrphanRows
        /\ ~misled => OneLivingOwner /\ \A h \in Handlers \ overtaken : RequestKnows(h)
    BY DEF OwnershipInv
  <1>1. RowsInv'
    BY <1>0, HistoryStep, RowsStep DEF RowsInv
  <1>2. misled' \in BOOLEAN /\ (misled => misled')
    BY Zenon DEF OwnershipInv, OwnershipNext, ownershipVars, history, Committed, Ended
  <1>. SUFFICES ASSUME ~misled'
                PROVE  OneLivingOwner' /\ \A g \in Handlers \ overtaken' : RequestKnows(g)'
    BY <1>1, <1>2 DEF OwnershipInv, RowsInv
  <1>3. OneLivingOwner /\ \A h \in Handlers \ overtaken : RequestKnows(h)
    BY <1>0, <1>2
  <1>4. CASE UNCHANGED ownershipVars
    BY <1>3, <1>4 DEF ownershipVars, vars, history, OneLivingOwner, RequestKnows, OwnerStays,
       NotOwner
  <1>5. ASSUME NEW h \in Handlers, Arrive(h) \/ Read(h), UNCHANGED history
        PROVE  OneLivingOwner' /\ \A g \in Handlers \ overtaken' : RequestKnows(g)'
    <2>1. UNCHANGED data /\ \A g \in Handlers \ {h} : req'[g] = req[g]
      BY <1>0, <1>5, ArriveKnows, ReadOthers
    <2>2. OwnersKept /\ LivingKept
      BY <2>1 DEF data, OwnersKept, LivingKept
    <2>3. overtaken' = overtaken
      BY <1>5 DEF history
    <2>4. h \notin overtaken => RequestKnows(h)'
      BY <1>0, <1>3, <1>5, ArriveKnows, ReadKnows
    <2>. QED
      BY <1>0, <1>3, <2>1, <2>2, <2>3, <2>4, OneOwnerKept, KnowledgeKept
  <1>6. ASSUME NEW h \in Handlers, Commit(h), Committed(h)
        PROVE  OneLivingOwner' /\ \A g \in Handlers \ overtaken' : RequestKnows(g)'
    <2>1. h \notin overtaken
      BY <1>6 DEF Committed
    <2>2. Done(h)
      BY <1>6 DEF Commit, CreateCommit, AddCommit, JoinCommit, LeaveCommit, KickCommit,
         SetRoleCommit, TransferCommit, DeleteGroupCommit, DeleteAccountCommit
    <2>3. RequestKnows(h)'
      BY <1>0, <2>2, DoneOthers, IdleKnows
    <2>4. \A g \in Handlers \ overtaken' : g # h => g \notin overtaken /\ ~Overtakes(h, g)
      BY <1>6 DEF Committed
    <2>. QED
      BY <1>0, <1>3, <1>6, <2>1, <2>3, <2>4, CommitKeeps
  <1>7. ASSUME NEW h \in Handlers, Fail(h), Ended(h)
        PROVE  OneLivingOwner' /\ \A g \in Handlers \ overtaken' : RequestKnows(g)'
    <2>1. /\ UNCHANGED data /\ req'[h] = Idle
          /\ \A g \in Handlers \ {h} : req'[g] = req[g]
      BY <1>0, <1>7, DoneOthers DEF Fail
    <2>2. OwnersKept /\ LivingKept
      BY <2>1 DEF data, OwnersKept, LivingKept
    <2>. QED
      BY <1>0, <1>3, <1>7, <2>1, <2>2, OneOwnerKept, KnowledgeKept, IdleKnows DEF Ended
  <1>8. CASE Environment /\ UNCHANGED history
    BY <1>0, <1>3, <1>8, EnvironmentQuiet, OneOwnerKept, KnowledgeKept DEF history
  <1>. QED
    BY <1>4, <1>5, <1>6, <1>7, <1>8 DEF OwnershipNext

(* An active group has exactly one owner, and that owner's account is not    *)
(* deleted, under every interleaving in which no request has committed that  *)
(* a transfer, a creation or an account deletion had overtaken: nothing else *)
(* that makes a read stale takes the owner away.                             *)
THEOREM OneOwnerAlways == OwnershipSpec => []OneOwnerUnlessMisled
  <1>1. OwnershipInv => OneOwnerUnlessMisled
    BY DEF OwnershipInv, OneOwnerUnlessMisled
  <1>. QED
    BY <1>1, InitOwnership, OwnershipStep, PTL DEF OwnershipSpec

-----------------------------------------------------------------------------
(* The refinement: what the mapping shows before and after a step.           *)
LEMMA OwnerShown ==
  ASSUME OneLivingOwner, chat = "active", NEW o \in Users, role[o] = "owner"
  PROVE  TheOwner = o
  BY DEF TheOwner, OneLivingOwner

LEMMA OwnerShownNext ==
  ASSUME OneLivingOwner', chat' = "active", NEW o \in Users, role'[o] = "owner"
  PROVE  TheOwner' = o
  BY DEF TheOwner, OneLivingOwner

LEMMA NobodyShown ==
  /\ chat # "active" => TheOwner = NoUser
  /\ chat' # "active" => TheOwner' = NoUser
  BY DEF TheOwner

(* Steps that leave the owner and the chat alone show nothing.               *)
LEMMA OwnerUnshown ==
  ASSUME OneLivingOwner, OneLivingOwner', UNCHANGED chat, OwnersKept
  PROVE  UNCHANGED <<Status, TheOwner>>
  <1>1. CASE chat = "active"
    <2>1. PICK o \in Users : role[o] = "owner"
      BY <1>1 DEF OneLivingOwner
    <2>2. role'[o] = "owner"
      BY <1>1, <2>1 DEF OwnersKept
    <2>. QED
      BY <1>1, <2>1, <2>2, OwnerShown, OwnerShownNext DEF Status
  <1>2. CASE chat # "active"
    BY <1>2, NobodyShown DEF Status
  <1>. QED
    BY <1>1, <1>2

LEMMA GoneUnshown ==
  ASSUME \A u \in Users : account'[u] \in Dead <=> account[u] \in Dead
  PROVE  UNCHANGED Gone
  BY DEF Gone

LEMMA CloseShown ==
  ASSUME chat = "active", chat' = "deleted", UNCHANGED account
  PROVE  Promise!Close
  BY NobodyShown DEF Promise!Close, Status, Gone

LEMMA CommitShown ==
  ASSUME TypeOK, SawGroup, NoOrphanRows, OneLivingOwner, OneLivingOwner',
         NEW h \in Handlers, RequestKnows(h), Commit(h)
  PROVE  Promise!Next \/ UNCHANGED <<Status, TheOwner, Gone>>
  <1>. USE RequestFields DEF At
  <1>1. CASE AddCommit(h) \/ JoinCommit(h) \/ LeaveCommit(h) \/ KickCommit(h) \/ SetRoleCommit(h)
    <2>1. UNCHANGED <<chat, account>>
      BY <1>1 DEF AddCommit, JoinCommit, LeaveCommit, KickCommit, SetRoleCommit
    <2>2. OwnersKept
      BY <1>1, QuietCommits
    <2>. QED
      BY <2>1, <2>2, OwnerUnshown, GoneUnshown
  <1>2. CASE DeleteGroupCommit(h)
    <2>1. chat \in {"active", "deleted"} /\ chat' = "deleted" /\ UNCHANGED account
      BY <1>2 DEF DeleteGroupCommit, SawGroup, TypeOK
    <2>2. CASE chat = "active"
      BY <2>1, <2>2, CloseShown DEF Promise!Next
    <2>3. CASE chat = "deleted"
      BY <2>1, <2>3, NobodyShown, GoneUnshown DEF Status
    <2>. QED
      BY <2>1, <2>2, <2>3
  <1>3. CASE CreateCommit(h)
    <2>. DEFINE u == req[h].by
    <2>1. /\ u \in Users /\ account[u] \notin Dead /\ UNCHANGED account
          /\ chat = "none" /\ chat' = "active" /\ role'[u] = "owner"
      BY <1>3 DEF CreateCommit, RequestKnows, TypeOK
    <2>2. TheOwner' = u
      BY <2>1, OwnerShownNext
    <2>3. Promise!Create(u)
      BY <2>1, <2>2 DEF Promise!Create, Status, Gone
    <2>. QED
      BY <2>1, <2>3 DEF Promise!Next
  <1>4. CASE TransferCommit(h)
    <2>. DEFINE u == req[h].by
                t == req[h].on
    <2>1. /\ u \in Users /\ t \in Users /\ OwnerStays(u) /\ NotOwner(t) /\ account[t] \notin Dead
          /\ role'[t] = "owner" /\ UNCHANGED <<account, chat>>
      BY <1>4 DEF TransferCommit, RequestKnows, TypeOK
    <2>2. CASE chat = "active"
      <3>1. TheOwner = u /\ TheOwner' = t /\ u # t
        BY <2>1, <2>2, OwnerShown, OwnerShownNext DEF OwnerStays, NotOwner
      <3>2. Promise!Transfer(t)
        BY <2>1, <2>2, <3>1 DEF Promise!Transfer, Status, Gone
      <3>. QED
        BY <2>1, <3>2 DEF Promise!Next
    <2>3. CASE chat # "active"
      BY <2>1, <2>3, NobodyShown, GoneUnshown DEF Status
    <2>. QED
      BY <2>2, <2>3
  <1>5. CASE DeleteAccountCommit(h)
    <2>. DEFINE u == req[h].by
    <2>1. /\ u \in Users /\ NotOwner(u) /\ UNCHANGED <<chat, role, rows>>
          /\ account' = [account EXCEPT ![u] = "deleted"]
      BY <1>5 DEF DeleteAccountCommit, RequestKnows
    <2>2. UNCHANGED <<Status, TheOwner>>
      BY <2>1, OwnerUnshown DEF OwnersKept
    <2>3. u # TheOwner
      <3>1. CASE chat = "active"
        <4>1. PICK o \in Users : role[o] = "owner"
          BY <3>1 DEF OneLivingOwner
        <4>. QED
          BY <2>1, <3>1, <4>1, OwnerShown DEF NotOwner
      <3>2. CASE chat # "active"
        BY <2>1, <3>2, NobodyShown, MembershipAssumption
      <3>. QED
        BY <3>1, <3>2
    <2>4. Gone' = Gone \cup {u}
      BY <2>1 DEF Gone, Dead, TypeOK
    <2>5. Promise!DeleteAccount(u)
      BY <2>2, <2>3, <2>4 DEF Promise!DeleteAccount
    <2>. QED
      BY <2>1, <2>5 DEF Promise!Next
  <1>. QED
    BY <1>1, <1>2, <1>3, <1>4, <1>5 DEF Commit

LEMMA EnvironmentShown ==
  ASSUME TypeOK, OneLivingOwner, OneLivingOwner', Environment
  PROVE  Promise!Next \/ UNCHANGED <<Status, TheOwner, Gone>>
  <1>1. CASE \E u \in Users : Ban(u) \/ Unban(u) \/ PurgeUser(u)
    <2>1. UNCHANGED chat /\ OwnersKept
      BY <1>1 DEF Ban, Unban, PurgeUser, OwnersKept, OneLivingOwner, TypeOK, Dead
    <2>2. \A u \in Users : account'[u] \in Dead <=> account[u] \in Dead
      BY <1>1 DEF Ban, Unban, PurgeUser, TypeOK, Dead
    <2>. QED
      BY <2>1, <2>2, OwnerUnshown, GoneUnshown
  <1>2. CASE AdminDeleteGroup
    BY <1>2, CloseShown DEF AdminDeleteGroup, Promise!Next
  <1>3. CASE PurgeGroup
    <2>1. Status' = Status
      BY <1>3 DEF PurgeGroup, Status
    <2>. QED
      BY <1>3, <2>1, NobodyShown, GoneUnshown DEF PurgeGroup
  <1>. QED
    BY <1>1, <1>2, <1>3 DEF Environment

LEMMA StepShown ==
  ASSUME OwnershipInv, OwnershipInv', [OwnershipNext]_ownershipVars, ~misled'
  PROVE  [Promise!Next]_(Promise!vars)
  <1>. USE DEF Promise!vars
  <1>0. /\ TypeOK /\ SawGroup /\ NoOrphanRows /\ OneLivingOwner /\ OneLivingOwner'
        /\ \A h \in Handlers \ overtaken : RequestKnows(h)
    BY DEF OwnershipInv, OwnershipNext, ownershipVars, history, Committed, Ended
  <1>1. CASE UNCHANGED data
    <2>1. UNCHANGED <<Status, TheOwner, Gone>>
      BY <1>1 DEF data, Status, TheOwner, Gone
    <2>. QED
      BY <2>1
  <1>2. ASSUME NEW h \in Handlers, Commit(h), Committed(h)
        PROVE  [Promise!Next]_(Promise!vars)
    <2>1. RequestKnows(h)
      BY <1>0, <1>2 DEF Committed
    <2>. QED
      BY <1>0, <1>2, <2>1, CommitShown
  <1>3. CASE Environment
    BY <1>0, <1>3, EnvironmentShown
  <1>4. ASSUME NEW h \in Handlers, Arrive(h) \/ Read(h) \/ Fail(h)
        PROVE  UNCHANGED data
    BY <1>0, <1>4, ArriveKnows, ReadOthers DEF Fail
  <1>. QED
    BY <1>1, <1>2, <1>3, <1>4 DEF OwnershipNext, ownershipVars, vars, data

LEMMA InitShown == Init => Promise!Init
  BY NobodyShown DEF Init, Promise!Init, Status, Gone, Dead

(* Whatever users and requests there are, the handlers implement the         *)
(* abstract group until an overtaken request commits: create, transfer from  *)
(* the one owner, close, and delete only accounts that own nothing.          *)
THEOREM HandlersKeepPromise == OwnershipSpec => KeepsPromise
  <1>1. OwnershipInit => Promise!Init
    BY InitShown DEF OwnershipInit
  <1>2. OwnershipInv /\ OwnershipInv' /\ [OwnershipNext]_ownershipVars
          => [misled' \/ [Promise!Next]_(Promise!vars)]_ownershipVars
    BY StepShown
  <1>. QED
    BY <1>1, <1>2, InitOwnership, OwnershipStep, PTL DEF OwnershipSpec, KeepsPromise
=============================================================================
