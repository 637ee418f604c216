----------------------------- MODULE Messaging -----------------------------
(***************************************************************************)
(* One conversation: what SendMessage, MarkAsRead and HideChat do to its   *)
(* chats row and to each participant's unread count, read receipt and      *)
(* hiding time (columns of the private_chats row, or of the member's row). *)
(*                                                                         *)
(* SendMessage and MarkAsRead are transactions: the INSERT of the message  *)
(* takes the foreign key's share lock of the chats row, the UPDATE of the  *)
(* chat an exclusive one, and MarkAsRead starts with SELECT FOR UPDATE.    *)
(* HideChat takes no lock of the chat.  Each stamps its times from the     *)
(* clock of the API process, before the write they go into.                *)
(***************************************************************************)
EXTENDS Naturals, Sequences, FiniteSets

CONSTANTS
  Users,
  Requests,    \* requests in progress at once
  NoUser,
  MaxTime,     \* bound: the clock stops there
  MaxMessages  \* bound: messages sent in the conversation

ASSUME MessagingAssumption ==
  /\ NoUser \notin Users
  /\ IsFiniteSet(Users)
  /\ MaxTime \in Nat \ {0}
  /\ MaxMessages \in Nat

VARIABLES
  now,         \* the clock
  kind,        \* chats.type, immutable
  members,     \* the two users of a private chat, the members of a group
  blocked,     \* a user_blocks row exists between the two users
  log,         \* the regular messages, in the order they committed
  lastAt,      \* chats.last_message_at, 0 for NULL
  unread,      \* unread_count of each participant
  lastRead,    \* last_read_at of each participant, 0 for NULL
  hidden,      \* hidden_at of each user of a private chat, 0 for NULL
  request,     \* what each request is doing
  missed,      \* history: messages of others the participant has not
               \* acknowledged by sending, reading or hiding the chat
  receipted    \* history: messages of others the participant acknowledged
               \* by sending or reading, not blocked

columns == <<lastAt, unread, lastRead, hidden>>
history == <<missed, receipted>>
vars == <<now, kind, members, blocked, log, columns, request, history>>

Free == [step |-> "free", user |-> NoUser, created |-> 0, stamp |-> 0, upto |-> 0]

Init ==
  /\ now = 1
  /\ kind \in {"private", "group"}
  /\ members \in (SUBSET Users) \ {{}}
  /\ kind = "private" => Cardinality(members) = 2
  /\ blocked = FALSE
  /\ log = <<>>
  /\ lastAt = 0
  /\ unread = [u \in Users |-> 0]
  /\ lastRead = [u \in Users |-> 0]
  /\ hidden = [u \in Users |-> 0]
  /\ request = [r \in Requests |-> Free]
  /\ missed = [u \in Users |-> {}]
  /\ receipted = [u \in Users |-> {}]

Tick ==
  /\ now < MaxTime
  /\ now' = now + 1
  /\ UNCHANGED <<kind, members, blocked, log, columns, request, history>>

At(r, step) == request[r].step = step
Finish(r) == request' = [request EXCEPT ![r] = Free]

\* History: the messages u acknowledges with request r, which was granted the
\* chat's lock when the log was upto long, whatever committed since.
Acknowledged(r, u) == {i \in missed[u] : i <= request[r].upto}

(***************************************************************************)
(* Locks of the chats row.  They last until the transaction ends.          *)
(***************************************************************************)
Sharing == {r \in Requests : At(r, "inserted")}                \* FOR KEY SHARE
Updating == {r \in Requests : At(r, "updated")}         \* FOR NO KEY UPDATE
Reading == {r \in Requests : At(r, "reading")}                 \* FOR UPDATE

(***************************************************************************)
(* SendMessage.                                                            *)
(***************************************************************************)
\* The checks, then the message is built and gets its created_at.  They read
\* no lock: a block or a kick may still come before the INSERT.  The checks of
\* the other account, of the reply and of the attachments only refuse.
SendCreate(r, u) ==
  /\ At(r, "free")
  /\ u \in members
  /\ kind = "private" => ~blocked
  /\ request' = [request EXCEPT ![r] =
                   [step |-> "created", user |-> u, created |-> now,
                    stamp |-> 0, upto |-> 0]]
  /\ UNCHANGED <<now, kind, members, blocked, log, columns, history>>

SendInsert(r) ==
  /\ At(r, "created")
  /\ Reading = {}
  /\ request' = [request EXCEPT ![r].step = "inserted"]
  /\ UNCHANGED <<now, kind, members, blocked, log, columns, history>>

\* Mutant: the receipt is the time of the message.
SendUpdateChatAtCreation(r) ==
  /\ At(r, "inserted")
  /\ Updating = {} /\ Reading = {}
  /\ request' = [request EXCEPT ![r].step = "updated",
                                ![r].stamp = request[r].created,
                                ![r].upto = Len(log)]
  /\ UNCHANGED <<now, kind, members, blocked, log, columns, history>>

\* UPDATE chats; then time.Now() for the sender's last_read_at.
SendUpdateChat(r) ==
  /\ At(r, "inserted")
  /\ Updating = {} /\ Reading = {}
  /\ request' = [request EXCEPT ![r].step = "updated", ![r].stamp = now,
                                ![r].upto = Len(log)]
  /\ UNCHANGED <<now, kind, members, blocked, log, columns, history>>

\* The counters and COMMIT.  A sender who was removed meanwhile has no row.
SendCommit(r) ==
  LET sender == request[r].user
      others == members \ {sender}
      self == members \intersect {sender}
      next == Len(log) + 1
  IN  /\ At(r, "updated")
      /\ Len(log) < MaxMessages
      /\ log' = Append(log, [by |-> sender, at |-> request[r].created])
      /\ lastAt' = request[r].created
      /\ unread' = [u \in Users |-> CASE u \in others -> unread[u] + 1
                                      [] u \in self -> 0
                                      [] OTHER -> unread[u]]
      /\ lastRead' = [u \in Users |-> IF u \in self THEN request[r].stamp
                                                    ELSE lastRead[u]]
      /\ missed' = [u \in Users |-> CASE u \in others -> missed[u] \union {next}
                                      [] u \in self -> missed[u] \ Acknowledged(r, u)
                                      [] OTHER -> missed[u]]
      /\ receipted' = [u \in Users |-> IF u \in self
                                       THEN receipted[u] \union Acknowledged(r, u)
                                       ELSE receipted[u]]
      /\ Finish(r)
      /\ UNCHANGED <<now, kind, members, blocked, hidden>>

\* Mutant: no FOR UPDATE.
ReadUnlocked(r, u) ==
  /\ At(r, "free")
  /\ u \in members
  /\ unread[u] > 0
  /\ request' = [request EXCEPT ![r] =
                   [step |-> "reading", user |-> u, created |-> 0,
                    stamp |-> IF kind = "private" /\ blocked THEN 0 ELSE now,
                    upto |-> Len(log)]]
  /\ UNCHANGED <<now, kind, members, blocked, log, columns, history>>

(***************************************************************************)
(* MarkAsRead: lock the chat, read the count, stamp; a blocked pair gets   *)
(* no receipt (stamp 0).  With nothing unread the request just returns.    *)
(***************************************************************************)
ReadLock(r, u) ==
  /\ At(r, "free")
  /\ Sharing = {} /\ Updating = {} /\ Reading = {}
  /\ u \in members
  /\ unread[u] > 0
  /\ request' = [request EXCEPT ![r] =
                   [step |-> "reading", user |-> u, created |-> 0,
                    stamp |-> IF kind = "private" /\ blocked THEN 0 ELSE now,
                    upto |-> Len(log)]]
  /\ UNCHANGED <<now, kind, members, blocked, log, columns, history>>

ReadCommit(r) ==
  LET u == request[r].user
      receipt == request[r].stamp # 0
  IN  /\ At(r, "reading")
      /\ unread' = [unread EXCEPT ![u] = 0]
      /\ lastRead' = IF receipt THEN [lastRead EXCEPT ![u] = request[r].stamp]
                                ELSE lastRead
      /\ missed' = [missed EXCEPT ![u] = @ \ Acknowledged(r, u)]
      /\ receipted' = IF receipt
                      THEN [receipted EXCEPT ![u] = @ \union Acknowledged(r, u)]
                      ELSE receipted
      /\ Finish(r)
      /\ UNCHANGED <<now, kind, members, blocked, log, lastAt, hidden>>
(***************************************************************************)
(* HideChat, private chats only: time.Now(), then one UPDATE.              *)
(***************************************************************************)
HideStamp(r, u) ==
  /\ At(r, "free")
  /\ kind = "private"
  /\ u \in members
  /\ request' = [request EXCEPT ![r] =
                   [step |-> "hiding", user |-> u, created |-> 0,
                    stamp |-> now, upto |-> 0]]
  /\ UNCHANGED <<now, kind, members, blocked, log, columns, history>>

\* Mutant: the count goes down by one.
HideWriteDecrement(r) ==
  LET u == request[r].user
  IN  /\ At(r, "hiding")
      /\ hidden' = [hidden EXCEPT ![u] = request[r].stamp]
      /\ unread' = [unread EXCEPT ![u] = @ - 1]
      /\ missed' = [missed EXCEPT ![u] = {}]
      /\ Finish(r)
      /\ UNCHANGED <<now, kind, members, blocked, log, lastAt, lastRead, receipted>>

HideWrite(r) ==
  LET u == request[r].user
  IN  /\ At(r, "hiding")
      /\ hidden' = [hidden EXCEPT ![u] = request[r].stamp]
      /\ unread' = [unread EXCEPT ![u] = 0]
      /\ missed' = [missed EXCEPT ![u] = {}]
      /\ Finish(r)
      /\ UNCHANGED <<now, kind, members, blocked, log, lastAt, lastRead, receipted>>

\* Any statement, or the COMMIT, may fail: the transaction rolls back.
Fail(r) ==
  /\ ~At(r, "free")
  /\ Finish(r)
  /\ UNCHANGED <<now, kind, members, blocked, log, columns, history>>

(***************************************************************************)
(* The rest of the system, as far as it touches this state.                *)
(***************************************************************************)
BlockUser ==
  /\ ~blocked
  /\ blocked' = TRUE
  /\ UNCHANGED <<now, kind, members, log, columns, request, history>>

UnblockUser ==
  /\ blocked
  /\ blocked' = FALSE
  /\ UNCHANGED <<now, kind, members, log, columns, request, history>>

\* Joining and leaving a group: transactions that end with a system message,
\* which nobody's unread count includes, and an UPDATE of the chats row.
\* GroupMembership has their steps; here each is its commit.
Join(u) ==
  /\ kind = "group"
  /\ Updating = {} /\ Reading = {}
  /\ u \notin members
  /\ members' = members \union {u}
  /\ lastAt' = now
  /\ UNCHANGED <<now, kind, blocked, log, unread, lastRead, hidden, request, history>>

\* The member's row goes, its count and receipt with it.
Leave(u) ==
  /\ kind = "group"
  /\ Updating = {} /\ Reading = {}
  /\ u \in members
  /\ members' = members \ {u}
  /\ lastAt' = now
  /\ unread' = [unread EXCEPT ![u] = 0]
  /\ lastRead' = [lastRead EXCEPT ![u] = 0]
  /\ missed' = [missed EXCEPT ![u] = {}]
  /\ receipted' = [receipted EXCEPT ![u] = {}]
  /\ UNCHANGED <<now, kind, blocked, log, hidden, request>>

Next ==
  \/ Tick
  \/ BlockUser
  \/ UnblockUser
  \/ \E u \in Users : Join(u) \/ Leave(u)
  \/ \E r \in Requests, u \in Users :
       SendCreate(r, u) \/ ReadLock(r, u) \/ HideStamp(r, u)
  \/ \E r \in Requests :
       \/ SendInsert(r) \/ SendUpdateChat(r) \/ SendCommit(r)
       \/ ReadCommit(r) \/ HideWrite(r) \/ Fail(r)

Spec == Init /\ [][Next]_vars

(***************************************************************************)
(* What the users are shown.                                               *)
(***************************************************************************)
\* Mutant: GT for GTE.
ListedAtEqualTimes(u) == lastAt # 0 /\ (hidden[u] = 0 \/ hidden[u] <= lastAt)

\* Mutant: a hidden chat stays hidden.
ListedUnlessHidden(u) == lastAt # 0 /\ hidden[u] = 0

\* GetChats lists the chat to u.
Listed(u) == lastAt # 0 /\ (hidden[u] = 0 \/ hidden[u] < lastAt)

\* GetMessages shows u the i-th message.
Shown(u, i) == hidden[u] = 0 \/ log[i].at > hidden[u]

(***************************************************************************)
(* Properties.                                                             *)
(***************************************************************************)
ChatType ==
  /\ now \in 1..MaxTime
  /\ kind \in {"private", "group"}
  /\ members \in SUBSET Users
  /\ blocked \in BOOLEAN
  /\ log \in Seq([by : Users, at : 1..MaxTime])
  /\ Len(log) <= MaxMessages
  /\ lastAt \in 0..MaxTime

ParticipantsType ==
  /\ unread \in [Users -> Nat]
  /\ lastRead \in [Users -> 0..MaxTime]
  /\ hidden \in [Users -> 0..MaxTime]

RequestRecord ==
  [step : {"free", "created", "inserted", "updated", "reading", "hiding"},
   user : Users \union {NoUser}, created : 0..MaxTime, stamp : 0..MaxTime, upto : Nat]

RequestType ==
  /\ request \in [Requests -> RequestRecord]
  /\ \A r \in Requests :
       /\ ~At(r, "free") => request[r].user \in Users
       /\ request[r].step \in {"created", "inserted", "updated"} => request[r].created > 0

HistoryType ==
  /\ missed \in [Users -> SUBSET (1..Len(log))]
  /\ receipted \in [Users -> SUBSET (1..Len(log))]

\* Every variable keeps to its type.
TypeOK == ChatType /\ ParticipantsType /\ RequestType /\ HistoryType

\* A participant's unread count is the number of messages of others committed
\* since: a read or a send that runs beside other sends neither swallows one it
\* was not granted on nor counts one twice (the locks of message_service.go's
\* SendMessage and chat_service.go's MarkAsRead).
CountsExact ==
  \A u \in members : unread[u] = Cardinality(missed[u])

\* A message that its reader acknowledged, by reading or by answering, is at
\* or before the reader's receipt, so its sender is shown it as read: the
\* created_at a message was given before it waited for locks never overtakes
\* the receipt of the request that acknowledged it.
ReceiptsCover ==
  \A u \in members : \A i \in receipted[u] : log[i].at <= lastRead[u]

\* A receipt only moves forward while the participant stays, whatever its
\* requests overtake: each is stamped under the lock it is written under.
ReceiptsAdvance ==
  [][\A u \in members \intersect members' : lastRead[u] <= lastRead'[u]]_vars

\* A chat in the list opens on at least one message: what GetChats and
\* GetMessages compare with hidden_at agree at equal times too.
ListedHasMessages ==
  kind = "private" =>
    \A u \in members : Listed(u) => \E i \in 1..Len(log) : Shown(u, i)

\* What HideChat's documentation says: the chat reappears with a new message.
\* A count above zero means a message committed since the chat was hidden.
HiddenReappears ==
  \A u \in members : unread[u] > 0 => Listed(u)

\* What the code keeps of that promise: a chat with unread messages is out of
\* the list only if the last of them to commit was stamped no later than the
\* HideChat it followed.  (Its predecessors may be newer: last_message_at is
\* the time of the last message to commit, not of the newest.)
HiddenOnlyIfOvertaken ==
  \A u \in members : unread[u] > 0 /\ ~Listed(u) =>
    /\ kind = "private"
    /\ Len(log) \in missed[u]
    /\ log[Len(log)].at <= hidden[u]

(***************************************************************************)
(* The inductive invariant under CountsExact, ReceiptsCover and            *)
(* ReceiptsAdvance.                                                        *)
(***************************************************************************)
\* The locks exclude one another.
Exclusive ==
  /\ \A r, s \in Updating \union Reading : r = s
  /\ Reading # {} => Sharing = {}

\* What a request took note of when it got the exclusive lock is still so.
Current ==
  \A r \in Updating \union Reading :
    /\ request[r].upto = Len(log)
    /\ r \in Updating => request[r].stamp # 0
    /\ request[r].stamp # 0 =>
         /\ \A i \in 1..Len(log) : log[i].at <= request[r].stamp
         /\ \A u \in Users : lastRead[u] <= request[r].stamp

NothingAhead ==
  /\ \A i \in 1..Len(log) : log[i].at <= now
  /\ \A u \in Users : lastRead[u] <= now
  /\ \A r \in Requests : request[r].created <= now /\ request[r].stamp <= now

\* Members or not: a user who joins starts from nothing missed.
AllCounts == \A u \in Users : unread[u] = Cardinality(missed[u])
AllReceipts == \A u \in Users : \A i \in receipted[u] : log[i].at <= lastRead[u]

\* Under ListedHasMessages: the time of a private chat is its last message's.
LastKept ==
  kind = "private" =>
    IF Len(log) = 0 THEN lastAt = 0 ELSE lastAt = log[Len(log)].at

\* Under HiddenOnlyIfOvertaken: whoever has missed a message is a participant
\* and has missed the last one; a group with messages is in everybody's list.
LastMissed ==
  \A u \in Users : missed[u] # {} => u \in members /\ Len(log) \in missed[u]

GroupsListed ==
  kind = "group" =>
    /\ \A u \in Users : hidden[u] = 0
    /\ \A r \in Requests : ~At(r, "hiding")
    /\ Len(log) # 0 => lastAt # 0

IInv == TypeOK /\ Exclusive /\ Current /\ NothingAhead /\ AllCounts /\ AllReceipts
=============================================================================
