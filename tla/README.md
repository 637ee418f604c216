# AtoiTalkAPI: a formal model

AtoiTalkAPI is the back end of a chat application in Go: an HTTP API over PostgreSQL
(through ent), Redis and S3, and a WebSocket hub in every API process. This directory
holds TLA+ models of its stateful parts, the TLC runs that check them on small instances,
and theorems about them that TLAPS checks for every instance.

Paths below are relative to `src/`.

## 1. Inventory

| Part | State | Operations | What makes it hard | What makes it correct |
|---|---|---|---|---|
| Group membership and roles (`internal/service/group_*.go`, `account_service.go`) | `users`, `chats`, `group_chats`, `group_members` | create, add, join (public, invite), leave, kick, change role, transfer, delete group, delete account; ban, unban, purge | READ COMMITTED transactions that read roles without locking and then write by row id | one living owner; no row without user and group; a decision never outlives the membership it was about |
| WebSocket hub and presence (`internal/websocket`) | `Hub.clients`, `Hub.userClients`, the `Register` and `Unregister` channels, `Client.Send`, key `online:<user>` | serve, register, unregister, disconnect, deliver, the two pumps, status goroutines, expiry | one mutex, bounded channels, goroutines in no order, several processes sharing one key | no double close or send on a closed channel; closed connections leave; presence converges |
| Sessions and bans (`auth_service.go`, `session_repository.go`, `session_revoke.go`, `auth_middleware.go`) | keys `revoked_user:<id>` and `blacklist:<token>`; `users.is_banned`, `banned_until`, `deleted_at` | login, token check, logout, change of password or email, reset, ban, unban, deletion | two stores and one transaction; rollback of a key, which may fail; a life in rounded seconds; millisecond boundaries; bans that expire while read | a revoked token stays dead; a failure that can be taken back revokes nothing; a permanent ban stands |
| Messages and read state (`message_service.go`, `chat_service.go`) | `messages`, `chats.last_message_id`, unread counters, `hidden_at` | send, edit, delete, mark as read, hide; list | creation order against commit order; row locks in two orders; writes by id | counters agree with what is unread; receipts cover what was acknowledged and only advance; a deleted message stays empty; a new message shows |
| Media (`media_service.go`, `media_cleanup.go`) | `media` rows and S3 objects | upload, complete, attach, detach, report, clean up | a job that collects and then deletes, against attachments | a file has one message; what is attached or reported keeps row and object; no object outlives its row but of a late upload; orphans go |
| Private chats (`private_chat_service.go`, `private_chat_cleanup.go`) | `private_chats` (unique ordered pair) | create, clean up | both sides create at once; users purged one after the other, by a job that may fail at any chat | one chat for any two users, whoever asked; it stays for the one who stays, and goes after both |
| Accounts (`auth_service.go`, `account_service.go`) | `users` (unique `email`), `user_identities` | register, sign in, sign in with Google, reset and change password, change email, delete | rows found by address and written by id later; Google sign-ins beside changes of address and deletions | nobody gets into an account that has not his address; every account has a way in |
| One-time passwords (`otp_service.go`) | keys `otp:<mode>:<email>` | send, verify | read and delete in two commands; late failure of an email | a code is good for its address and purpose, until it is used, replaced or gone |
| Rate limits (`rate_limit_repository.go`, `rate_limit_middleware.go`) | Redis counters | count | INCR, TTL and EXPIRE are three commands; crash between them | no window lets more through than its limit; a window that is not restarted ends |
| Caches (`hub.go`) | `chat_members:<id>`, `contacts:<id>` | fill, invalidate | a fill racing an invalidation, an invalidation lost | what is stale has an excuse, and not for ever |
| Reports and moderation (`report_service.go`, `admin_service.go`) | `reports` | create, resolve, delete | protects media; deletes messages | a resolved report leaves a deleted message |
| Scheduler (`internal/scheduler`) | - | entity, media, private-chat cleanup | runs beside every request | see the parts it cleans |
| Listings, search, controllers, DTOs, adapters, configuration, generated code | none of their own | queries, decoding, I/O | - | - |

The parts meet in the database (row locks, unique indexes, cascading foreign keys), in Redis
(shared keys, one pub/sub channel every hub listens to) and by calls: every service that
revokes sessions calls `Hub.DisconnectUser`; every membership change deletes the member
cache after its commit and broadcasts through the hub in a goroutine; the middleware reads
the session repository before any handler runs.

`PROJECT.json` lists the hazards of this code, each at its line, with the property that
covers it or the reason why none does yet.

## 2. What is modelled

### GroupMembership, Ownership, GroupOwnership

`GroupMembership` follows one group, every user, and a set of goroutines (`Handlers`), each
serving one request at a time. `account`, `chat` and `role` are the committed columns; `rows`
numbers the membership rows a user has had, and so gives each row its identity, which matters
because ent updates and deletes by id; `req` is what each request has read so far.

A request is received after the middleware accepted the caller (`Receive`). Each read of the
code that a decision depends on is a step of its own: the group with the requestor's row
(`...Requestor`), then the target's row and account (`...Target`), or the users and owned
groups that `CreateGroupChat` and `DeleteAccount` read before their transaction
(`CreateCheck`, `DeleteAccountCheck`). The writes and the commit are one step
(`...Commit`): the first write takes the row's lock, nobody else sees or changes the row
before the commit, and READ COMMITTED readers see the old value until then. The guard of a
commit is what the database enforces: the row with that id still exists (`Present`), the
foreign keys and the unique index accept an insert (`CanInsert`), the system message's
sender and chat exist (`CanPost`). `Fail` ends any request at any step: the early returns
not otherwise modelled (blocks, wrong password, private group, expired invite code) and
database errors. Reading the group and reading the requestor's row are merged: between the
two only the group's deletion could matter, and it may also come right after.

Left out: names, avatars, descriptions, invite codes; the system message is kept only as
what it requires. One group is enough, as no operation relates two. Only the account
deletion counts all groups, and `DeleteAccountCheck` is then true of each.

`Ownership` is what the group promises: one owner while open, moved by a transfer to
somebody whose account exists. The handlers take no lock between reading a role and acting
on it, and do not keep this; `owner_leaves` shows how it fails. `GroupOwnership` takes every
step of `GroupMembership`, restricts none, and records two things: which requests in flight
are `overtaken`, since a commit has moved the ownership from or to a user whose role they had
read, or deleted an account they had read; and whether an overtaken request has committed
(`misled`). `OneOwnerUnlessMisled` and `KeepsPromise`, the refinement, hold until then. Only
three commits overtake anybody (`Overtakes`): a transfer, a creation (a deletion that had
counted the caller's groups) and an account deletion (a creation by the user, a transfer to
him). So the two properties say which of the stale reads matter: the role changes, kicks,
departures, joins, closures, bans and purges that make a request's reads stale are harmless,
and a lock need keep only those three apart from what they overtake.

### Hub, SocketLogout

`Hub` has every process's hub, the connections' two pumps and the shared key. A critical
section of `Hub.mu`, a channel operation and a Redis command are one step each. A connection
is used once (`conn`: none, open, closed); its peer's departure, its deadlines and
`Conn.Close` all close it. `closes` counts `close(client.Send)`; `buffered` counts events
waiting, whose content does not matter. `tasks` counts goroutines spawned and not yet run,
since a goroutine takes effect when its Redis command does. `Run` takes from either channel
in any order, as `select` does. `Deliver` picks the order in which the overflowing
connections are queued, as Go's map iteration does. Redis does not fail here; its errors are
not even logged by the code, and the next pong repairs them. The events sent to contacts
about a status are not modelled.

`SocketLogout` composes the hub with the two halves of a handshake and with `Logout`.

### Sessions

One user: his row (`ban`, `deleted`, `lock`), the marker in Redis with its expiry, the
tokens issued, named by the millisecond of their issue, requests that revoke (`Revokers`)
and requests that log in or present a token (`Visitors`). All five operations that revoke
have the same steps: UPDATE the row (`Update`), GET and TTL of the old marker (`SnapshotGet`,
`SnapshotTTL`), SET of the new one (`SetMarker`), COMMIT (`Commit`), and when that fails GET
and SET or DEL (`RollbackCheck`, `Restore`). What the transaction changes in the row is chosen
at its commit (`Apply`), since nobody sees it before.

Each step may fail. A Redis error before the SET ends the request (`Abort`); a SET that Redis
has executed and whose answer is lost ends it too, with the new marker in place and no
rollback (`SetUnanswered`); `CommitFails` covers a COMMIT whose answer is lost, where the row
may have changed; the process may die around COMMIT (`Die`;
its death elsewhere looks like one of the other failures); and of the rollback the GET, the
SET or the DEL may fail, which the code only logs (`RollbackFails`).

`TTL` answers whole seconds, rounded to the nearest (`Round`), and 0 makes the SET that
restores the marker store it without an expiry (`Endless`): so it does when less than half a
second was left, or the marker had none, or it expired between GET and TTL. A second is
`Second` ticks of the clock. The `exp` of a token is cut to whole seconds (`TokenEnds`).

Five history variables say what the properties except. `promised` is up to when the
revocations answered with success reach. `cut` is what rounding may have taken of the marker's
life since: half a second for each marker put back. `left` is the time of the last failed
revocation that could not take its marker back. `overlap`: the GET and SET of a rollback may
come around the SET of a revocation that begins meanwhile, and `overlap` says from when such
an overlap is possible until a revocation that began alone succeeds; the other three start
afresh there. `begun` only counts, for the bound. What a visitor is `due` is fixed when it
presents its token.

### Messaging

One conversation, private or group: the chat's row (`lastAt`), and for each participant the
columns `unread`, `lastRead` and `hidden`, which for a private chat are in the
`private_chats` row and for a group in the member's row. Messages are what `log` holds, in
commit order, each with its sender and `created_at`. `missed` and `receipted` are history
variables: what a participant has not acknowledged yet, and what it acknowledged with a
receipt; the columns are compared with them.

`SendMessage` is `SendCreate` (the checks, and the message gets its `created_at` in the API
process), `SendInsert`, `SendUpdateChat` and `SendCommit`; `MarkAsRead` is `ReadLock` and
`ReadCommit`; `HideChat` is `HideStamp` and `HideWrite`, one UPDATE without a transaction.
Row locks of PostgreSQL are what orders them, and are read off the steps: a send that has
inserted holds FOR KEY SHARE on the chat's row, since the message's foreign key refers to it
(`Sharing`); after UPDATE chats it holds FOR NO KEY UPDATE (`Updating`), compatible with the
former; MarkAsRead's FOR UPDATE (`Reading`) excludes both. The counters' UPDATEs are part of
the commit step, since they come under the chat's lock and only HideChat writes the same row,
which then waits or comes before. Joining and leaving appear as their commits, each of which
updates the chat's row too; their own steps are in `GroupMembership`. The clock is one
for all API processes: their skew is not modelled.

Left out: content and replies, editing and deleting (no counter depends on them), the limit
and cursor of GetMessages, the events pushed to participants.

### Attachments

The media row (`media`, `age`, `attached`), its object, the message and the report that
refer to it, and runs of the cleanup job (`Jobs`: cron does not wait for the run before, and
every process has a scheduler). A request reads and decides in its `...Check` or `...Read`
step and writes by id in its `...Write` or `...Commit` step; `request` holds which files it
will link and unlink. `CanLink` is what ent and the database enforce when files are linked:
every row still there and with no message. The job's query is `Collect`; then each orphan's
object goes (`DeleteObject`), or cannot (`SkipObject`), and then its row (`DeleteRow`), or
not (`DeleteRowFails`); a run may be killed anywhere (`Crash`). An upload is a PUT that the
client begins (`PutStart`) and that ends some time later, or never (`PutEnd`). S3 looks at the
URL's expiry when it begins, and knows nothing of the row; `CompleteUpload` reads the row
(`CompleteCheck`), then asks for the object (`CompleteHead`), then writes (`CompleteWrite`).

Time is the row's age: young, past the upload's expiry of 15 minutes, past the retention.
The retention is thus taken to be longer than 15 minutes, as its default of 7 days is. The URL
of an upload is signed after the row got its `upload_expires_at`, and outlives it by a moment:
a PUT may begin while the age is 1, and end at any time. `secured` is a history variable: the
files that a message or a report took up, object and all, when no run had collected them, and
that have been held ever since. `late` is another: the files whose object comes from a PUT
that ended after a run had deleted the object, and was about to delete the row or had.

Left out: avatars, which the job's query spares the way it spares attachments; the purge of
messages with their chat; several reports of one message. `Fail` stands for every check on
sender, role, category, size and age of the message, and for database errors.

### PrivateChats, ChatDirectory

`ChatDirectory` is what private chats promise: a directory with at most one chat between any
two users, closed when both are gone and not before. `PrivateChats` is the code:
`CreatePrivateChat` as a check of both accounts (`CreateCheck`), the search for the chat in
either order (`CreateFind`), the INSERT of a chat in an open transaction (`CreateInsert`), its
commit (`CreateCommit`) and the deletion of two cache keys (`ForgetFirst`, `ForgetSecond`).
The hook of `ent/schema/private_chat.go` orders the two ids (`Ordered`), so that the unique
index sees both orders as one pair. An INSERT of a pair that is committed is refused
(`CreateRefused`), which the code answers by looking for the other side's chat again
(`RetryFind`); of a pair in an open transaction it waits, that is, it is not enabled.
`Purge` deletes a user and sets his columns to NULL; `CleanupQuery` and `CleanupDelete` are
the job, which goes on over failures and may be stopped (`CleanupFail`).

A list of contacts is filled by a read and a write (`FillRead`, `FillSet`), expires, and is
deleted after a creation; a DEL that Redis does not answer is not noticed by the code.
`made` and `answers` are history: the users each chat was for, and the chats that requests
were answered with. `excuse` marks the users one of whose invalidations was lost, or was
overtaken by a filler that had read before it.

Left out: what `fetchAndCacheContacts` reads beyond the partners of private chats, bans and
blocks (which only refuse a request), the broadcast of the new chat.

### Accounts

The rows (`status`, `email`, `password`, `linked`), the codes generated so far with their
mode and address (`codes`), the code each key of Redis holds (`stored`), and the requests.
A request with a code is received with any code somebody ever was sent (`Present`) and
passes `VerifyGet` and `VerifyDel`; what it does then is by mode: `RegisterInsert`,
`ResetQuery` and `SetPassword`, `ChangeEmailWrite`. A row is found by address among those not
deleted (`Holders`) but is written by id whatever became of it, and the unique index counts
every row (`Taken`). `GoogleRead` finds the account, `GoogleLink` and `GoogleCreate` write the
identity; a failure to link is only logged by the code, so `GoogleLink` may leave `linked`
alone. `CodeGone` is a code's expiry, and also the goroutine that failed to send an email and
deletes the key, whatever code it holds by then. `dead` and `held` are history.

Left out: the values of passwords (a login names a row with one and is taken to match it),
usernames, avatars, the OAuth state, captchas; the rate limits are `RateLimit`'s. Google
accounts are identified with their verified addresses, as `GoogleExchange` looks an account
up by address only.

### RateLimit

One counter, any number of callers. `Incr` is INCR, `ReadTTL` the pipeline's TTL with the
decision whether an expiry is needed, `SetExpiry` and `KeyMissing` the two answers of EXPIRE;
between any two the key may expire, another call may come, or the call may die (`Fail`). The
expiry has three values: none (`endless`), `running`, and `ending`, the last half second, in
which Redis rounds the TTL to 0, so that a call then starts the window over. A call whose
counter has expired under it is `late`: it answers by a count that no longer exists, and is
not one of the new window's. The counter stops at `MaxCount`, which is above the limit:
all higher counts get the same answers.

### Proof modules

`GroupMembershipProofs` (with `GroupOwnership`), `HubProofs` (with `SocketLogout`),
`SessionsProofs`, `MessagingProofs`, `AttachmentsProofs`, `RateLimitProofs`,
`PrivateChatsProofs`, `AccountsProofs`: see section 4.

## 3. Runs

| Run | Instance | What it shows |
|---|---|---|
| `group_concurrent` | 2 users, 2 requests, 2 rows per user | `TypeOK`, `NoOrphanRows`, `DecisionStaysWithItsRow` hold in every interleaving; `OneOwnerUnlessMisled`, `KeepsPromise` in every one, until an overtaken request commits |
| `owner_leaves` | 3 users, 2 requests, 1 row per user | violated: a leave deletes the row of a member who has just become owner |
| `hub` | 1 user, 2 connections, 2 processes, channels of 1 | `TypeOK`, `NoPanic`, `ClosedConnectionsLeave`, `NoneStranded`, `PresenceUp`, `PresenceDown` hold |
| `logout_socket` | 1 user, 1 connection, 1 process | violated: a connection registers after the logout's disconnection |
| `sessions` | 2 revoking requests and 1 visitor at a time, 3 revocations, 3 ticks a second, tokens of 2 seconds, clock 3 to 8 | `TypeOK`, `StaysRevoked`, `FailureRevokesNothing` hold |
| `messaging` | 2 users, 3 requests, 2 messages, clock 1 to 2 | `TypeOK`, `CountsExact`, `ReceiptsCover`, `ReceiptsAdvance`, `ListedHasMessages`, `HiddenOnlyIfOvertaken` hold |
| `hidden_chat` | 2 users, 2 requests, 2 messages, clock 1 to 3 | violated: a message created before and committed after a HideChat counts as unread in a chat that is not listed |
| `attachments` | 1 file, 2 messages, 1 of them reported, 2 requests, 2 runs of the job | `TypeOK`, `NoStrayObjects`, `HeldSurvives`, `AttachOnce`, `BuriedForGood` hold |
| `attachments_cleanup` | 1 file, 1 message with a report, 2 requests, 2 runs of the job | `OrphansGo` holds |
| `rate_limit` | 3 callers, limit 2, counts up to 3 | `TypeOK`, `AtMostLimit`, `NoEndlessWindow`, `WindowEnds` hold |
| `accounts` | 2 rows, 2 addresses, 2 requests, 2 codes | `TypeOK`, `OnlyTheHolder`, `CodesUsedOnce`, `WayIn` hold |
| `private_chats` | 2 users, 2 chats, 2 requests, 1 filler | `TypeOK`, `AnswersStand`, `StaleWithExcuse`, `IsDirectory`, `AbandonedGo`, `ContactsConverge` hold |

Every property of a passing run has a mutant in `PROJECT.json`: a definition with a
plausible bug under which TLC finds the property violated.

### Bounds

- `MaxRows`: rows a user ever has in the group. Two are needed for a member to leave and
  come back under a request in flight; a third adds nothing, since a request remembers one.
- `MaxBatch`: users named in one request; `MaxBanned`: users banned at a time. Both reach
  every user of the instance, or all but symmetric ones.
- `group_concurrent`: an owner and a member suffice for every overtaking but those among
  three, two transfers to different targets and an admin's kick of a new owner; the theorems
  have them.
- Two requests at once suffice for every race listed: each is between a decision and one
  commit. The theorems hold for any number.
- `SendCap`, `QueueCap`: 1 instead of 256, so that full channels are the usual case.
- `MaxMessages` and the clock of `messaging`: two messages and three requests let two sends
  overtake each other while a third request reads or hides, with equal and different times.
- `attachments`: every race is for one file, between two requests, or between a request and
  the job; two messages are needed for a file to have two takers. `Reportable` bounds the
  messages that are reported, each once, to one. `attachments_cleanup` has one message: what
  keeps a file, or lets go of it, is then still a message and a report.
- `sessions`: two revoking requests, since the row's lock admits one at a time until its
  commit and overlaps are between one and another's rollback. Visitors meet only in the row
  and in the tokens, which a single one leaves behind as well. `MaxBegun`: three revocations
  are one that succeeds, one that fails and puts its marker back, and one more that overlaps it
  or follows; `MaxTokens`: one token is older than a revocation and one newer. `Second`: of
  three ticks is the shortest second of which rounding takes some and not all (one tick).
  `JWTExp` and `MaxTime`: the clock goes past the end of the first token and of its marker,
  and `BanEnds` has a ban that ends meanwhile and one that does not. Within these bounds each
  exception is needed: without `overlap` both `StaysRevoked` and `FailureRevokesNothing` fail,
  without `cut` the former and without `left` the latter.
- `rate_limit`: with three callers one more than the limit may be under way at once, each at
  any command; `MaxCount` is the first count above the limit.
- `accounts`: a race is between two requests, over one row each of which may take the other's
  address; a second code replaces or follows the first. Rows and codes are used once.
- `private_chats`: both sides create at once, in either order; a second chat id is what a
  broken index would let them commit. One filler suffices for each list, as its write does
  not depend on another's; the theorems hold for any numbers.

Deadlock is not checked. In the group runs all users may end purged; in the hub runs every
connection is used once, so the system comes to rest; in the session runs the clock stops
and a deleted user sends no more requests; in `messaging` and
`hidden_chat` the clock and the messages run out; in `attachments` everything may end deleted;
in `accounts` rows and codes are used once; in `private_chats` every user may end purged.
`rate_limit` goes on for ever, and deadlock is checked there.

### Fairness

`Hub`, `SocketLogout`, `Attachments`, `RateLimit` and `PrivateChats` state it. The `Run` goroutine serves both channels: the
`select` of Go picks uniformly among the ready cases, so neither is passed over for ever
(weak fairness of each). Goroutines and pumps that can run do. A `ReadPump` whose send to
`Unregister` blocks is served when there is room, because Go queues blocked senders first in,
first out: strong fairness of `ReaderEnds`, since room may come and go. A peer that stays
answers pings (`Pong`), and Redis expires keys. Nobody has to connect, leave, send or log out.

In `Attachments` cron starts the job again and again (weak fairness of `Collect`), and an
object or a row that runs come to delete again and again is deleted in the end (strong
fairness of `DeleteObject` and `DeleteRow`, over all runs together): S3, database and process
may fail any number of times, but not each time. No request has to be made or to succeed.

In `RateLimit` a window runs down and a counter in its last half second expires (weak
fairness), clients that are refused ask again, and Redis does not fail every call. Nothing is
assumed about when they ask: `TTL` answers whole seconds, rounded, so that every call in the
last half second, refused ones included, finds 0 and starts the window over. Clients behind
one address that ask more than twice a second can thus be refused for ever, whatever the
answers they get say of seconds to wait. `WindowEnds` has this as its premise: a window ends
unless it is restarted again and again for ever; a counter left without expiry is repaired by
the next call.

In `PrivateChats` cron starts the cleanup again and again, the database does not refuse the
deletion of one chat each time (strong fairness of `CleanupDelete`), lists of contacts have a
lifetime in Redis (`CacheExpires`), and a filler's goroutine gets to its write (`FillSet`).
Nobody has to create a chat or delete an account.

## 4. Theorems

For all users, handlers, bounds, processes, connections and capacities allowed by the named
assumptions `MembershipAssumption`, `HubAssumption`, `MessagingAssumption`,
`RateLimitAssumption`, `PrivateChatsAssumption`, `AttachmentsAssumption`,
`SessionsAssumption` and `AccountsAssumption`:

- `GroupMembershipProofs!TypeCorrect`, `RowsHaveParents`, `DecisionsStay`. `NoOrphanRows`
  needs `SawGroup` (a request past its first read has seen the group, so the chat is not
  "none" again) to be inductive; `DecisionStaysWithItsRow` follows from the type invariant
  action by action.
- `GroupMembershipProofs!OneOwnerAlways` and `HandlersKeepPromise`, of `OwnershipSpec`, which
  has every behaviour of `GroupMembership`, with its history (`HistoryStep`).
  The inductive invariant `OwnershipInv` adds what each request past its checks still knows
  when it commits (`RequestKnows`): the requestor of a transfer is still owner, the target
  of a kick is not, and so on. It is claimed of the requests that are not overtaken: every
  commit either leaves this alone (`QuietCommits`) or overtakes the requests it makes wrong.
  The refinement proof maps each commit to a step of `Ownership` or to a stutter, but for the
  commit of an overtaken request.
- `HubProofs!TypeCorrect`, `HubNeverPanics`. `NoPanic` is not inductive: `HubInv` adds that
  both maps agree, that a connection waits in `Register` at most once, only at home and only
  before it is registered, and that whatever is in the maps has an open channel. `TypeOK`
  includes the capacities of all three channels: `Deliver` queues no more than there is room
  for (`DeliverQueues`), everybody else waits.

  `NoneStrandedInHub` needs no more than the types: whoever is taken from the head of
  `Unregister` leaves the maps, the others keep their place (`LeavingBehindHead`), and a
  `ReadPump` queues what it ends. `LogoutKeepsHub`: every step of `SocketLogout` is one of `Hub`
  or a stutter, so the composition inherits all of this; the finding `logout_socket` is about
  who is connected, not about the hub's consistency.
- `MessagingProofs!TypeCorrect`, `CountsAreExact`, `ReceiptsAlwaysCover`,
  `ReceiptsOnlyAdvance`. The inductive invariant `IInv` adds that the exclusive locks exclude
  one another and a reader every send past its INSERT (`Exclusive`), that whoever holds one
  still has the log it saw when it got it, and a time stamp no earlier than any message or
  receipt (`Current`), and that nothing is stamped in the future (`NothingAhead`). Counts
  are then the cardinality of a set that grows by one element or loses all of it: finite
  because messages are.

  `ListedAlwaysOpens` needs only `LastKept`: a private chat's time is its last message's.
  `HiddenOnlyWhenOvertaken` is what remains of the documentation's promise that a hidden chat
  reappears (finding `hidden_chat`): with unread messages it is out of the list only if the last
  of them to commit was stamped no later than the HideChat. It rests on all of `IInv`, on
  `LastKept`, on `GroupsListed`, and on `LastMissed`: whoever has missed a message has missed
  the last one, because reading or sending under the lock acknowledges the whole log.
- `RateLimitProofs!TypeCorrect`, `NeverMoreThanLimit`, `NoEndlessWindows`. `AtMostLimit` is not
  inductive: `Accounted` adds that the requests served, with the calls still to be answered
  that the present counter counted within the limit (`Pending`), are no more than the counter
  says and no more than the limit. A caller is counted once in `Pending`, so each answer moves
  one from there to `served`.
- `PrivateChatsProofs!TypeCorrect`, `AnswersAlwaysStand`, `ChatsAreDirectory`,
  `StaleOnlyWithExcuse`. `RowsInv` adds that a committed chat's columns are the users it was
  made for, less those purged (`Shape`), that no two chats are made for the same users
  (`Unrepeated`, from the hook and the index), that an open transaction keeps both users from
  being purged (`Locked`), that each request has its own open chat (`Serving`, `Apart`), and
  that the job holds only chats of purged users (`Doomed`). The refinement maps a commit to
  `Open`, a purge to `Leave`, a deletion to `Close` and all else to a stutter. For the caches,
  `Filling` says of a filler's list what `StaleWithExcuse` says of the cached one.
- `AttachmentsProofs!TypeCorrect`, `AttachedOnce`, `NoStrayObjectsEver`, `HeldAlwaysSurvives`.
  `Strays` is `NoStrayObjects` for the file whose row a run is about to delete as well: its
  object is gone, or came late; `SecuredInv` adds to `HeldSurvives` that no run has collected a
  secured file.
  `BuriedStaysBuried` says how far EditMessage's write by id may go: only an edit that found the
  message live gives a deleted one attachments. It needs `SentOnce`: a message has one send,
  and what edits, deletions, reports and resolutions work on has been sent.
- `SessionsProofs!TypeCorrect`, `RevokedStaysRevoked`, `FailuresRevokeNothing`, for any number
  of revocations at once and any length of a second. `Rounding`: a rounded life is at most
  half a second short. `Alone` says that without an overlap the revocation in flight is the only
  one and the marker its own; `Marked`, that a marker lives as long as its tokens but for what
  was cut (`Lives`), and covers the tokens promised dead while they live; `Remembering`, that so
  does the one it may put back; `Unmarked`, that what is in force otherwise is a success's marker
  or the one left behind last (`Justified`); `Verified`, that a visitor past the check has a token
  newer than what was due when it began. A revocation that begins alone and succeeds after an
  overlap restores all of this, which is why the exception ends there. `Awaiting` says between GET
  and TTL what `Remembering` says after.
- `AccountsProofs!TypeCorrect`, `OnlyHoldersGetIn`, `CodesPassOnce`, `AlwaysAWayIn`, for any
  rows, addresses, requests and codes. `TypeInv` adds to the types which fields a request has
  at each step (`Fits`); `HolderInv`, that the account a Google sign-in is about to link has had
  its address while the request is served; `CodesInv`, that a key holds a code generated for it
  and not dead, and that a code found dead on arrival stays dead; `WayInInv`, that the account
  whose password ChangeEmail checked still has one, or is deleted, when its address is written
  and its identities go.

Every invariant was checked by TLC before it was proved. Only model-checked: the liveness
properties of the hub, the cleanup jobs, the rate limit and the caches, since the prover does
not do liveness under fairness. Every safety property that a passing run checks is a theorem,
the refinements `KeepsPromise` and `IsDirectory` included. The violated properties are of
course not theorems.

## 5. Findings

Each violated run quotes the sentence of the API's own documentation that it contradicts;
see `findings` in `PROJECT.json`.

1. `owner_leaves`: LeaveGroup and a transfer to the leaver leave a group without owner.
2. `logout_socket`: a WebSocket handshake in flight survives a logout.
3. `hidden_chat`: a chat hidden while a message is in flight stays hidden with that message.

Weaknesses met while modelling that no sentence of the repository denies are kept as hazards:
two transfers by one owner leave two owners, and an account deleted between becoming owner
and being counted leaves a deleted one (`OneOwnerUnlessMisled` says that only overtaken
requests do such things); the lifting of an expired ban, by id,
erases a permanent one set meanwhile; a rollback may undo a revocation that began during it, may put a marker back half a second
too short or without an expiry, or may itself fail and leave the user logged out by a change
that never was; an upload that ends after the cleanup leaves an object nobody deletes; a
message may be edited to have an attachment never uploaded; an edit
in flight gives a deleted message content again (`BuriedForGood` says that nothing else does); a
connection whose reader ends before `Run` registers it stays in the hub until its `Send` is
full (`NoneStranded`: none other does); a disconnection closes the connections of its own
process only; a rate limit's window is restarted by refused calls in its last half second.

## 6. Plan

Done, in this order: membership and ownership, hub and presence, socket and logout,
sessions, messaging and read state, attachments with reports and the media cleanup, private
chats with the contacts cache, rate limits, accounts with one-time passwords; the proofs of
all their safety properties. What would come next:

1. The member cache, which every membership change invalidates, as a composition of
   `GroupMembership` with the fillers of `PrivateChats`.
2. The order of the row locks of sends, reads and membership changes, as a model of its own.
   They are taken in two orders; PostgreSQL aborts one of two transactions that wait for each
   other, which the models have as `Fail`, so safety is covered and what a model would add is
   which pairs of requests meet.
3. The content of messages beside edits and deletions, and the paging of GetMessages.

### Not modelled

- Listings and search: pure queries, without state.
- Controllers, DTOs, validation and error mapping: decoding and formatting; what validation
  guarantees is assumed where a request arrives.
- Adapters, configuration and bootstrap: clients of PostgreSQL, Redis, S3, SMTP and the captcha
  service.
- Generated code. `ent` (but for `ent/schema`) is generated by ent and `docs` by swag; together
  they are most of the repository's lines. Modelling a generated query builder would say
  nothing about this program: the constraints its schema states are guards of the models, and
  what a query returns is part of the action that makes it. The share of the lines that the
  models stand for is therefore small, and is of the code written by hand.
- Fan-out of events, typing throttles, avatars, group profiles, invite codes, dashboards: rows
  or messages that no decision of another operation depends on.
