---------------------------- MODULE PrivateChats ----------------------------
(***************************************************************************)
(* Private chats from the request that creates one to the job that deletes *)
(* it, and the cached lists of contacts which the hub reads instead.       *)
(*                                                                         *)
(* Requests of both users may create their chat at once.  Accounts are     *)
(* marked deleted meanwhile, and later purged, which empties their columns *)
(* in the chats.  A user's cached contacts are deleted when a chat of his  *)
(* has been created, and filled by a read and a write that anything may    *)
(* come between.                                                           *)
(***************************************************************************)
EXTENDS Integers, FiniteSets

CONSTANTS
  Users,     \* ids of users: positive numbers, for the hook compares them
  Chats,     \* ids of chats; an id is used once
  Requests,  \* CreatePrivateChat requests in progress at once
  NoId,
  Fillers    \* goroutines that fill the contacts cache at once

ASSUME PrivateChatsAssumption ==
  /\ Users \subseteq Nat \ {0}
  /\ NoId \notin Chats

VARIABLES
  user,     \* each user: live, deleted (deleted_at is set) or purged (no row)
  chat,     \* each chat's row: not there, of an open transaction, committed
  req,      \* what each request is doing
  cleanup,  \* the chats the cleanup job has still to delete
  cache,    \* contacts:<user>: a set of users, or NotCached
  fill,     \* what each filler is doing
  made,     \* history: the users each chat was created for
  answers,  \* history: the chats that requests were answered with
  excuse    \* history: users whose cached contacts missed an invalidation:
            \* it was lost, or came before a filler wrote what it had read

rows == <<user, chat>>
caching == <<cache, fill>>
vars == <<rows, req, cleanup, caching, made, answers, excuse>>

Null == 0
NotCached == {Null}
NoChat == [row |-> "none", user1 |-> Null, user2 |-> Null]
Waiting == [step |-> "idle", user |-> Null, target |-> Null, chat |-> NoId]
Resting == [busy |-> FALSE, user |-> Null, contacts |-> {}, old |-> FALSE]

Init ==
  /\ user = [u \in Users |-> "live"]
  /\ chat = [c \in Chats |-> NoChat]
  /\ req = [r \in Requests |-> Waiting]
  /\ cleanup = {}
  /\ cache = [u \in Users |-> NotCached]
  /\ fill = [f \in Fillers |-> Resting]
  /\ made = [c \in Chats |-> {}]
  /\ answers = {}
  /\ excuse = {}

Committed == {c \in Chats : chat[c].row = "committed"}
Columns(c) == <<chat[c].user1, chat[c].user2>>

(* What findExistingPrivateChat looks for: the two users in either order.   *)
Of(u, v) == {c \in Chats : Columns(c) \in {<<u, v>>, <<v, u>>}}

Go(r, step) == req' = [req EXCEPT ![r].step = step]

-----------------------------------------------------------------------------
(* CreatePrivateChat.  Both users are found not deleted; the refusals of    *)
(* banned and blocked users leave no trace, as Fail does.                   *)
CreateCheck(r, u, v) ==
  /\ req[r].step = "idle"
  /\ u # v /\ user[u] = "live" /\ user[v] = "live"
  /\ req' = [req EXCEPT ![r] = [step |-> "find", user |-> u, target |-> v, chat |-> NoId]]
  /\ UNCHANGED <<rows, made, answers, caching, excuse>>

Found(r) == Of(req[r].user, req[r].target) \cap Committed

AnswerFound(r) ==
  /\ Found(r) # {}
  /\ answers' = answers \cup Found(r)
  /\ req' = [req EXCEPT ![r] = Waiting]
  /\ UNCHANGED <<rows, made, caching, excuse>>

(* Also the finds after a constraint error, three at most.                  *)
CreateFind(r) ==
  /\ req[r].step = "find"
  /\ \/ AnswerFound(r)
     \/ Found(r) = {} /\ Go(r, "insert") /\ UNCHANGED <<rows, made, answers, caching, excuse>>

RetryFind(r) ==
  /\ req[r].step = "refused"
  /\ AnswerFound(r)

(* The INSERT.  The hook orders the two ids, so that the unique index over  *)
(* them sees both orders as one: it refuses a pair that is committed, and   *)
(* waits for one whose transaction is open.  The foreign keys refuse a user *)
(* who has been purged.                                                     *)
\* Mutant: no hook.
AsGiven(u, v) == <<u, v>>
Ordered(u, v) == IF u > v THEN <<v, u>> ELSE <<u, v>>

Same(r) == {c \in Chats : Columns(c) = Ordered(req[r].user, req[r].target)}

CreateInsert(r, c) ==
  LET pair == Ordered(req[r].user, req[r].target) IN
  /\ req[r].step = "insert"
  /\ chat[c].row = "none" /\ made[c] = {}
  /\ Same(r) = {} /\ user[req[r].user] # "purged" /\ user[req[r].target] # "purged"
  /\ chat' = [chat EXCEPT ![c] = [row |-> "open", user1 |-> pair[1], user2 |-> pair[2]]]
  /\ made' = [made EXCEPT ![c] = {req[r].user, req[r].target}]
  /\ req' = [req EXCEPT ![r].step = "commit", ![r].chat = c]
  /\ UNCHANGED <<user, answers, caching, excuse>>

CreateRefused(r) ==
  /\ req[r].step = "insert"
  /\ \/ Same(r) \cap Committed # {}
     \/ user[req[r].user] = "purged" \/ user[req[r].target] = "purged"
  /\ Go(r, "refused")
  /\ UNCHANGED <<rows, made, answers, caching, excuse>>

(* The commit; the caches are deleted only now.                             *)
CreateCommit(r) ==
  LET c == req[r].chat IN
  /\ req[r].step = "commit"
  /\ chat' = [chat EXCEPT ![c].row = "committed"]
  /\ answers' = answers \cup {c}
  /\ req' = [req EXCEPT ![r].step = "forget both", ![r].chat = NoId]
  /\ UNCHANGED <<user, made, caching, excuse>>

(* Redis may not answer the DEL, which nobody notices.                      *)
Overtaken(us) ==
  fill' = [f \in Fillers |->
    IF fill[f].busy /\ fill[f].user \in us THEN [fill[f] EXCEPT !.old = TRUE] ELSE fill[f]]

Forget(u) ==
  /\ Overtaken({u})
  /\ \/ cache' = [cache EXCEPT ![u] = NotCached] /\ excuse' = excuse \ {u}
     \/ UNCHANGED cache /\ excuse' = excuse \cup {u}

ForgetFirst(r) ==
  /\ req[r].step = "forget both"
  /\ Forget(req[r].user)
  /\ Go(r, "forget second")
  /\ UNCHANGED <<rows, made, answers>>

\* Mutant: the creator's contacts again, not the other user's.
ForgetTwice(r) ==
  /\ req[r].step = "forget second"
  /\ Forget(req[r].user)
  /\ req' = [req EXCEPT ![r] = Waiting]
  /\ UNCHANGED <<rows, made, answers>>
ForgetSecond(r) ==
  /\ req[r].step = "forget second"
  /\ Forget(req[r].target)
  /\ req' = [req EXCEPT ![r] = Waiting]
  /\ UNCHANGED <<rows, made, answers>>

(* A refusal, an error or a dead process: the transaction is rolled back,   *)
(* and the caches that were still to be deleted stay.                       *)
ToForget(r) ==
  IF req[r].step = "forget both" THEN {req[r].user, req[r].target}
  ELSE IF req[r].step = "forget second" THEN {req[r].target} ELSE {}

Fail(r) ==
  /\ req[r].step # "idle"
  /\ chat' = [c \in Chats |-> IF c = req[r].chat THEN NoChat ELSE chat[c]]
  /\ made' = [c \in Chats |-> IF c = req[r].chat THEN {} ELSE made[c]]
  /\ Overtaken(ToForget(r))
  /\ excuse' = excuse \cup ToForget(r)
  /\ req' = [req EXCEPT ![r] = Waiting]
  /\ UNCHANGED <<user, answers, cache>>

(* A commit that took effect though its answer was lost.                    *)
CommitUnanswered(r) ==
  LET both == {req[r].user, req[r].target} IN
  /\ req[r].step = "commit"
  /\ chat' = [chat EXCEPT ![req[r].chat].row = "committed"]
  /\ Overtaken(both)
  /\ excuse' = excuse \cup both
  /\ req' = [req EXCEPT ![r] = Waiting]
  /\ UNCHANGED <<user, made, answers, cache>>

-----------------------------------------------------------------------------
(* DeleteAccount marks the row; the retention over, RunEntityCleanup        *)
(* deletes it.  The columns that refer to it become NULL; a transaction     *)
(* that has inserted a reference holds a lock, which the DELETE waits for.  *)
DeleteAccount(u) ==
  /\ user[u] = "live"
  /\ user' = [user EXCEPT ![u] = "deleted"]
  /\ UNCHANGED <<chat, cleanup>>

Cleared(x, u) == IF x = u THEN Null ELSE x

\* Mutant: only the first column is cleared.
PurgeFirstColumn(u) ==
  /\ user[u] = "deleted"
  /\ \A c \in Chats \ Committed : chat[c].user1 # u /\ chat[c].user2 # u
  /\ user' = [user EXCEPT ![u] = "purged"]
  /\ chat' = [c \in Chats |-> [chat[c] EXCEPT !.user1 = Cleared(@, u)]]
  /\ UNCHANGED cleanup
Purge(u) ==
  /\ user[u] = "deleted"
  /\ \A c \in Chats \ Committed : chat[c].user1 # u /\ chat[c].user2 # u
  /\ user' = [user EXCEPT ![u] = "purged"]
  /\ chat' = [c \in Chats |->
       [chat[c] EXCEPT !.user1 = Cleared(@, u), !.user2 = Cleared(@, u)]]
  /\ UNCHANGED cleanup

(* RunPrivateChatCleanup: the chats both users of which are gone, deleted   *)
(* one by one; one that cannot be deleted is left to the next run.          *)
\* Mutant: one user gone is enough.
HalfAbandoned(c) == chat[c].user1 = Null \/ chat[c].user2 = Null
Abandoned(c) == chat[c].user1 = Null /\ chat[c].user2 = Null

CleanupQuery ==
  /\ cleanup = {}
  /\ cleanup' = {c \in Committed : Abandoned(c)}
  /\ UNCHANGED rows

CleanupDelete(c) ==
  /\ c \in cleanup
  /\ cleanup' = cleanup \ {c}
  /\ chat' = [chat EXCEPT ![c] = NoChat]
  /\ UNCHANGED user

CleanupFail ==
  /\ \/ \E c \in cleanup : cleanup' = cleanup \ {c}
     \/ cleanup # {} /\ cleanup' = {}
  /\ UNCHANGED rows

-----------------------------------------------------------------------------
(* getContacts finds nothing cached, and fetchAndCacheContacts reads the    *)
(* partners that are not NULL ...                                           *)
Partners(u) == {v \in Users : Of(u, v) \cap Committed # {}}

FillRead(f, u) ==
  /\ ~fill[f].busy /\ cache[u] = NotCached
  /\ fill' = [fill EXCEPT ![f] =
       [busy |-> TRUE, user |-> u, contacts |-> Partners(u), old |-> FALSE]]
  /\ UNCHANGED <<cache, excuse>>

(* ... and writes them, with a lifetime; an error is ignored.               *)
FillSet(f) ==
  LET u == fill[f].user IN
  /\ fill[f].busy
  /\ fill' = [fill EXCEPT ![f] = Resting]
  /\ \/ /\ cache' = [cache EXCEPT ![u] = fill[f].contacts]
        /\ excuse' = IF fill[f].old THEN excuse \cup {u} ELSE excuse \ {u}
     \/ UNCHANGED <<cache, excuse>>

\* Mutant: contacts are cached without a lifetime.
CacheKept(u) == cache[u] # cache[u] /\ UNCHANGED <<caching, excuse>>
CacheExpires(u) ==
  /\ cache[u] # NotCached
  /\ cache' = [cache EXCEPT ![u] = NotCached]
  /\ excuse' = excuse \ {u}
  /\ UNCHANGED fill

-----------------------------------------------------------------------------
Create ==
  \E r \in Requests :
    \/ CreateFind(r) \/ RetryFind(r) \/ CreateRefused(r) \/ CreateCommit(r) \/ Fail(r)
    \/ ForgetFirst(r) \/ ForgetSecond(r) \/ CommitUnanswered(r)
    \/ \E u, v \in Users : CreateCheck(r, u, v)
    \/ \E c \in Chats : CreateInsert(r, c)

Remove ==
  \/ \E u \in Users : DeleteAccount(u) \/ Purge(u)
  \/ \E c \in Chats : CleanupDelete(c)
  \/ CleanupQuery \/ CleanupFail

Cache ==
  \/ \E f \in Fillers : FillSet(f) \/ \E u \in Users : FillRead(f, u)
  \/ \E u \in Users : CacheExpires(u)

Next ==
  \/ Create /\ UNCHANGED cleanup
  \/ Remove /\ UNCHANGED <<req, caching, made, answers, excuse>>
  \/ Cache /\ UNCHANGED <<rows, req, cleanup, made, answers>>

(* Cron starts the job again and again, and the database does not refuse    *)
(* one deletion every time; Redis expires what has a lifetime, and every    *)
(* filler gets to its write.                                                *)
Fairness ==
  /\ WF_vars(CleanupQuery /\ UNCHANGED <<req, caching, made, answers, excuse>>)
  /\ \A c \in Chats :
       SF_vars(CleanupDelete(c) /\ UNCHANGED <<req, caching, made, answers, excuse>>)
  /\ \A u \in Users :
       WF_vars(CacheExpires(u) /\ UNCHANGED <<rows, req, cleanup, made, answers>>)
  /\ \A f \in Fillers :
       WF_vars(FillSet(f) /\ UNCHANGED <<rows, req, cleanup, made, answers>>)

Spec == Init /\ [][Next]_vars /\ Fairness
-----------------------------------------------------------------------------
RequestRecord ==
  [step : {"idle", "find", "insert", "refused", "commit", "forget both", "forget second"},
   user : Users \cup {Null}, target : Users \cup {Null}, chat : Chats \cup {NoId}]
ChatRecord ==
  [row : {"none", "open", "committed"}, user1 : Users \cup {Null}, user2 : Users \cup {Null}]
FillRecord ==
  [busy : BOOLEAN, user : Users \cup {Null}, contacts : SUBSET Users, old : BOOLEAN]

(* The type invariant of the component; a column is NULL when its user has  *)
(* been purged.                                                             *)
TypeOK ==
  /\ user \in [Users -> {"live", "deleted", "purged"}]
  /\ chat \in [Chats -> ChatRecord]
  /\ req \in [Requests -> RequestRecord]
  /\ cleanup \subseteq Chats
  /\ cache \in [Users -> (SUBSET Users) \cup {NotCached}]
  /\ fill \in [Fillers -> FillRecord]
  /\ made \in [Chats -> SUBSET Users]
  /\ answers \subseteq Chats
  /\ excuse \subseteq Users
  /\ \A c \in Chats : \A u \in {chat[c].user1, chat[c].user2} \ {Null} : user[u] # "purged"

(* "Chat ID should be the same regardless of who initiated it": the chats   *)
(* are a directory with one chat for any two users, however their requests  *)
(* overlap.  (A second one would make findExistingPrivateChat fail for both *)
(* for ever, for it asks for the only one.)                                 *)
Directory ==
  INSTANCE ChatDirectory WITH
    between <- [c \in Chats |-> IF c \in Committed THEN made[c] ELSE {}],
    gone <- {u \in Users : user[u] = "purged"}
IsDirectory == Directory!Spec

(* A chat that a request was answered with stays, with its user, for each   *)
(* of its two users until he is purged, whatever the jobs delete meanwhile. *)
AnswersStand ==
  \A c \in answers : \A u \in made[c] :
    user[u] # "purged" => c \in Committed /\ u \in {chat[c].user1, chat[c].user2}

(* The job's purpose: a chat does not outlive both its users for ever.      *)
AbandonedGo ==
  \A c \in Chats :
    (c \in Committed /\ \A u \in made[c] : user[u] = "purged") ~> c \notin Committed

(* Contacts are told who comes and goes from the cached lists.  While a     *)
(* list lacks the partner of a chat, the request that created the chat is   *)
(* about to delete it, or the deletion was lost or came before a filler     *)
(* wrote what it had read: the code has no other way to stale contacts.     *)
Lacks(u, v) == cache[u] # NotCached /\ v \in Partners(u) \ cache[u]
Coming(u, v) ==
  \E r \in Requests : u \in ToForget(r) /\ {u, v} = {req[r].user, req[r].target}

StaleWithExcuse == \A u, v \in Users : Lacks(u, v) => u \in excuse \/ Coming(u, v)

(* A stale list is not the last word: in the end nobody lacks a contact.    *)
ContactsConverge == <>[](\A u, v \in Users : ~Lacks(u, v))
=============================================================================
