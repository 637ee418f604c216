------------------------- MODULE PrivateChatsProofs -------------------------
(***************************************************************************)
(* Private chats are a directory of pairs, what is answered stands, and    *)
(* stale contacts have an excuse, for any users, requests and fillers.     *)
(***************************************************************************)
EXTENDS PrivateChats, TLAPS

Kept(u) == IF user[u] = "purged" THEN Null ELSE u
Purged == {u \in Users : user[u] = "purged"}

(* A chat that is there has the columns of its two users, those of the      *)
(* purged NULL; one that is not was never made, or both are purged.         *)
Between(c, u, v) ==
  /\ u < v /\ made[c] = {u, v}
  /\ chat[c].user1 = Kept(u) /\ chat[c].user2 = Kept(v)
Shape ==
  \A c \in Chats :
    \/ chat[c].row = "none" /\ chat[c] = NoChat /\ made[c] \subseteq Purged
    \/ chat[c].row # "none" /\ \E u, v \in Users : Between(c, u, v)

(* No two chats are ever made for the same users.                           *)
Unrepeated == \A c, d \in Chats : made[c] = made[d] /\ made[c] # {} => c = d

(* An open transaction keeps both its users from being purged.              *)
Locked == \A c \in Chats : chat[c].row = "open" => chat[c].user1 # Null /\ chat[c].user2 # Null

(* A request has two users, and its own open chat until it commits.         *)
Serving ==
  \A r \in Requests :
    /\ req[r].step # "idle" =>
         req[r].user \in Users /\ req[r].target \in Users /\ req[r].user # req[r].target
    /\ IF req[r].step = "commit"
       THEN /\ req[r].chat \in Chats /\ chat[req[r].chat].row = "open"
            /\ Columns(req[r].chat) = Ordered(req[r].user, req[r].target)
       ELSE req[r].chat = NoId
Apart == \A r, s \in Requests : req[r].chat = req[s].chat /\ req[r].chat # NoId => r = s

(* The job deletes chats of purged users only; chats answered were made.    *)
Doomed == \A c \in cleanup : made[c] # {} /\ made[c] \subseteq Purged
Given == \A c \in answers : made[c] # {} /\ chat[c].row # "open"

(* A list about to be cached lacks a partner only with an excuse.           *)
Filling ==
  \A f \in Fillers, u, v \in Users :
    fill[f].busy /\ fill[f].user = u /\ v \in Partners(u) \ fill[f].contacts
      => fill[f].old \/ Coming(u, v)

Busy == \A f \in Fillers : fill[f].busy => fill[f].user \in Users

RowsInv == TypeOK /\ Shape /\ Unrepeated /\ Locked /\ Serving /\ Apart /\ Doomed /\ Given /\ Busy

-----------------------------------------------------------------------------
LEMMA Records ==
  /\ Waiting \in RequestRecord /\ Resting \in FillRecord /\ NoChat \in ChatRecord
  /\ Null \notin Users /\ Users \subseteq Nat /\ NotCached \notin SUBSET Users
BY PrivateChatsAssumption
   DEF Waiting, RequestRecord, Resting, FillRecord, NoChat, ChatRecord, Null, NotCached

LEMMA TypeInit == Init => TypeOK
<1> SUFFICES ASSUME Init PROVE TypeOK
    OBVIOUS
<1> USE Records
<1>1. \A c \in Chats : chat[c].user1 = Null /\ chat[c].user2 = Null
    BY DEF Init, NoChat
<1>2. /\ user \in [Users -> {"live", "deleted", "purged"}] /\ made \in [Chats -> SUBSET Users]
      /\ chat \in [Chats -> ChatRecord] /\ req \in [Requests -> RequestRecord]
    BY DEF Init
<1>3. /\ cache \in [Users -> (SUBSET Users) \cup {NotCached}]
      /\ fill \in [Fillers -> FillRecord]
    BY DEF Init
<1> QED  BY <1>1, <1>2, <1>3 DEF Init, TypeOK

(* Steps that touch neither the rows nor the caches.                        *)
LEMMA TypeMoved ==
  ASSUME TypeOK, NEW r \in Requests, NEW q \in RequestRecord,
         req' = [req EXCEPT ![r] = q], UNCHANGED <<rows, cleanup, caching, made, excuse>>,
         answers' \subseteq Chats
  PROVE  TypeOK'
BY DEF TypeOK, rows, caching

LEMMA TypeOvertaken ==
  ASSUME TypeOK, NEW us, Overtaken(us)
  PROVE  fill' \in [Fillers -> FillRecord]
<1>1. ASSUME NEW f \in Fillers PROVE [fill[f] EXCEPT !.old = TRUE] \in FillRecord
    <2>1. fill[f] \in FillRecord
        BY DEF TypeOK
    <2>2. ASSUME NEW g \in FillRecord PROVE [g EXCEPT !.old = TRUE] \in FillRecord
        BY <2>2, Zenon DEF FillRecord
    <2> QED  BY <2>1, <2>2
<1> QED  BY <1>1 DEF Overtaken, TypeOK

LEMMA TypeCreate ==
  ASSUME TypeOK, Serving, NEW r \in Requests, UNCHANGED cleanup
  PROVE  /\ CreateFind(r) => TypeOK'
         /\ RetryFind(r) => TypeOK'
         /\ CreateRefused(r) => TypeOK'
         /\ CreateCommit(r) => TypeOK'
         /\ Fail(r) => TypeOK'
         /\ ForgetFirst(r) => TypeOK'
         /\ ForgetSecond(r) => TypeOK'
         /\ CommitUnanswered(r) => TypeOK'
         /\ \A u, v \in Users : CreateCheck(r, u, v) => TypeOK'
         /\ \A c \in Chats : CreateInsert(r, c) => TypeOK'
<1> USE Records
<1>1. req[r] \in RequestRecord
    BY DEF TypeOK
<1>2. ASSUME NEW st \in {"insert", "refused", "forget second"}, Go(r, st)
      PROVE  req' \in [Requests -> RequestRecord]
    BY <1>1, <1>2 DEF Go, TypeOK, RequestRecord
<1>3. ASSUME AnswerFound(r), UNCHANGED caching PROVE TypeOK'
    BY <1>3, TypeMoved DEF AnswerFound, Found, Of, Committed, TypeOK
<1>4. CreateFind(r) => TypeOK'
    BY <1>2, <1>3 DEF CreateFind, AnswerFound, TypeOK, rows, caching
<1>5. RetryFind(r) => TypeOK'
    BY <1>3 DEF RetryFind, AnswerFound
<1>6. CreateRefused(r) => TypeOK'
    BY <1>2 DEF CreateRefused, TypeOK, rows, caching
<1>7. ASSUME NEW c \in Chats, chat' = [chat EXCEPT ![c].row = "committed"], UNCHANGED user
      PROVE  /\ chat' \in [Chats -> ChatRecord]
             /\ \A d \in Chats : \A u \in {chat'[d].user1, chat'[d].user2} \ {Null} : user'[u] # "purged"
    BY <1>7 DEF TypeOK, ChatRecord
<1>8. CreateCommit(r) => TypeOK'
    <2> SUFFICES ASSUME CreateCommit(r) PROVE TypeOK'
        OBVIOUS
    <2>1. req[r].chat \in Chats
        BY DEF CreateCommit, Serving
    <2>2. req' \in [Requests -> RequestRecord]
        BY <1>1 DEF CreateCommit, TypeOK, RequestRecord
    <2> QED  BY <2>1, <2>2, <1>7 DEF CreateCommit, TypeOK, caching
<1>9. ToForget(r) \subseteq Users
    BY DEF ToForget, Serving
<1>10. Fail(r) => TypeOK'
    <2> SUFFICES ASSUME Fail(r) PROVE TypeOK'
        OBVIOUS
    <2>1. \A d \in Chats : chat'[d] = NoChat \/ chat'[d] = chat[d]
        BY DEF Fail
    <2>2. chat' \in [Chats -> ChatRecord]
        BY DEF Fail, TypeOK
    <2>3. \A d \in Chats : \A u \in {chat'[d].user1, chat'[d].user2} \ {Null} : user'[u] # "purged"
        BY <2>1 DEF Fail, TypeOK, NoChat
    <2>4. made' \in [Chats -> SUBSET Users] /\ req' \in [Requests -> RequestRecord]
        BY DEF Fail, TypeOK
    <2> QED  BY <2>2, <2>3, <2>4, <1>9, TypeOvertaken DEF Fail, TypeOK
<1>11. ASSUME NEW u \in Users, Forget(u)
       PROVE  /\ fill' \in [Fillers -> FillRecord] /\ excuse' \subseteq Users
              /\ cache' \in [Users -> (SUBSET Users) \cup {NotCached}]
    BY <1>11, TypeOvertaken DEF Forget, TypeOK
<1>12. ForgetFirst(r) => TypeOK'
    BY <1>2, <1>11 DEF ForgetFirst, Serving, TypeOK, rows
<1>13. ForgetSecond(r) => TypeOK'
    <2> SUFFICES ASSUME ForgetSecond(r) PROVE TypeOK'
        OBVIOUS
    <2>1. req[r].target \in Users /\ Forget(req[r].target)
        BY DEF ForgetSecond, Serving
    <2>2. req' \in [Requests -> RequestRecord]
        BY DEF ForgetSecond, TypeOK
    <2> QED  BY <2>1, <2>2, <1>11 DEF ForgetSecond, TypeOK, rows
<1>14. CommitUnanswered(r) => TypeOK'
    <2> SUFFICES ASSUME CommitUnanswered(r) PROVE TypeOK'
        OBVIOUS
    <2>1. req[r].chat \in Chats /\ {req[r].user, req[r].target} \subseteq Users
        BY DEF CommitUnanswered, Serving
    <2> QED  BY <2>1, <1>7, TypeOvertaken DEF CommitUnanswered, TypeOK
<1>15. ASSUME NEW u \in Users, NEW v \in Users, CreateCheck(r, u, v) PROVE TypeOK'
    <2>1. [step |-> "find", user |-> u, target |-> v, chat |-> NoId] \in RequestRecord
        BY DEF RequestRecord
    <2> QED  BY <2>1, <1>15, TypeMoved DEF CreateCheck, TypeOK
<1>16. ASSUME NEW c \in Chats, CreateInsert(r, c) PROVE TypeOK'
    <2> DEFINE pair == Ordered(req[r].user, req[r].target)
    <2>1. /\ req[r].user \in Users /\ req[r].target \in Users
          /\ pair[1] \in {req[r].user, req[r].target} /\ pair[2] \in {req[r].user, req[r].target}
        BY <1>16 DEF CreateInsert, Serving, Ordered
    <2> HIDE DEF pair
    <2>2. [row |-> "open", user1 |-> pair[1], user2 |-> pair[2]] \in ChatRecord
        BY <2>1 DEF ChatRecord
    <2>3. chat' = [chat EXCEPT ![c] = [row |-> "open", user1 |-> pair[1], user2 |-> pair[2]]]
        BY <1>16 DEF CreateInsert, pair
    <2>4. chat' \in [Chats -> ChatRecord]
        BY <2>2, <2>3 DEF TypeOK
    <2>5. \A d \in Chats : \A u \in {chat'[d].user1, chat'[d].user2} \ {Null} : user'[u] # "purged"
        BY <2>1, <2>3, <1>16 DEF CreateInsert, TypeOK
    <2>6. req' \in [Requests -> RequestRecord]
        BY <1>1, <1>16 DEF CreateInsert, TypeOK, RequestRecord
    <2>7. made' \in [Chats -> SUBSET Users]
        BY <2>1, <1>16 DEF CreateInsert, TypeOK
    <2> QED  BY <1>16, <2>4, <2>5, <2>6, <2>7 DEF CreateInsert, TypeOK, caching
<1> QED  BY <1>4, <1>5, <1>6, <1>8, <1>10, <1>12, <1>13, <1>14, <1>15, <1>16

LEMMA TypeRemove ==
  ASSUME TypeOK, Remove, UNCHANGED <<req, caching, made, answers, excuse>>
  PROVE  TypeOK'
<1> USE Records DEF TypeOK, caching
<1>1. ASSUME NEW u \in Users, DeleteAccount(u) PROVE TypeOK'
    BY <1>1 DEF DeleteAccount
<1>2. ASSUME NEW u \in Users, Purge(u) PROVE TypeOK'
    <2>1. \A c \in Chats :
            /\ chat'[c] \in ChatRecord
            /\ chat'[c].user1 = Cleared(chat[c].user1, u)
            /\ chat'[c].user2 = Cleared(chat[c].user2, u)
        BY <1>2 DEF Purge, ChatRecord, Cleared
    <2>2. ASSUME NEW c \in Chats, NEW v \in {chat'[c].user1, chat'[c].user2} \ {Null}
          PROVE  user'[v] # "purged"
        <3>1. v # u /\ v \in {chat[c].user1, chat[c].user2} \ {Null}
            BY <2>1, <2>2 DEF Cleared
        <3>2. user[v] # "purged" /\ v \in Users
            BY <3>1 DEF ChatRecord
        <3> QED  BY <3>1, <3>2, <1>2 DEF Purge
    <2>3. chat' \in [Chats -> ChatRecord]
        BY <2>1, <1>2 DEF Purge
    <2>4. UNCHANGED <<cleanup, req, cache, fill, made, answers, excuse>>
        BY <1>2 DEF Purge
    <2>5. user' \in [Users -> {"live", "deleted", "purged"}]
        BY <1>2 DEF Purge
    <2> QED  BY <2>2, <2>3, <2>4, <2>5
<1>3. ASSUME NEW c \in Chats, CleanupDelete(c) PROVE TypeOK'
    <2>1. \A d \in Chats : chat'[d] = NoChat \/ chat'[d] = chat[d]
        BY <1>3 DEF CleanupDelete
    <2>2. \A d \in Chats : \A u \in {chat'[d].user1, chat'[d].user2} \ {Null} : user'[u] # "purged"
        BY <2>1, <1>3 DEF CleanupDelete, NoChat
    <2> QED  BY <1>3, <2>2 DEF CleanupDelete
<1>4. CASE CleanupQuery
    BY <1>4 DEF CleanupQuery, Committed, rows
<1>5. CASE CleanupFail
    BY <1>5 DEF CleanupFail, rows
<1> QED  BY <1>1, <1>2, <1>3, <1>4, <1>5 DEF Remove

LEMMA TypeCache ==
  ASSUME TypeOK, Busy, Cache, UNCHANGED <<rows, req, cleanup, made, answers>>
  PROVE  TypeOK'
<1> USE Records DEF TypeOK, rows
<1>1. ASSUME NEW f \in Fillers, FillSet(f) PROVE TypeOK'
    <2>1. fill[f].contacts \subseteq Users /\ fill[f].user \in Users
        BY <1>1 DEF FillSet, Busy, FillRecord
    <2>2. \/ excuse' = excuse \cup {fill[f].user}
          \/ excuse' = excuse \ {fill[f].user}
          \/ excuse' = excuse
        BY <1>1 DEF FillSet
    <2> QED  BY <1>1, <2>1, <2>2 DEF FillSet
<1>2. ASSUME NEW f \in Fillers, NEW u \in Users, FillRead(f, u) PROVE TypeOK'
    <2>1. [busy |-> TRUE, user |-> u, contacts |-> Partners(u), old |-> FALSE] \in FillRecord
        BY DEF FillRecord, Partners
    <2> QED  BY <1>2, <2>1 DEF FillRead
<1>3. ASSUME NEW u \in Users, CacheExpires(u) PROVE TypeOK'
    BY <1>3 DEF CacheExpires
<1> QED  BY <1>1, <1>2, <1>3 DEF Cache

LEMMA TypeStep == TypeOK /\ Serving /\ Busy /\ [Next]_vars => TypeOK'
<1> SUFFICES ASSUME TypeOK, Serving, Busy, [Next]_vars PROVE TypeOK'
    OBVIOUS
<1>1. CASE Create /\ UNCHANGED cleanup
    BY <1>1, TypeCreate DEF Create
<1>2. CASE UNCHANGED vars
    BY <1>2 DEF TypeOK, vars, rows, caching
<1> QED  BY <1>1, <1>2, TypeRemove, TypeCache DEF Next

-----------------------------------------------------------------------------
LEMMA RowsInit == Init => RowsInv
<1> SUFFICES ASSUME Init PROVE RowsInv
    OBVIOUS
<1>1. TypeOK
    BY TypeInit
<1>2. Shape /\ Unrepeated /\ Locked /\ Doomed /\ Given
    BY DEF Init, Shape, Unrepeated, Locked, Doomed, Given, NoChat
<1>3. Serving /\ Apart /\ Busy
    BY DEF Init, Serving, Apart, Busy, Waiting, Resting
<1> QED  BY <1>1, <1>2, <1>3 DEF RowsInv

(* What a chat's row says of the users it was made for.                     *)
LEMMA RowFacts ==
  ASSUME TypeOK, Shape, Locked, NEW c \in Chats
  PROVE  /\ made[c] = {} => chat[c].row = "none"
         /\ chat[c].row = "open" => made[c] # {} /\ made[c] \cap Purged = {}
         /\ chat[c].row # "none" /\ Abandoned(c) => made[c] # {} /\ made[c] \subseteq Purged
<1>1. CASE chat[c].row = "none"
    BY <1>1
<1>2. CASE chat[c].row # "none"
    <2>1. PICK u \in Users, v \in Users : Between(c, u, v)
        BY <1>2 DEF Shape
    <2>2. made[c] = {u, v} /\ u # Null /\ v # Null
        BY <2>1, Records DEF Between
    <2>3. /\ chat[c].user1 = Null <=> u \in Purged
          /\ chat[c].user2 = Null <=> v \in Purged
        BY <2>1, <2>2 DEF Between, Kept, Purged
    <2> QED  BY <1>2, <2>2, <2>3 DEF Locked, Abandoned
<1> QED  BY <1>1, <1>2

LEMMA NotDoomed ==
  ASSUME TypeOK, Shape, Locked, Doomed, NEW c \in cleanup
  PROVE  chat[c].row # "open"
BY RowFacts DEF Doomed, TypeOK

(* Every move of a request but the insert.                                  *)
LEMMA RequestMoves ==
  ASSUME TypeOK, Serving, Apart, NEW r \in Requests, NEW q \in RequestRecord,
         req' = [req EXCEPT ![r] = q], q.step # "commit", q.chat = NoId,
         q.step # "idle" => q.user \in Users /\ q.target \in Users /\ q.user # q.target,
         \A s \in Requests \ {r} : req[s].chat # NoId => chat'[req[s].chat] = chat[req[s].chat]
  PROVE  Serving' /\ Apart'
<1>1. req'[r] = q /\ \A s \in Requests \ {r} : req'[s] = req[s]
    BY DEF TypeOK
<1>2. Apart'
    BY <1>1 DEF Apart
<1>3. ASSUME NEW s \in Requests \ {r}, req[s].step = "commit"
      PROVE  chat'[req[s].chat] = chat[req[s].chat]
    BY <1>3, PrivateChatsAssumption DEF Serving
<1>4. Serving'
    BY <1>1, <1>3 DEF Serving, Columns
<1> QED  BY <1>2, <1>4

(* A step that leaves the users, the chats and the requests alone.          *)
LEMMA Still ==
  ASSUME RowsInv, UNCHANGED <<rows, req, made, answers>>, cleanup' \subseteq cleanup, Busy'
  PROVE  Shape' /\ Unrepeated' /\ Locked' /\ Serving' /\ Apart' /\ Doomed' /\ Given' /\ Busy'
<1>1. Shape' /\ Locked' /\ Doomed'
    BY DEF RowsInv, rows, Shape, Locked, Doomed, Between, Kept, Purged
<1>2. Unrepeated' /\ Serving' /\ Apart' /\ Given'
    BY DEF RowsInv, rows, Unrepeated, Serving, Apart, Given, Columns
<1> QED  BY <1>1, <1>2

(* Chats that are not open, or whose transaction ends.                      *)
LEMMA Commits ==
  ASSUME RowsInv, NEW r \in Requests, req[r].step = "commit",
         chat' = [chat EXCEPT ![req[r].chat].row = "committed"],
         UNCHANGED <<user, made, cleanup>>,
         answers' \in {answers, answers \cup {req[r].chat}}
  PROVE  /\ Shape' /\ Unrepeated' /\ Locked' /\ Doomed' /\ Given'
         /\ \A s \in Requests \ {r} :
              req[s].chat # NoId => chat'[req[s].chat] = chat[req[s].chat]
<1> DEFINE c == req[r].chat
<1>1. c \in Chats /\ chat[c].row = "open" /\ made[c] # {}
    BY RowFacts DEF RowsInv, Serving
<1>2. /\ \A d \in Chats : chat'[d].user1 = chat[d].user1 /\ chat'[d].user2 = chat[d].user2
      /\ \A d \in Chats \ {c} : chat'[d] = chat[d]
      /\ chat'[c].row = "committed"
    BY <1>1 DEF RowsInv, TypeOK, ChatRecord
<1> HIDE DEF c
<1>3. Locked' /\ Unrepeated' /\ Doomed'
    BY <1>2 DEF RowsInv, Locked, Unrepeated, Doomed, Purged
<1>4. Shape'
    <2>1. \A d \in Chats, u, v \in Users : Between(d, u, v) => Between(d, u, v)'
        BY <1>2 DEF Between, Kept
    <2>2. chat[c].row # "none"
        BY <1>1
    <2> QED  BY <1>1, <1>2, <2>1, <2>2 DEF RowsInv, Shape, Purged
<1>5. Given'
    BY <1>1, <1>2 DEF RowsInv, Given, TypeOK, c
<1>6. \A s \in Requests \ {r} : req[s].chat # NoId => req[s].chat \in Chats \ {c}
    BY DEF RowsInv, Apart, TypeOK, RequestRecord, c
<1> QED  BY <1>2, <1>3, <1>4, <1>5, <1>6

LEMMA Inserts ==
  ASSUME RowsInv, NEW r \in Requests, NEW c \in Chats, CreateInsert(r, c), UNCHANGED cleanup
  PROVE  Shape' /\ Unrepeated' /\ Locked' /\ Serving' /\ Apart' /\ Doomed' /\ Given'
<1> DEFINE x == req[r].user
           y == req[r].target
<1>1. x \in Users /\ y \in Users /\ x # y /\ user[x] # "purged" /\ user[y] # "purged"
    BY DEF RowsInv, Serving, CreateInsert
<1>2. PICK a \in Users, b \in Users :
        /\ a < b /\ Ordered(x, y) = <<a, b>> /\ {a, b} = {x, y}
        /\ user[a] # "purged" /\ user[b] # "purged"
    <2>1. x \in Nat /\ y \in Nat
        BY <1>1, Records
    <2>2. CASE x > y
        <3>1. y < x /\ Ordered(x, y) = <<y, x>> /\ {y, x} = {x, y}
            BY <2>1, <2>2 DEF Ordered
        <3> QED  BY <3>1, <1>1
    <2>3. CASE ~(x > y)
        <3>1. x < y /\ Ordered(x, y) = <<x, y>> /\ {x, y} = {x, y}
            BY <2>1, <2>3, <1>1 DEF Ordered
        <3> QED  BY <3>1, <1>1
    <2> QED  BY <2>2, <2>3
<1>3. /\ chat' = [chat EXCEPT ![c] = [row |-> "open", user1 |-> a, user2 |-> b]]
      /\ made' = [made EXCEPT ![c] = {a, b}]
      /\ made[c] = {} /\ UNCHANGED <<user, answers>>
    <2>1. Ordered(x, y)[1] = a /\ Ordered(x, y)[2] = b
        BY <1>2
    <2> QED  BY <1>2, <2>1, Zenon DEF CreateInsert
<1>4. /\ \A d \in Chats \ {c} : chat'[d] = chat[d] /\ made'[d] = made[d]
      /\ chat'[c].row = "open" /\ chat'[c].user1 = a /\ chat'[c].user2 = b
      /\ made'[c] = {a, b}
    BY <1>3 DEF RowsInv, TypeOK
<1>5. Between(c, a, b)'
    BY <1>2, <1>3, <1>4 DEF Between, Kept
<1>6. Shape'
    <2>1. \A d \in Chats \ {c}, u, v \in Users : Between(d, u, v) => Between(d, u, v)'
        BY <1>3, <1>4 DEF Between, Kept
    <2> QED  BY <1>2, <1>3, <1>4, <1>5, <2>1 DEF RowsInv, Shape, Purged
<1>7. Locked'
    BY <1>2, <1>4, Records DEF RowsInv, Locked
<1>8. Unrepeated'
    <2>1. ASSUME NEW d \in Chats \ {c}, made[d] = {a, b} PROVE FALSE
        <3>1. chat[d].row # "none"
            BY <1>2, <2>1 DEF RowsInv, Shape, Purged
        <3>2. PICK u \in Users, v \in Users : Between(d, u, v)
            BY <3>1 DEF RowsInv, Shape
        <3>3. u < v /\ {u, v} = {a, b}
            BY <2>1, <3>2 DEF Between
        <3>4. u = a /\ v = b
            <4>1. u \in Nat /\ v \in Nat /\ a \in Nat /\ b \in Nat
                BY Records
            <4> QED  BY <1>2, <3>3, <4>1
        <3>5. Columns(d) = Ordered(x, y)
            BY <1>2, <3>2, <3>4 DEF Between, Kept, Columns
        <3> QED  BY <3>5 DEF CreateInsert, Same
    <2> QED  BY <1>4, <2>1 DEF RowsInv, Unrepeated
<1>9. Doomed' /\ Given'
    BY <1>3, <1>4 DEF RowsInv, Doomed, Given, Purged, TypeOK
<1>10. chat[c].row = "none"
    BY <1>3, RowFacts DEF RowsInv
<1>11. \A s \in Requests : req[s].chat # c
    BY <1>10, PrivateChatsAssumption DEF RowsInv, Serving
<1>12. /\ req'[r].step = "commit" /\ req'[r].user = x /\ req'[r].target = y /\ req'[r].chat = c
       /\ \A s \in Requests \ {r} : req'[s] = req[s]
    BY DEF CreateInsert, RowsInv, TypeOK, RequestRecord
<1>13. Apart'
    BY <1>11, <1>12 DEF RowsInv, Apart
<1>14. ASSUME NEW s \in Requests \ {r}, req[s].step = "commit"
       PROVE  chat'[req[s].chat] = chat[req[s].chat]
    BY <1>4, <1>11, <1>14 DEF RowsInv, Serving
<1>15. Columns(c)' = Ordered(x, y)
    BY <1>2, <1>4 DEF Columns
<1>16. Serving'
    BY <1>1, <1>4, <1>12, <1>14, <1>15 DEF RowsInv, Serving, Columns
<1> QED  BY <1>6, <1>7, <1>8, <1>9, <1>13, <1>16

LEMMA Fails ==
  ASSUME RowsInv, NEW r \in Requests, Fail(r), UNCHANGED cleanup
  PROVE  Shape' /\ Unrepeated' /\ Locked' /\ Serving' /\ Apart' /\ Doomed' /\ Given'
<1> DEFINE mine == {req[r].chat} \cap Chats
<1>1. \A c \in mine : chat[c].row = "open"
    BY PrivateChatsAssumption DEF RowsInv, Serving
<1>2. /\ \A c \in mine : chat'[c] = NoChat /\ made'[c] = {}
      /\ \A c \in Chats \ mine : chat'[c] = chat[c] /\ made'[c] = made[c]
      /\ UNCHANGED <<user, answers>>
    BY DEF Fail
<1>3. \A c \in mine : c \notin cleanup /\ c \notin answers
    BY <1>1, NotDoomed DEF RowsInv, Given
<1>4. \A s \in Requests \ {r} : req[s].chat # NoId => req[s].chat \in Chats \ mine
    BY DEF RowsInv, Apart, TypeOK, RequestRecord
<1> HIDE DEF mine
<1>5. Shape'
    <2>1. \A d \in Chats \ mine, u, v \in Users : Between(d, u, v) => Between(d, u, v)'
        BY <1>2 DEF Between, Kept
    <2> QED  BY <1>2, <2>1 DEF RowsInv, Shape, Purged, NoChat
<1>6. Unrepeated' /\ Locked'
    BY <1>2 DEF RowsInv, Unrepeated, Locked, NoChat
<1>7. Doomed' /\ Given'
    BY <1>2, <1>3 DEF RowsInv, Doomed, Given, Purged, TypeOK
<1>8. Serving' /\ Apart'
    <2>1. req' = [req EXCEPT ![r] = Waiting] /\ Waiting.step = "idle" /\ Waiting.chat = NoId
        BY DEF Fail, Waiting
    <2>2. \A s \in Requests \ {r} : req[s].chat # NoId => chat'[req[s].chat] = chat[req[s].chat]
        BY <1>2, <1>4
    <2> QED  BY <2>1, <2>2, RequestMoves, Records DEF RowsInv
<1> QED  BY <1>5, <1>6, <1>7, <1>8

LEMMA PurgeRows ==
  ASSUME RowsInv, NEW u \in Users, Purge(u)
  PROVE  \A c \in Chats :
               /\ chat'[c].row = chat[c].row
               /\ chat'[c].user1 = Cleared(chat[c].user1, u)
               /\ chat'[c].user2 = Cleared(chat[c].user2, u)
               /\ chat[c] = NoChat => chat'[c] = NoChat
               /\ chat[c].row = "open" => chat'[c] = chat[c]
<1> DEFINE E(d) == [d EXCEPT !.user1 = Cleared(@, u), !.user2 = Cleared(@, u)]
<1>1. \A d \in ChatRecord :
        /\ E(d).row = d.row
        /\ E(d).user1 = Cleared(d.user1, u) /\ E(d).user2 = Cleared(d.user2, u)
        /\ d.user1 # u /\ d.user2 # u => E(d) = d
    BY DEF ChatRecord, Cleared
<1>2. \A c \in Chats : chat'[c] = E(chat[c])
    BY DEF Purge
<1>3. \A c \in Chats : chat[c].row = "open" => chat[c].user1 # u /\ chat[c].user2 # u
    BY DEF Purge, Committed
<1>4. NoChat.user1 # u /\ NoChat.user2 # u
    BY Records DEF NoChat
<1> HIDE DEF E
<1> QED  BY <1>1, <1>2, <1>3, <1>4 DEF RowsInv, TypeOK

LEMMA Purges ==
  ASSUME RowsInv, NEW u \in Users, Purge(u), UNCHANGED <<req, made, answers>>
  PROVE  Shape' /\ Unrepeated' /\ Locked' /\ Serving' /\ Apart' /\ Doomed' /\ Given'
<1>1. \A c \in Chats :
        /\ chat'[c].row = chat[c].row
        /\ chat'[c].user1 = Cleared(chat[c].user1, u)
        /\ chat'[c].user2 = Cleared(chat[c].user2, u)
        /\ chat[c] = NoChat => chat'[c] = NoChat
        /\ chat[c].row = "open" => chat'[c] = chat[c]
    BY PurgeRows
<1>2. /\ Purged' = Purged \cup {u}
      /\ \A v \in Users : Kept(v)' = Cleared(Kept(v), u)
    BY Records DEF Purge, Purged, Kept, Cleared, RowsInv, TypeOK
<1>3. Shape'
    <2>1. \A d \in Chats, v, w \in Users : Between(d, v, w) => Between(d, v, w)'
        BY <1>1, <1>2 DEF Between
    <2> QED  BY <1>1, <1>2, <2>1 DEF RowsInv, Shape
<1>4. Unrepeated' /\ Locked' /\ Given'
    BY <1>1 DEF RowsInv, Unrepeated, Locked, Given, TypeOK
<1>5. Doomed'
    BY <1>2 DEF RowsInv, Doomed, Purge
<1>6. Serving' /\ Apart'
    BY <1>1 DEF RowsInv, Serving, Apart, Columns
<1> QED  BY <1>3, <1>4, <1>5, <1>6

LEMMA Closes ==
  ASSUME RowsInv, NEW c \in Chats, CleanupDelete(c), UNCHANGED <<req, made, answers>>
  PROVE  Shape' /\ Unrepeated' /\ Locked' /\ Serving' /\ Apart' /\ Doomed' /\ Given'
<1>1. /\ chat'[c] = NoChat /\ \A d \in Chats \ {c} : chat'[d] = chat[d]
      /\ made[c] \subseteq Purged /\ UNCHANGED user /\ cleanup' \subseteq cleanup
    BY DEF CleanupDelete, RowsInv, TypeOK, Doomed
<1>2. Shape'
    <2>1. \A d \in Chats \ {c}, u, v \in Users : Between(d, u, v) => Between(d, u, v)'
        BY <1>1 DEF Between, Kept
    <2> QED  BY <1>1, <2>1 DEF RowsInv, Shape, Purged, NoChat
<1>3. Unrepeated' /\ Locked' /\ Given' /\ Doomed'
    BY <1>1 DEF RowsInv, Unrepeated, Locked, Given, Doomed, Purged, TypeOK, NoChat
<1>4. \A r \in Requests : req[r].step = "commit" => req[r].chat # c
    BY NotDoomed DEF CleanupDelete, RowsInv, Serving
<1>5. Serving' /\ Apart'
    BY <1>1, <1>4 DEF RowsInv, Serving, Apart, Columns
<1> QED  BY <1>2, <1>3, <1>5

LEMMA RowsStep == RowsInv /\ [Next]_vars => RowsInv'
<1> SUFFICES ASSUME RowsInv, [Next]_vars PROVE RowsInv'
    OBVIOUS
<1>1. TypeOK'
    BY TypeStep DEF RowsInv
<1>2. ASSUME NEW us, Overtaken(us) PROVE Busy'
    <2>1. \A f \in Fillers : fill'[f].busy = fill[f].busy /\ fill'[f].user = fill[f].user
        BY <1>2 DEF Overtaken, RowsInv, TypeOK, FillRecord
    <2> QED  BY <2>1 DEF RowsInv, Busy
<1>3. UNCHANGED fill => Busy'
    BY DEF RowsInv, Busy
<1> DEFINE Rest == Shape' /\ Unrepeated' /\ Locked' /\ Serving' /\ Apart' /\ Doomed' /\ Given' /\ Busy'
<1>4. SUFFICES Rest
    BY <1>1 DEF RowsInv
<1>5. ASSUME NEW r \in Requests, NEW q \in RequestRecord, req' = [req EXCEPT ![r] = q],
             q.step # "commit", q.chat = NoId,
             q.step # "idle" => q.user \in Users /\ q.target \in Users /\ q.user # q.target,
             UNCHANGED <<rows, made, cleanup>>, answers' \in {answers, answers \cup Found(r)}, Busy'
      PROVE  Rest
    <2>1. Serving' /\ Apart'
        BY <1>5, RequestMoves, Zenon DEF RowsInv, rows
    <2>2. Shape' /\ Unrepeated' /\ Locked' /\ Doomed'
        BY <1>5 DEF RowsInv, rows, Shape, Unrepeated, Locked, Doomed, Between, Kept, Purged
    <2>3. \A c \in Found(r) : made[c] # {} /\ chat[c].row # "open"
        BY RowFacts DEF RowsInv, Found, Committed
    <2>4. Given'
        BY <1>5, <2>3 DEF RowsInv, Given, rows
    <2> QED  BY <2>1, <2>2, <2>4, <1>5
<1>6. ASSUME NEW r \in Requests, NEW st \in {"insert", "refused", "forget second"},
             req[r].step \notin {"idle", "commit"}, Go(r, st),
             UNCHANGED <<rows, made, cleanup, answers>>, Busy'
      PROVE  Rest
    <2> DEFINE q == [req[r] EXCEPT !.step = st]
    <2>1. /\ q \in RequestRecord /\ q.step = st /\ q.chat = req[r].chat
          /\ q.user = req[r].user /\ q.target = req[r].target
        BY DEF RowsInv, TypeOK, RequestRecord
    <2>2. req' = [req EXCEPT ![r] = q]
        BY <1>6 DEF Go, RowsInv, TypeOK
    <2>3. /\ req[r].chat = NoId /\ req[r].user \in Users /\ req[r].target \in Users
          /\ req[r].user # req[r].target
        BY <1>6 DEF RowsInv, Serving
    <2> HIDE DEF q
    <2> QED  BY <1>5, <1>6, <2>1, <2>2, <2>3
<1>7. Waiting \in RequestRecord /\ Waiting.step = "idle" /\ Waiting.chat = NoId
    BY Records DEF Waiting
<1>8. ASSUME NEW r \in Requests, AnswerFound(r), UNCHANGED cleanup PROVE Rest
    BY <1>3, <1>5, <1>7, <1>8 DEF AnswerFound, caching
<1>9. CASE Create /\ UNCHANGED cleanup
    <2> SUFFICES ASSUME NEW r \in Requests, UNCHANGED cleanup,
                        \/ CreateFind(r) \/ RetryFind(r) \/ CreateRefused(r) \/ CreateCommit(r) \/ Fail(r)
                        \/ ForgetFirst(r) \/ ForgetSecond(r) \/ CommitUnanswered(r)
                        \/ \E u, v \in Users : CreateCheck(r, u, v)
                        \/ \E c \in Chats : CreateInsert(r, c)
                 PROVE  Rest
        BY <1>9 DEF Create
    <2>1. CASE CreateFind(r)
        BY <2>1, <1>3, <1>6, <1>8 DEF CreateFind, caching
    <2>2. CASE RetryFind(r)
        BY <2>2, <1>8 DEF RetryFind
    <2>3. CASE CreateRefused(r)
        BY <2>3, <1>3, <1>6 DEF CreateRefused, caching
    <2>4. CASE CreateCommit(r)
        <3> DEFINE q == [req[r] EXCEPT !.step = "forget both", !.chat = NoId]
        <3>1. /\ q \in RequestRecord /\ q.step = "forget both" /\ q.chat = NoId
              /\ q.user = req[r].user /\ q.target = req[r].target
            BY DEF RowsInv, TypeOK, RequestRecord
        <3>2. req' = [req EXCEPT ![r] = q]
            BY <2>4 DEF CreateCommit, RowsInv, TypeOK
        <3>3. req[r].user \in Users /\ req[r].target \in Users /\ req[r].user # req[r].target
            BY <2>4 DEF CreateCommit, RowsInv, Serving
        <3> HIDE DEF q
        <3>4. /\ Shape' /\ Unrepeated' /\ Locked' /\ Doomed' /\ Given'
              /\ \A s \in Requests \ {r} :
                   req[s].chat # NoId => chat'[req[s].chat] = chat[req[s].chat]
            BY <2>4, Commits DEF CreateCommit
        <3>5. Serving' /\ Apart'
            BY <3>1, <3>2, <3>3, <3>4, RequestMoves DEF RowsInv
        <3> QED  BY <2>4, <3>4, <3>5, <1>3 DEF CreateCommit, caching
    <2>5. CASE Fail(r)
        BY <2>5, Fails, <1>2 DEF Fail
    <2>6. CASE ForgetFirst(r)
        BY <2>6, <1>2, <1>6 DEF ForgetFirst, Forget
    <2>7. CASE ForgetSecond(r)
        BY <2>7, <1>2, <1>5, <1>7 DEF ForgetSecond, Forget
    <2>8. CASE CommitUnanswered(r)
        <3>1. /\ Shape' /\ Unrepeated' /\ Locked' /\ Doomed' /\ Given'
              /\ \A s \in Requests \ {r} :
                   req[s].chat # NoId => chat'[req[s].chat] = chat[req[s].chat]
            BY <2>8, Commits DEF CommitUnanswered
        <3>2. Serving' /\ Apart'
            BY <2>8, <3>1, <1>7, RequestMoves DEF RowsInv, CommitUnanswered
        <3> QED  BY <2>8, <3>1, <3>2, <1>2 DEF CommitUnanswered
    <2>9. ASSUME NEW u \in Users, NEW v \in Users, CreateCheck(r, u, v) PROVE Rest
        <3> DEFINE q == [step |-> "find", user |-> u, target |-> v, chat |-> NoId]
        <3>1. q \in RequestRecord /\ q.step = "find" /\ q.chat = NoId /\ q.user = u /\ q.target = v
            BY DEF RequestRecord
        <3>2. req' = [req EXCEPT ![r] = q] /\ u # v
            BY <2>9 DEF CreateCheck
        <3> HIDE DEF q
        <3> QED  BY <2>9, <3>1, <3>2, <1>3, <1>5 DEF CreateCheck, caching
    <2>10. ASSUME NEW c \in Chats, CreateInsert(r, c) PROVE Rest
        BY <2>10, Inserts, <1>3 DEF CreateInsert, caching
    <2> QED  BY <2>1, <2>2, <2>3, <2>4, <2>5, <2>6, <2>7, <2>8, <2>9, <2>10
<1>10. CASE Remove /\ UNCHANGED <<req, caching, made, answers, excuse>>
    <2>1. Busy'
        BY <1>10, <1>3 DEF caching
    <2>2. ASSUME NEW u \in Users, DeleteAccount(u) PROVE Rest
        <3>1. Purged' = Purged /\ \A v \in Users : Kept(v)' = Kept(v)
            BY <2>2 DEF DeleteAccount, Purged, Kept, RowsInv, TypeOK
        <3>2. Shape' /\ Locked' /\ Doomed'
            BY <2>2, <3>1, <1>10 DEF DeleteAccount, RowsInv, Shape, Locked, Doomed, Between
        <3>3. Unrepeated' /\ Serving' /\ Apart' /\ Given'
            BY <2>2, <1>10 DEF DeleteAccount, RowsInv, Unrepeated, Serving, Apart, Given, Columns
        <3> QED  BY <3>2, <3>3, <2>1
    <2>3. ASSUME NEW u \in Users, Purge(u) PROVE Rest
        BY <2>1, <2>3, <1>10, Purges
    <2>4. ASSUME NEW c \in Chats, CleanupDelete(c) PROVE Rest
        BY <2>1, <2>4, <1>10, Closes
    <2>5. CASE CleanupQuery
        <3>1. Shape' /\ Unrepeated' /\ Locked' /\ Serving' /\ Apart' /\ Given'
            BY <2>5, <1>10 DEF CleanupQuery, rows, RowsInv, Shape, Unrepeated, Locked, Serving,
               Apart, Given, Between, Kept, Purged, Columns
        <3>2. Doomed'
            BY <2>5, <1>10, RowFacts DEF CleanupQuery, rows, RowsInv, Doomed, Committed, Purged
        <3> QED  BY <2>1, <3>1, <3>2
    <2>6. CASE CleanupFail
        <3>1. cleanup' \subseteq cleanup /\ UNCHANGED <<rows, req, made, answers>>
            BY <2>6, <1>10 DEF CleanupFail
        <3> QED  BY <2>1, <3>1, Still, Zenon
    <2> QED  BY <2>2, <2>3, <2>4, <2>5, <2>6, <1>10 DEF Remove
<1>11. CASE Cache /\ UNCHANGED <<rows, req, cleanup, made, answers>>
    <2>1. Busy'
        <3>1. ASSUME NEW f \in Fillers, FillSet(f) PROVE Busy'
            BY <3>1 DEF FillSet, RowsInv, Busy, TypeOK, Resting
        <3>2. ASSUME NEW f \in Fillers, NEW u \in Users, FillRead(f, u) PROVE Busy'
            BY <3>2 DEF FillRead, RowsInv, Busy, TypeOK
        <3>3. ASSUME NEW u \in Users, CacheExpires(u) PROVE Busy'
            BY <3>3, <1>3 DEF CacheExpires
        <3> QED  BY <1>11, <3>1, <3>2, <3>3 DEF Cache
    <2> QED  BY <2>1, <1>11, Still
<1>12. CASE UNCHANGED vars
    BY <1>12, <1>3, Still DEF vars, caching
<1> QED  BY <1>9, <1>10, <1>11, <1>12 DEF Next

LEMMA RowsHold == Spec => []RowsInv
BY RowsInit, RowsStep, PTL DEF Spec

(* The type invariant, for any users, chats, requests and fillers.          *)
THEOREM TypeCorrect == Spec => []TypeOK
<1>1. RowsInv => TypeOK
    BY DEF RowsInv
<1> QED  BY <1>1, RowsHold, PTL

(* A chat that a request was answered with is there for each of its users   *)
(* until he is purged, however many requests, purges and jobs there are.    *)
THEOREM AnswersAlwaysStand == Spec => []AnswersStand
<1>1. RowsInv => AnswersStand
    <2> SUFFICES ASSUME RowsInv, NEW c \in answers, NEW x \in made[c], user[x] # "purged"
                 PROVE  c \in Committed /\ x \in {chat[c].user1, chat[c].user2}
        BY DEF AnswersStand
    <2>1. c \in Chats /\ made[c] \subseteq Users
        BY DEF RowsInv, TypeOK
    <2>2. chat[c].row # "none"
        BY <2>1 DEF RowsInv, Shape, Purged
    <2>3. c \in Committed
        BY <2>1, <2>2 DEF RowsInv, Given, TypeOK, ChatRecord, Committed
    <2>4. PICK u \in Users, v \in Users : Between(c, u, v)
        BY <2>1, <2>2 DEF RowsInv, Shape
    <2> QED  BY <2>3, <2>4 DEF Between, Kept
<1> QED  BY <1>1, RowsHold, PTL

-----------------------------------------------------------------------------
Shown == [c \in Chats |-> IF c \in Committed THEN made[c] ELSE {}]

LEMMA DirectoryInit == Init => Directory!Init
BY DEF Init, Directory!Init, Committed, NoChat

(* A commit opens the chat of the two users.                                *)
LEMMA DirectoryOpen ==
  ASSUME RowsInv, NEW r \in Requests, req[r].step = "commit",
         chat' = [chat EXCEPT ![req[r].chat].row = "committed"], UNCHANGED <<user, made>>
  PROVE  Directory!Next
<1> DEFINE c == req[r].chat
<1>1. c \in Chats /\ chat[c].row = "open" /\ made[c] \cap Purged = {}
    BY RowFacts DEF RowsInv, Serving
<1>2. PICK p : p = made[c]
    OBVIOUS
<1>3. PICK u \in Users, v \in Users : u < v /\ p = {u, v}
    BY <1>1, <1>2 DEF RowsInv, Shape, Between
<1>4. p \in Directory!Pairs
    <2>1. u # v /\ p \in SUBSET Users /\ u \in p /\ v \in p
        BY <1>3, Records
    <2> QED  BY <1>3, <2>1 DEF Directory!Pairs
<1>5. \A d \in Chats : d \in Committed' <=> d \in Committed \/ d = c
    BY <1>1 DEF Committed, RowsInv, TypeOK
<1>6. c \notin Committed
    BY <1>1 DEF Committed
<1>7. Shown' = [Shown EXCEPT ![c] = p]
    BY <1>1, <1>2, <1>5, <1>6 DEF Shown
<1>8. \A d \in Chats : Shown[d] # p
    <2>1. p # {} /\ \A d \in Chats : made[d] = p => d = c
        BY <1>1, <1>2, <1>3 DEF RowsInv, Unrepeated
    <2> QED  BY <2>1, <1>6 DEF Shown
<1>9. Shown[c] = {} /\ Purged' = Purged
    BY <1>1, <1>6 DEF Shown, Purged
<1>10. Directory!Open(c, p)
    BY <1>1, <1>2, <1>7, <1>8, <1>9 DEF Directory!Open, Shown, Purged
<1> QED  BY <1>1, <1>4, <1>10 DEF Directory!Next

LEMMA DirectoryStep == RowsInv /\ [Next]_vars => [Directory!Next]_(Directory!vars)
<1> SUFFICES ASSUME RowsInv, [Next]_vars PROVE [Directory!Next]_(Directory!vars)
    OBVIOUS
<1>1. ASSUME UNCHANGED user,
             \A c \in Chats : /\ c \in Committed' <=> c \in Committed
                              /\ c \in Committed => made'[c] = made[c]
      PROVE  UNCHANGED Directory!vars
    <2>1. Shown' = Shown /\ Purged' = Purged
        BY <1>1 DEF Shown, Purged
    <2> QED  BY <2>1 DEF Directory!vars, Shown, Purged
<1>2. UNCHANGED <<chat, made>> =>
        \A c \in Chats : /\ c \in Committed' <=> c \in Committed
                         /\ c \in Committed => made'[c] = made[c]
    BY DEF Committed
<1>3. CASE Create /\ UNCHANGED cleanup
    <2> SUFFICES ASSUME NEW r \in Requests,
                        \/ CreateFind(r) \/ RetryFind(r) \/ CreateRefused(r) \/ CreateCommit(r) \/ Fail(r)
                        \/ ForgetFirst(r) \/ ForgetSecond(r) \/ CommitUnanswered(r)
                        \/ \E u, v \in Users : CreateCheck(r, u, v)
                        \/ \E c \in Chats : CreateInsert(r, c)
                 PROVE  [Directory!Next]_(Directory!vars)
        BY <1>3 DEF Create
    <2>1. CASE CreateCommit(r)
        BY <2>1, DirectoryOpen DEF CreateCommit
    <2>2. CASE CommitUnanswered(r)
        BY <2>2, DirectoryOpen DEF CommitUnanswered
    <2>3. CASE Fail(r)
        <3>1. ASSUME NEW c \in Chats
              PROVE  /\ c \in Committed' <=> c \in Committed
                     /\ c \in Committed => made'[c] = made[c]
            <4>1. c = req[r].chat => c \notin Committed
                BY PrivateChatsAssumption DEF RowsInv, Serving, Committed
            <4> QED  BY <4>1, <2>3 DEF Fail, Committed, NoChat
        <3> QED  BY <2>3, <3>1, <1>1 DEF Fail
    <2>4. ASSUME NEW c \in Chats, CreateInsert(r, c) PROVE UNCHANGED Directory!vars
        <3>1. c \notin Committed
            BY <2>4 DEF CreateInsert, Committed
        <3>2. \A d \in Chats : /\ d \in Committed' <=> d \in Committed
                               /\ d \in Committed => made'[d] = made[d]
            BY <2>4, <3>1 DEF CreateInsert, Committed, RowsInv, TypeOK
        <3> QED  BY <2>4, <3>2, <1>1 DEF CreateInsert
    <2>5. CASE \/ CreateFind(r) \/ RetryFind(r) \/ CreateRefused(r) \/ ForgetFirst(r)
               \/ ForgetSecond(r) \/ \E u, v \in Users : CreateCheck(r, u, v)
        <3>1. UNCHANGED <<user, chat, made>>
            BY <2>5 DEF CreateFind, RetryFind, AnswerFound, CreateRefused, ForgetFirst,
               ForgetSecond, CreateCheck, rows
        <3> QED  BY <3>1, <1>1, <1>2
    <2> QED  BY <2>1, <2>2, <2>3, <2>4, <2>5
<1>4. CASE Remove /\ UNCHANGED <<req, caching, made, answers, excuse>>
    <2>1. ASSUME NEW u \in Users, DeleteAccount(u) PROVE UNCHANGED Directory!vars
        <3>1. UNCHANGED <<chat, made>>
            BY <1>4, <2>1 DEF DeleteAccount
        <3>2. Purged' = Purged
            BY <2>1 DEF DeleteAccount, Purged, RowsInv, TypeOK
        <3>3. Shown' = Shown
            BY <3>1 DEF Shown, Committed
        <3> QED  BY <3>2, <3>3 DEF Directory!vars, Shown, Purged
    <2>2. ASSUME NEW u \in Users, Purge(u) PROVE Directory!Leave(u)
        <3>1. \A c \in Chats : chat'[c].row = chat[c].row
            BY <2>2 DEF Purge, RowsInv, TypeOK, ChatRecord
        <3>2. Shown' = Shown
            BY <1>4, <3>1 DEF Shown, Committed
        <3>3. Purged' = Purged \cup {u}
            BY <2>2 DEF Purge, Purged, RowsInv, TypeOK
        <3> QED  BY <3>2, <3>3 DEF Directory!Leave, Shown, Purged
    <2>3. ASSUME NEW c \in Chats, CleanupDelete(c) PROVE Directory!Close(c)
        <3>1. /\ c \notin Committed' /\ \A d \in Chats \ {c} : d \in Committed' <=> d \in Committed
            BY <2>3 DEF CleanupDelete, Committed, NoChat, RowsInv, TypeOK
        <3>2. Shown' = [Shown EXCEPT ![c] = {}]
            BY <1>4, <3>1 DEF Shown
        <3>3. made[c] \subseteq Purged
            BY <2>3 DEF CleanupDelete, RowsInv, Doomed
        <3>4. Shown[c] \subseteq Purged /\ Purged' = Purged
            BY <2>3, <3>3 DEF CleanupDelete, Shown, Purged
        <3> QED  BY <3>2, <3>4 DEF Directory!Close, Shown, Purged
    <2>4. CASE CleanupQuery \/ CleanupFail
        BY <1>4, <2>4, <1>1, <1>2 DEF CleanupQuery, CleanupFail, rows
    <2> QED  BY <1>4, <2>1, <2>2, <2>3, <2>4 DEF Remove, Directory!Next
<1>5. CASE Cache /\ UNCHANGED <<rows, req, cleanup, made, answers>>
    BY <1>5, <1>1, <1>2 DEF rows
<1>6. CASE UNCHANGED vars
    BY <1>6, <1>1, <1>2 DEF vars, rows
<1> QED  BY <1>3, <1>4, <1>5, <1>6 DEF Next

(* The chats implement the directory: one chat for any two users, whatever  *)
(* their requests overlap with.                                             *)
THEOREM ChatsAreDirectory == Spec => IsDirectory
BY RowsHold, DirectoryInit, DirectoryStep, PTL DEF Spec, IsDirectory, Directory!Spec

-----------------------------------------------------------------------------
StaleInv == RowsInv /\ Filling /\ StaleWithExcuse

(* A step after which user u has been forgotten, or is known to be stale,   *)
(* and whoever is filling his contacts has been overtaken.                  *)
Settled(u) ==
  /\ u \in excuse' \/ cache'[u] = NotCached
  /\ \A f \in Fillers : fill'[f].busy /\ fill'[f].user = u => fill'[f].old

(* A step in which fillers go on, and no excuse is lost with a list kept.   *)
Going ==
  /\ \A f \in Fillers :
       /\ fill'[f].busy = fill[f].busy /\ fill'[f].user = fill[f].user
       /\ fill'[f].contacts = fill[f].contacts /\ (fill[f].old => fill'[f].old)
  /\ \A u \in Users :
       \/ cache'[u] = NotCached
       \/ cache'[u] = cache[u] /\ (u \in excuse => u \in excuse')

LEMMA Excuses ==
  ASSUME StaleInv, Going,
         \A u, v \in Users :
           \/ v \notin Partners(u)'
           \/ Settled(u) \/ Coming(u, v)'
           \/ v \in Partners(u) /\ ~Coming(u, v)
  PROVE  Filling' /\ StaleWithExcuse'
<1>1. StaleWithExcuse'
    BY DEF StaleInv, Going, StaleWithExcuse, Lacks, Settled
<1>2. Filling'
    BY DEF StaleInv, Going, Filling, Settled
<1> QED  BY <1>1, <1>2

LEMMA Overtakes ==
  ASSUME RowsInv, NEW us, Overtaken(us)
  PROVE  /\ \A f \in Fillers :
              /\ fill'[f].busy = fill[f].busy /\ fill'[f].user = fill[f].user
              /\ fill'[f].contacts = fill[f].contacts /\ (fill[f].old => fill'[f].old)
              /\ fill'[f].busy /\ fill'[f].user \in us => fill'[f].old
<1>1. ASSUME NEW f \in Fillers
      PROVE  \/ fill'[f] = fill[f] /\ ~(fill[f].busy /\ fill[f].user \in us)
             \/ fill'[f] = [fill[f] EXCEPT !.old = TRUE]
    BY DEF Overtaken
<1> DEFINE Old(g) == [g EXCEPT !.old = TRUE]
<1>2. \A g \in FillRecord :
        Old(g).busy = g.busy /\ Old(g).user = g.user /\ Old(g).contacts = g.contacts /\ Old(g).old
    BY DEF FillRecord
<1>3. ASSUME NEW f \in Fillers
      PROVE  /\ fill'[f].busy = fill[f].busy /\ fill'[f].user = fill[f].user
             /\ fill'[f].contacts = fill[f].contacts /\ (fill[f].old => fill'[f].old)
             /\ fill'[f].busy /\ fill'[f].user \in us => fill'[f].old
    <2>1. fill[f] \in FillRecord
        BY DEF RowsInv, TypeOK
    <2>2. CASE fill'[f] = fill[f] /\ ~(fill[f].busy /\ fill[f].user \in us)
        BY <2>2
    <2>3. CASE fill'[f] = Old(fill[f])
        <3>1. /\ fill'[f].busy = fill[f].busy /\ fill'[f].user = fill[f].user
              /\ fill'[f].contacts = fill[f].contacts /\ fill'[f].old
            BY <1>2, <2>1, <2>3, Zenon
        <3> QED  BY <3>1
    <2> QED  BY <1>1, <2>2, <2>3
<1> QED  BY <1>3

(* Nobody gets a partner from chats that were committed already.            *)
LEMMA NoNewPartners ==
  ASSUME \A c \in Chats :
           c \in Committed' =>
             /\ c \in Committed
             /\ chat'[c].user1 \in {chat[c].user1, Null} /\ chat'[c].user2 \in {chat[c].user2, Null}
  PROVE  \A u, v \in Users : v \in Partners(u)' => v \in Partners(u)
BY Records DEF Partners, Of, Columns

LEMMA CommitPartners ==
  ASSUME RowsInv, NEW r \in Requests, req[r].step = "commit",
         chat' = [chat EXCEPT ![req[r].chat].row = "committed"]
  PROVE  \A u, v \in Users :
           v \in Partners(u)' => v \in Partners(u) \/ {u, v} = {req[r].user, req[r].target}
<1> DEFINE c == req[r].chat
<1>1. /\ \A d \in Chats : chat'[d].user1 = chat[d].user1 /\ chat'[d].user2 = chat[d].user2
      /\ \A d \in Chats \ {c} : chat'[d] = chat[d]
    BY DEF RowsInv, TypeOK, ChatRecord
<1>2. Columns(c) = Ordered(req[r].user, req[r].target)
    BY DEF RowsInv, Serving
<1> HIDE DEF c
<1> SUFFICES ASSUME NEW u \in Users, NEW v \in Users, NEW d \in Chats,
                    <<chat'[d].user1, chat'[d].user2>> \in {<<u, v>>, <<v, u>>}, d \in Committed',
                    v \notin Partners(u)
             PROVE  {u, v} = {req[r].user, req[r].target}
    BY DEF Partners, Of, Columns
<1>3. d = c
    BY <1>1 DEF Partners, Of, Columns, Committed
<1>4. Columns(c) \in {<<u, v>>, <<v, u>>}
    BY <1>1, <1>3 DEF Columns
<1> QED  BY <1>2, <1>4 DEF Ordered

(* What the requests are about to forget changes with the step of one.      *)
LEMMA ComingMoves ==
  ASSUME NEW r \in Requests, \A s \in Requests \ {r} : req'[s] = req[s],
         NEW u, NEW v, Coming(u, v), ~Coming(u, v)'
  PROVE  /\ u \in ToForget(r) /\ {u, v} = {req[r].user, req[r].target}
         /\ req'[r].user = req[r].user /\ req'[r].target = req[r].target => u \notin ToForget(r)'
BY DEF Coming, ToForget

LEMMA StaleCreate ==
  ASSUME StaleInv, NEW r \in Requests, UNCHANGED cleanup,
         \/ CreateFind(r) \/ RetryFind(r) \/ CreateRefused(r) \/ CreateCommit(r) \/ Fail(r)
         \/ ForgetFirst(r) \/ ForgetSecond(r) \/ CommitUnanswered(r)
         \/ \E u, v \in Users : CreateCheck(r, u, v)
         \/ \E c \in Chats : CreateInsert(r, c)
  PROVE  Filling' /\ StaleWithExcuse'
<1>1. /\ RowsInv /\ TypeOK /\ Serving
      /\ req[r].step # "idle" =>
           req[r].user \in Users /\ req[r].target \in Users /\ req[r].user # req[r].target
    BY DEF StaleInv, RowsInv, Serving
<1>2. UNCHANGED <<cache, fill, excuse>> => Going
    BY DEF Going
<1>3. \A s \in Requests \ {r} : req'[s] = req[s]
    BY <1>1 DEF TypeOK, CreateFind, RetryFind, AnswerFound, CreateRefused, CreateCommit, Fail, ForgetFirst,
       ForgetSecond, CommitUnanswered, CreateCheck, CreateInsert, Go
<1>4. CASE \/ CreateFind(r) \/ RetryFind(r) \/ CreateRefused(r)
           \/ \E u, v \in Users : CreateCheck(r, u, v)
           \/ \E c \in Chats : CreateInsert(r, c)
    <2>1. ToForget(r) = {} /\ UNCHANGED <<cache, fill, excuse>>
        BY <1>4 DEF CreateFind, RetryFind, AnswerFound, CreateRefused, CreateCheck, CreateInsert,
           ToForget, caching
    <2>2. \A u, v \in Users : v \in Partners(u)' => v \in Partners(u)
        <3>1. CASE UNCHANGED chat
            BY <3>1 DEF Partners, Of, Columns, Committed
        <3>2. ASSUME NEW c \in Chats, CreateInsert(r, c)
              PROVE  \A d \in Chats : d \in Committed' => chat'[d] = chat[d] /\ d \in Committed
            BY <3>2, <1>1 DEF CreateInsert, TypeOK, Committed
        <3>3. UNCHANGED chat \/ \E c \in Chats : CreateInsert(r, c)
            BY <1>4 DEF CreateFind, RetryFind, AnswerFound, CreateRefused, CreateCheck, rows
        <3> QED  BY <3>1, <3>2, <3>3, NoNewPartners
    <2>3. \A u, v \in Users : Coming(u, v) => Coming(u, v)'
        BY <1>3, <2>1, ComingMoves
    <2> QED  BY <1>2, <2>1, <2>2, <2>3, Excuses
<1>5. CASE CreateCommit(r)
    <2>1. ToForget(r) = {} /\ UNCHANGED <<cache, fill, excuse>>
        BY <1>5 DEF CreateCommit, ToForget, caching
    <2>2. \A u, v \in Users : Coming(u, v) => Coming(u, v)'
        BY <1>3, <2>1, ComingMoves
    <2>3. ASSUME NEW u \in Users, NEW v \in Users, {u, v} = {req[r].user, req[r].target}
          PROVE  Coming(u, v)'
        <3>1. /\ req'[r].step = "forget both" /\ req'[r].user = req[r].user
              /\ req'[r].target = req[r].target
            BY <1>1, <1>5 DEF CreateCommit, TypeOK, RequestRecord
        <3> QED  BY <2>3, <3>1 DEF Coming, ToForget
    <2>4. \A u, v \in Users :
            v \in Partners(u)' => v \in Partners(u) \/ {u, v} = {req[r].user, req[r].target}
        BY <1>1, <1>5, CommitPartners DEF CreateCommit
    <2> QED  BY <1>2, <2>1, <2>2, <2>3, <2>4, Excuses
<1>6. ASSUME NEW us \in SUBSET Users, Overtaken(us), excuse' = excuse \cup us, UNCHANGED cache
      PROVE  Going /\ \A u \in us : Settled(u)
    BY <1>1, <1>6, Overtakes DEF Going, Settled
<1>7. CASE Fail(r)
    <2>1. ToForget(r) \subseteq Users
        BY <1>1, <1>7 DEF ToForget, Fail
    <2>2. \A u, v \in Users : v \in Partners(u)' => v \in Partners(u)
        <3>1. \A d \in Chats : d \in Committed' => chat'[d] = chat[d] /\ d \in Committed
            BY <1>7 DEF Fail, Committed, NoChat
        <3> QED  BY <3>1, NoNewPartners
    <2>3. \A u, v \in Users : Coming(u, v) => Coming(u, v)' \/ u \in ToForget(r)
        BY <1>3, ComingMoves
    <2>4. Going /\ \A u \in ToForget(r) : Settled(u)
        BY <1>6, <1>7, <2>1 DEF Fail
    <2> QED  BY <2>2, <2>3, <2>4, Excuses
<1>8. CASE CommitUnanswered(r)
    <2> DEFINE both == {req[r].user, req[r].target}
    <2>1. both \subseteq Users /\ ToForget(r) = {}
        BY <1>1, <1>8 DEF CommitUnanswered, ToForget
    <2>2. Going /\ \A u \in both : Settled(u)
        BY <1>6, <1>8, <2>1 DEF CommitUnanswered
    <2>3. \A u, v \in Users : Coming(u, v) => Coming(u, v)'
        BY <1>3, <2>1, ComingMoves
    <2>4. \A u, v \in Users : v \in Partners(u)' => v \in Partners(u) \/ u \in both
        <3>1. \A u, v \in Users :
                v \in Partners(u)' => v \in Partners(u) \/ {u, v} = both
            BY <1>1, <1>8, CommitPartners DEF CommitUnanswered
        <3>2. \A u, v : {u, v} = both => u \in both
            OBVIOUS
        <3> QED  BY <3>1, <3>2
    <2> QED  BY <2>2, <2>3, <2>4, Excuses
<1>9. ASSUME NEW x \in Users, Forget(x) PROVE Going /\ Settled(x)
    BY <1>1, <1>9, Overtakes DEF Forget, Going, Settled, TypeOK
<1>10. UNCHANGED chat => \A u, v \in Users : v \in Partners(u)' => v \in Partners(u)
    BY DEF Partners, Of, Columns, Committed
<1>11. CASE ForgetFirst(r)
    <2>1. Going /\ Settled(req[r].user)
        BY <1>1, <1>9, <1>11 DEF ForgetFirst
    <2>2. \A u, v \in Users : Coming(u, v) => Coming(u, v)' \/ u = req[r].user
        <3>1. /\ req'[r].user = req[r].user /\ req'[r].target = req[r].target
              /\ req'[r].step = "forget second"
            BY <1>1, <1>11 DEF ForgetFirst, Go, TypeOK, RequestRecord
        <3>2. ToForget(r) = {req[r].user, req[r].target} /\ ToForget(r)' = {req[r].target}
            BY <1>11, <3>1 DEF ForgetFirst, ToForget
        <3> QED  BY <1>3, <3>1, <3>2, ComingMoves
    <2> QED  BY <1>10, <1>11, <2>1, <2>2, Excuses DEF ForgetFirst, rows
<1>12. CASE ForgetSecond(r)
    <2>1. Going /\ Settled(req[r].target)
        BY <1>1, <1>9, <1>12 DEF ForgetSecond
    <2>2. \A u, v \in Users : Coming(u, v) => Coming(u, v)' \/ u = req[r].target
        <3>1. ToForget(r) = {req[r].target}
            BY <1>12 DEF ForgetSecond, ToForget
        <3> QED  BY <1>3, <3>1, ComingMoves
    <2> QED  BY <1>10, <1>12, <2>1, <2>2, Excuses DEF ForgetSecond, rows
<1> QED  BY <1>4, <1>5, <1>7, <1>8, <1>11, <1>12

LEMMA StaleStep == StaleInv /\ [Next]_vars => StaleInv'
<1> SUFFICES ASSUME StaleInv, [Next]_vars PROVE StaleInv'
    OBVIOUS
<1>1. RowsInv' /\ RowsInv
    BY RowsStep DEF StaleInv
<1>2. ASSUME UNCHANGED req PROVE \A u, v \in Users : Coming(u, v)' <=> Coming(u, v)
    BY <1>2 DEF Coming, ToForget
<1>3. UNCHANGED <<cache, fill, excuse>> => Going
    BY DEF Going
<1>4. UNCHANGED chat => \A u, v \in Users : v \in Partners(u)' <=> v \in Partners(u)
    BY DEF Partners, Of, Columns, Committed
<1>5. CASE Create /\ UNCHANGED cleanup
    BY <1>1, <1>5, StaleCreate DEF Create, StaleInv
<1>6. CASE Remove /\ UNCHANGED <<req, caching, made, answers, excuse>>
    <2>1. \A u, v \in Users : v \in Partners(u)' => v \in Partners(u)
        <3>1. ASSUME NEW x \in Users, Purge(x)
              PROVE  \A c \in Chats : c \in Committed' =>
                       /\ c \in Committed
                       /\ chat'[c].user1 \in {chat[c].user1, Null}
                       /\ chat'[c].user2 \in {chat[c].user2, Null}
            BY <1>1, <3>1, PurgeRows DEF Cleared, Committed
        <3>2. ASSUME NEW d \in Chats, CleanupDelete(d)
              PROVE  \A c \in Chats : c \in Committed' => c \in Committed /\ chat'[c] = chat[c]
            BY <1>1, <3>2 DEF CleanupDelete, Committed, NoChat, RowsInv, TypeOK
        <3>3. CASE UNCHANGED chat
            BY <3>3, <1>4
        <3>4. \/ UNCHANGED chat
              \/ \E x \in Users : Purge(x)
              \/ \E d \in Chats : CleanupDelete(d)
            BY <1>6 DEF Remove, DeleteAccount, CleanupQuery, CleanupFail, rows
        <3> QED  BY <3>1, <3>2, <3>3, <3>4, NoNewPartners
    <2>2. UNCHANGED <<req, cache, fill, excuse>>
        BY <1>6 DEF caching
    <2> QED  BY <1>1, <1>2, <1>3, <2>1, <2>2, Excuses DEF StaleInv
<1>7. CASE Cache /\ UNCHANGED <<rows, req, cleanup, made, answers>>
    <2>1. /\ \A u, v \in Users : Coming(u, v)' <=> Coming(u, v)
          /\ \A u, v \in Users : v \in Partners(u)' <=> v \in Partners(u)
        BY <1>2, <1>4, <1>7 DEF rows
    <2>2. ASSUME NEW f \in Fillers, FillSet(f) PROVE Filling' /\ StaleWithExcuse'
        <3>1. \A g \in Fillers : fill'[g] = fill[g] \/ ~fill'[g].busy
            BY <1>1, <2>2 DEF FillSet, Resting, RowsInv, TypeOK
        <3>2. Filling'
            BY <2>1, <3>1 DEF StaleInv, Filling
        <3>3. fill[f].user \in Users /\ fill[f].busy
            BY <1>1, <2>2 DEF FillSet, RowsInv, Busy
        <3>4. ASSUME NEW u \in Users, NEW v \in Users, Lacks(u, v)'
              PROVE  u \in excuse' \/ Coming(u, v)
            <4>1. v \in Partners(u) \ cache'[u]
                BY <2>1, <3>4 DEF Lacks
            <4>2. CASE u = fill[f].user /\ cache' = [cache EXCEPT ![u] = fill[f].contacts]
                <5>1. cache'[u] = fill[f].contacts
                    BY <1>1, <4>2 DEF RowsInv, TypeOK
                <5>2. fill[f].old \/ Coming(u, v)
                    BY <3>3, <4>1, <4>2, <5>1 DEF StaleInv, Filling
                <5>3. \/ excuse' = IF fill[f].old THEN excuse \cup {u} ELSE excuse \ {u}
                      \/ UNCHANGED <<cache, excuse>>
                    BY <2>2, <4>2 DEF FillSet
                <5>4. CASE UNCHANGED <<cache, excuse>>
                    BY <3>4, <5>4, <2>1, <4>1 DEF StaleInv, StaleWithExcuse, Lacks
                <5> QED  BY <5>2, <5>3, <5>4
            <4>3. CASE UNCHANGED <<cache, excuse>>
                BY <3>4, <4>1, <4>3 DEF StaleInv, StaleWithExcuse, Lacks
            <4>4. CASE u # fill[f].user /\ ~UNCHANGED <<cache, excuse>>
                <5>1. cache'[u] = cache[u] /\ (u \in excuse => u \in excuse')
                    BY <1>1, <2>2, <4>4 DEF FillSet, RowsInv, TypeOK
                <5> QED  BY <3>4, <4>1, <5>1 DEF StaleInv, StaleWithExcuse, Lacks
            <4> QED  BY <2>2, <4>2, <4>3, <4>4 DEF FillSet
        <3> QED  BY <2>1, <3>2, <3>4 DEF StaleWithExcuse
    <2>3. ASSUME NEW f \in Fillers, NEW x \in Users, FillRead(f, x)
          PROVE  Filling' /\ StaleWithExcuse'
        <3>1. /\ \A g \in Fillers \ {f} : fill'[g] = fill[g]
              /\ fill'[f].user = x /\ fill'[f].contacts = Partners(x)
              /\ UNCHANGED <<cache, excuse>>
            BY <1>1, <2>3 DEF FillRead, RowsInv, TypeOK
        <3>2. ASSUME NEW g \in Fillers, NEW u \in Users, NEW v \in Users,
                     fill'[g].busy, fill'[g].user = u, v \in Partners(u) \ fill'[g].contacts
              PROVE  fill'[g].old \/ Coming(u, v)
            <4>1. g # f
                BY <3>1, <3>2
            <4> QED  BY <3>1, <3>2, <4>1 DEF StaleInv, Filling
        <3> QED  BY <2>1, <3>1, <3>2 DEF StaleInv, Filling, StaleWithExcuse, Lacks
    <2>4. ASSUME NEW x \in Users, CacheExpires(x) PROVE Going
        BY <1>1, <2>4 DEF CacheExpires, Going, RowsInv, TypeOK
    <2>5. (\E x \in Users : CacheExpires(x)) => Filling' /\ StaleWithExcuse'
        BY <2>1, <2>4, Excuses
    <2> QED  BY <1>1, <1>7, <2>2, <2>3, <2>5 DEF Cache, StaleInv
<1>8. CASE UNCHANGED vars
    BY <1>1, <1>2, <1>3, <1>4, <1>8, Excuses DEF vars, rows, caching, StaleInv
<1> QED  BY <1>5, <1>6, <1>7, <1>8 DEF Next

(* Nobody's contacts lack a partner without an excuse, whatever the number  *)
(* of requests and of goroutines that fill the cache.                       *)
THEOREM StaleOnlyWithExcuse == Spec => []StaleWithExcuse
<1>1. Init => StaleInv
    BY RowsInit DEF Init, StaleInv, Filling, StaleWithExcuse, Lacks, Resting
<1>2. StaleInv => StaleWithExcuse
    BY DEF StaleInv
<1> QED  BY <1>1, <1>2, StaleStep, PTL DEF Spec
=============================================================================
