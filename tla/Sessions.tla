------------------------------ MODULE Sessions ------------------------------
(***************************************************************************)
(* Revoking the sessions of one user: the users row in PostgreSQL and the  *)
(* marker revoked_user:<id> in Redis, which no transaction covers both of. *)
(*                                                                         *)
(* ChangePassword, ChangeEmail, ResetPassword, BanUser and DeleteAccount   *)
(* update the row, which locks it, then replace the marker, then commit,   *)
(* and put the old marker back when the commit fails.  Meanwhile requests  *)
(* read both.  A token is named by the millisecond it was issued at.       *)
(***************************************************************************)
EXTENDS Naturals, FiniteSets

CONSTANTS
  Revokers,  \* requests that revoke sessions, how many at once
  Visitors,  \* requests that log in or present a token, how many at once
  NoOne,
  Second,    \* milliseconds in one: tokens end, and TTL answers, in whole seconds
  JWTExp,    \* lifetime of a token and of a marker, whole seconds
  MaxTime,   \* bound: the clock stops there
  BanEnds,   \* bound: the times that bans may end at; MaxTime + 1 for never
  MaxTokens, \* bound: a user with this many tokens logs in no more
  MaxBegun   \* bound: revocations begun

ASSUME SessionsAssumption ==
  /\ NoOne \notin Revokers
  /\ Second \in Nat \ {0}
  /\ JWTExp \in Nat \ {0}
  /\ MaxTime \in Nat /\ Second <= MaxTime
  /\ BanEnds \subseteq 1..(MaxTime + 1)
  /\ MaxBegun \in Nat

VARIABLES
  now,       \* the clock, in milliseconds
  ban,       \* users row: Free, or the time is_banned holds until
  deleted,   \* users row: deleted_at is set
  lock,      \* the transaction that holds the users row's lock
  marker,    \* the Redis key, or NoMarker
  tokens,    \* tokens issued, each named by its time of issue
  revoker,   \* what each revoking request is doing
  visitor,   \* what each other request is doing
  promised,  \* history: latest time up to which a revocation that was
             \* answered with success has revoked the tokens
  left,      \* history: time of the last failed revocation that could not take
             \* its marker back; 0 once another succeeds
  cut,       \* history: what rounding may have taken of the marker's life since
             \* a revocation succeeded
  begun,     \* revocations begun
  overlap    \* history: "some" when a revocation begins while another is still
             \* being rolled back; "past" from the next that begins alone;
             \* "none" once one of these succeeds, or when there never was any

row == <<ban, deleted>>
history == <<promised, left, cut, begun, overlap>>
vars == <<now, row, lock, marker, tokens, revoker, visitor, history>>

Free == 0
Endless == 0             \* of a marker: the key has no expiry
NoMarker == [by |-> NoOne, at |-> 0, expires |-> Endless]
Working == [step |-> "idle", at |-> 0, old |-> NoMarker]
Visiting == [step |-> "idle", due |-> FALSE]

Init ==
  /\ now = Second
  /\ ban = Free
  /\ deleted = FALSE
  /\ lock = NoOne
  /\ marker = NoMarker
  /\ tokens = {now}   \* the user is logged in
  /\ revoker = [r \in Revokers |-> Working]
  /\ visitor = [v \in Visitors |-> Visiting]
  /\ promised = 0
  /\ left = 0
  /\ cut = 0
  /\ begun = 0
  /\ overlap = "none"

Tick ==
  /\ now < MaxTime
  /\ now' = now + 1
  /\ UNCHANGED <<row, lock, marker, tokens, revoker, visitor, history>>

(* What GET finds: nothing once the key has expired.                        *)
Stored == IF marker.expires = Endless \/ now < marker.expires THEN marker ELSE NoMarker

(* What TTL answers, which SET takes for Endless if it is 0: also when the  *)
(* key has no expiry, or has expired after GET found it.                    *)
Half == Second \div 2
Round(life) == (life + Half) - ((life + Half) % Second)
Left == IF Stored.expires = Endless THEN Endless ELSE Round(Stored.expires - now)

(* A token's exp is in whole seconds.                                       *)
TokenEnds(t) == t - (t % Second) + JWTExp

(* History: it starts afresh where overlap is no longer "none".             *)
Note(p, l, c) ==
  LET Counted(n) == IF overlap' = "none" THEN n ELSE 0
  IN  promised' = Counted(p) /\ left' = Counted(l) /\ cut' = Counted(c)

Advance(r, s) == revoker' = [revoker EXCEPT ![r] = s]

-----------------------------------------------------------------------------
(* The transaction's UPDATE of the row, by id: what was checked before the  *)
(* transaction opened may have changed since.                               *)
Update(r) ==
  /\ revoker[r].step = "idle" /\ lock = NoOne /\ begun < MaxBegun
  /\ Advance(r, [Working EXCEPT !.step = "locked"])
  /\ lock' = r
  /\ begun' = begun + 1
  /\ overlap' = IF \E s \in Revokers : revoker[s].step # "idle" THEN "some"
                ELSE IF overlap = "some" THEN "past" ELSE overlap
  /\ Note(promised, left, cut)
  /\ UNCHANGED <<now, row, marker, tokens, visitor>>

(* SnapshotUserRevoke, then time.Now: GET, and if it finds a marker TTL.    *)
SnapshotGet(r) ==
  /\ revoker[r].step = "locked"
  /\ Advance(r, IF Stored = NoMarker
                THEN [revoker[r] EXCEPT !.step = "snapshot", !.at = now, !.old = NoMarker]
                ELSE [revoker[r] EXCEPT !.step = "got", !.old = Stored])
  /\ UNCHANGED <<now, row, lock, marker, tokens, visitor, history>>

SnapshotTTL(r) ==
  /\ revoker[r].step = "got"
  /\ Advance(r, [revoker[r] EXCEPT !.step = "snapshot", !.at = now, !.old.expires = Left])
  /\ UNCHANGED <<now, row, lock, marker, tokens, visitor, history>>

(* RevokeAllSessionsAt.                                                     *)
Set(r) ==
  /\ revoker[r].step = "snapshot"
  /\ marker' = [by |-> r, at |-> revoker[r].at, expires |-> now + JWTExp]

SetMarker(r) ==
  /\ Set(r)
  /\ Advance(r, [revoker[r] EXCEPT !.step = "marked"])
  /\ UNCHANGED <<now, row, lock, tokens, visitor, history>>

(* The request is over, and its marker stays in force.                      *)
LeavesMarker(r) ==
  /\ Advance(r, Working)
  /\ UNCHANGED <<now, tokens, visitor, begun, overlap>>
  /\ Note(promised, revoker[r].at, cut)

(* Redis has executed SET, but the answer was lost: no rollback of the key. *)
SetUnanswered(r) ==
  /\ Set(r)
  /\ lock' = NoOne
  /\ LeavesMarker(r)
  /\ UNCHANGED row

(* A Redis error: the deferred Rollback releases the row.                   *)
AbortKeepingLock(r) ==
  /\ revoker[r].step \in {"locked", "got", "snapshot"}
  /\ Advance(r, Working)
  /\ UNCHANGED <<now, row, lock, marker, tokens, visitor, history>>

Abort(r) ==
  /\ revoker[r].step \in {"locked", "got", "snapshot"}
  /\ lock' = NoOne
  /\ Advance(r, Working)
  /\ UNCHANGED <<now, row, marker, tokens, visitor, history>>

(* The row as the transaction has changed it.  Of the change only a ban and *)
(* a deletion matter to others, and to nobody before the commit.  A ban may *)
(* have ended by then.                                                      *)
Apply ==
  \/ UNCHANGED row
  \/ ban' \in BanEnds /\ UNCHANGED deleted
  \/ deleted' = TRUE /\ UNCHANGED ban

Commit(r) ==
  /\ revoker[r].step = "marked"
  /\ Apply
  /\ lock' = NoOne
  /\ overlap' = IF overlap = "past" THEN "none" ELSE overlap
  /\ Note(IF revoker[r].at > promised THEN revoker[r].at ELSE promised, 0, 0)
  /\ Advance(r, Working)
  /\ UNCHANGED <<now, marker, tokens, visitor, begun>>

(* COMMIT answers with an error: it failed, or only its answer was lost.    *)
CommitFails(r) ==
  /\ revoker[r].step = "marked"
  /\ Apply
  /\ lock' = NoOne
  /\ Advance(r, [revoker[r] EXCEPT !.step = "rollback"])
  /\ UNCHANGED <<now, marker, tokens, visitor, history>>

(* The process dies: PostgreSQL has got the COMMIT, or not and rolls back.  *)
Die(r) ==
  /\ revoker[r].step = "marked"
  /\ Apply
  /\ lock' = NoOne
  /\ LeavesMarker(r)
  /\ UNCHANGED marker

(* RollbackUserRevoke, its GET: the marker must still be this request's.    *)
RollbackCheck(r) ==
  /\ revoker[r].step = "rollback"
  /\ Advance(r, IF Stored.by = r /\ Stored.at = revoker[r].at
                THEN [revoker[r] EXCEPT !.step = "restore"] ELSE Working)
  /\ UNCHANGED <<now, row, lock, marker, tokens, visitor, history>>

(* Its GET, or the SET or DEL after it, fails, which is only logged.        *)
RollbackFails(r) ==
  /\ revoker[r].step \in {"rollback", "restore"}
  /\ LeavesMarker(r)
  /\ UNCHANGED <<row, lock, marker>>

RestoreNothing(r) ==
  /\ revoker[r].step = "restore"
  /\ Advance(r, Working)
  /\ UNCHANGED <<now, row, lock, marker, tokens, visitor, history>>

(* Its SET, with the time to live that TTL gave, or its DEL.                *)
Restore(r) ==
  LET old == revoker[r].old IN
  /\ revoker[r].step = "restore"
  /\ Advance(r, Working)
  /\ UNCHANGED <<now, row, lock, tokens, visitor, begun, overlap>>
  /\ \/ old.expires = Endless /\ marker' = old /\ Note(promised, left, cut)
     \/ /\ old.expires # Endless
        /\ marker' = [old EXCEPT !.expires = now + @]
        /\ Note(promised, left, cut + Half)

-----------------------------------------------------------------------------
(* UnbanUser.                                                               *)
Unban ==
  /\ ban # Free /\ lock = NoOne
  /\ ban' = Free
  /\ UNCHANGED <<now, deleted, lock, marker, tokens, revoker, visitor, history>>

(* History: a request that begins now with token t is due to be refused.    *)
Due(t) == t <= promised /\ now + cut < TokenEnds(t)

Visit(v, s) ==
  /\ visitor' = [visitor EXCEPT ![v] = s]
  /\ UNCHANGED <<now, deleted, lock, marker, revoker, history>>

Expired == ban # Free /\ now >= ban

(* Login and GoogleExchange: the row is read once, before the (slow) check  *)
(* of the password.                                                         *)
LoginReads(v) ==
  /\ visitor[v].step = "idle" /\ ~deleted /\ Cardinality(tokens) < MaxTokens
  /\ \/ ban = Free /\ Visit(v, [Visiting EXCEPT !.step = "issue"])
     \/ Expired /\ Visit(v, [Visiting EXCEPT !.step = "liftThenIssue"])
  /\ UNCHANGED <<ban, tokens>>

(* An expired ban is lifted by id: whatever ban the row holds by then. The  *)
(* UPDATE waits for the row's lock; a failure of it is only logged.         *)
Lift(v) ==
  /\ visitor[v].step \in {"liftThenIssue", "liftThenServe"}
  /\ LET next == IF visitor[v].step = "liftThenIssue" THEN "issue" ELSE "served" IN
     \/ lock = NoOne /\ ban' = Free /\ Visit(v, [visitor[v] EXCEPT !.step = next])
     \/ UNCHANGED ban /\ Visit(v, [visitor[v] EXCEPT !.step = next])
  /\ UNCHANGED tokens

Issue(v) ==
  /\ visitor[v].step = "issue"
  /\ tokens' = tokens \cup {now}
  /\ Visit(v, Visiting)
  /\ UNCHANGED ban

(* VerifyUser: IsUserRevoked first, on a token that has not expired ...     *)
RevokedStrictly(t) == Stored # NoMarker /\ t < Stored.at
Revoked(t) == Stored # NoMarker /\ t <= Stored.at

VerifyToken(v) ==
  /\ visitor[v].step = "idle"
  /\ \E t \in tokens :
       /\ now < TokenEnds(t)
       /\ ~Revoked(t)
       /\ Visit(v, [step |-> "verify", due |-> Due(t)])
  /\ UNCHANGED <<ban, tokens>>

(* ... and the row second.                                                  *)
VerifyRow(v) ==
  /\ visitor[v].step = "verify"
  /\ \/ ~deleted /\ ban = Free /\ Visit(v, [visitor[v] EXCEPT !.step = "served"])
     \/ ~deleted /\ Expired /\ Visit(v, [visitor[v] EXCEPT !.step = "liftThenServe"])
     \/ (deleted \/ (ban # Free /\ ~Expired)) /\ Visit(v, Visiting)
  /\ UNCHANGED <<ban, tokens>>

Leave(v) ==
  /\ visitor[v].step = "served"
  /\ Visit(v, Visiting)
  /\ UNCHANGED <<ban, tokens>>

-----------------------------------------------------------------------------
RevokerStep(r) ==
  \/ Update(r) \/ SnapshotGet(r) \/ SnapshotTTL(r) \/ SetMarker(r) \/ SetUnanswered(r)
  \/ Abort(r) \/ Commit(r) \/ CommitFails(r) \/ Die(r)
  \/ RollbackCheck(r) \/ RollbackFails(r) \/ Restore(r)

VisitorStep(v) ==
  \/ LoginReads(v) \/ Lift(v) \/ Issue(v)
  \/ VerifyToken(v) \/ VerifyRow(v) \/ Leave(v)

Next ==
  \/ Tick \/ Unban
  \/ \E r \in Revokers : RevokerStep(r)
  \/ \E v \in Visitors : VisitorStep(v)

Spec == Init /\ [][Next]_vars
-----------------------------------------------------------------------------
Time == 0..(MaxTime + 1)
Marker == [by : Revokers \cup {NoOne}, at : Time, expires : Nat]
Revoking ==
  [step : {"idle", "locked", "got", "snapshot", "marked", "rollback", "restore"},
   at : Time, old : Marker]
Visits ==
  [step : {"idle", "issue", "liftThenIssue", "verify", "liftThenServe", "served"},
   due : BOOLEAN]

(* The type invariant of the component; the row is locked exactly while a   *)
(* transaction that updated it is open.                                     *)
TypeOK ==
  /\ now \in Time
  /\ ban \in Time
  /\ deleted \in BOOLEAN
  /\ lock \in Revokers \cup {NoOne}
  /\ marker \in Marker
  /\ tokens \subseteq Time
  /\ revoker \in [Revokers -> Revoking]
  /\ visitor \in [Visitors -> Visits]
  /\ promised \in Time
  /\ left \in Time
  /\ cut \in Nat
  /\ begun \in 0..MaxBegun
  /\ overlap \in {"none", "some", "past"}
  /\ \A r \in Revokers : lock = r <=> revoker[r].step \in {"locked", "got", "snapshot", "marked"}

(* "Token should be revoked immediately after ban" (test/admin_test.go),    *)
(* "Old token should be revoked" (test/account_test.go): once a revocation  *)
(* has been answered with success, no request that begins later is served   *)
(* with a token issued up to then, though the marker expires, and though    *)
(* later revocations fail and put an older marker back.  Excepted are       *)
(* - the last half second of a token's life for each marker that has been   *)
(*   put back since, with its life rounded to seconds; and                  *)
(* - what follows a revocation that begins while another is being rolled    *)
(*   back, whose GET and SET may come around its SET: until one that begins *)
(*   alone succeeds.                                                        *)
StaysRevoked ==
  \A v \in Visitors :
    visitor[v].step \in {"liftThenServe", "served"} => ~visitor[v].due

(* A password change, ban or deletion that failed logs nobody out: when no  *)
(* revocation is in flight, the marker is one a successful revocation set;  *)
(* unless Redis or the process failed after SET, so that the marker could   *)
(* not be taken back.  It is then that one, and no other failed one's.      *)
(* Excepted again is a revocation that begins during a rollback: it may     *)
(* take the failed one's marker for the one to put back.                    *)
FailureRevokesNothing ==
  overlap = "none" /\ (\A r \in Revokers : revoker[r].step = "idle") =>
    Stored.at <= promised \/ Stored.at = left
=============================================================================
