--------------------------- MODULE SessionsProofs ---------------------------
(***************************************************************************)
(* Revoked tokens stay dead and failures revoke nothing, but for what the  *)
(* two properties except, for any lifetime, any length of a second, any    *)
(* clock, any visitors and any revocations at once.                        *)
(***************************************************************************)
EXTENDS Sessions, TLAPS

LEMMA Records ==
  /\ NoMarker \in Marker /\ Working \in Revoking /\ Visiting \in Visits
  /\ Free \in Time /\ Time \subseteq Nat /\ NoOne \notin Revokers
BY SessionsAssumption
   DEF NoMarker, Endless, Marker, Working, Revoking, Visiting, Visits, Free, Time

(* A life rounded to seconds has lost half a second at most; a token dies   *)
(* no later than its issue and JWTExp.                                      *)
LEMMA Rounding ==
  /\ Half \in Nat
  /\ \A life \in Nat : Round(life) \in Nat /\ Round(life) + Half >= life
  /\ \A t \in Nat : TokenEnds(t) \in Nat /\ TokenEnds(t) <= t + JWTExp
<1>1. Half \in Nat /\ Second <= 2 * Half + 1 /\ Second \in Nat
    BY SessionsAssumption DEF Half
<1>2. \A y \in Nat : y % Second \in Nat /\ y % Second <= y /\ y % Second < Second
    BY SessionsAssumption
<1>3. \A life \in Nat : Round(life) \in Nat /\ Round(life) + Half >= life
    BY <1>1, <1>2 DEF Round
<1>4. \A t \in Nat : TokenEnds(t) \in Nat /\ TokenEnds(t) <= t + JWTExp
    BY <1>2, SessionsAssumption DEF TokenEnds
<1> QED  BY <1>1, <1>3, <1>4

LEMMA StoredTyped ==
  ASSUME TypeOK
  PROVE  /\ Stored \in Marker /\ Left \in Nat
         /\ Stored \in {marker, NoMarker}
         /\ Left = Endless \/ now + Left + Half >= marker.expires
<1>1. /\ Stored \in Marker /\ now \in Nat /\ Stored \in {marker, NoMarker}
      /\ \A m \in Marker : m.expires \in Nat
    BY Records DEF Stored, TypeOK, Marker
<1>2. NoMarker.expires = Endless
    BY DEF NoMarker
<1>3. CASE Stored.expires = Endless
    BY <1>1, <1>3 DEF Left, Endless
<1>4. CASE Stored.expires # Endless
    <2>1. Stored = marker /\ now < marker.expires /\ marker.expires - now \in Nat
        BY <1>1, <1>2, <1>4 DEF Stored
    <2>2. Left = Round(marker.expires - now)
        BY <1>4, <2>1 DEF Left
    <2>3. Left \in Nat /\ Left + Half >= marker.expires - now
        BY <2>1, <2>2, Rounding
    <2> QED  BY <1>1, <2>1, <2>3, Rounding
<1> QED  BY <1>1, <1>3, <1>4

(* Every step of a revoking request puts a typed record in its place.       *)
LEMMA RevokerTyped ==
  ASSUME TypeOK, NEW r \in Revokers, RevokerStep(r)
  PROVE  \E w \in Revoking :
           /\ revoker' = [revoker EXCEPT ![r] = w]
           /\ lock' = r <=> w.step \in {"locked", "got", "snapshot", "marked"}
           /\ \A s \in Revokers \ {r} : lock' = s <=> lock = s
<1>1. /\ revoker[r] \in Revoking /\ now \in Time /\ Working.step = "idle"
      /\ lock = r <=> revoker[r].step \in {"locked", "got", "snapshot", "marked"}
    BY DEF TypeOK, Working
<1> USE Records
<1>2. CASE Update(r)
    <2>1. /\ [Working EXCEPT !.step = "locked"] \in Revoking
          /\ [Working EXCEPT !.step = "locked"].step = "locked"
        BY DEF Working, Revoking
    <2>2. lock' = r /\ lock = NoOne
        BY <1>2 DEF Update
    <2> QED  BY <1>2, <2>1, <2>2 DEF Update, Advance
<1>3. CASE SnapshotGet(r)
    <2> DEFINE w == IF Stored = NoMarker
                    THEN [revoker[r] EXCEPT !.step = "snapshot", !.at = now, !.old = NoMarker]
                    ELSE [revoker[r] EXCEPT !.step = "got", !.old = Stored]
    <2>1. w \in Revoking /\ w.step \in {"got", "snapshot"}
        BY <1>1, StoredTyped DEF Revoking
    <2>2. revoker' = [revoker EXCEPT ![r] = w] /\ UNCHANGED lock /\ revoker[r].step = "locked"
        BY <1>3 DEF SnapshotGet, Advance
    <2> HIDE DEF w
    <2> QED  BY <1>1, <2>1, <2>2
<1>4. CASE SnapshotTTL(r)
    <2> DEFINE w == [revoker[r] EXCEPT !.step = "snapshot", !.at = now, !.old.expires = Left]
    <2>1. [revoker[r].old EXCEPT !.expires = Left] \in Marker
        BY <1>1, StoredTyped DEF Revoking, Marker
    <2>2. w \in Revoking /\ w.step = "snapshot"
        BY <1>1, <2>1 DEF Revoking
    <2>3. revoker' = [revoker EXCEPT ![r] = w] /\ UNCHANGED lock /\ revoker[r].step = "got"
        BY <1>4 DEF SnapshotTTL, Advance
    <2> HIDE DEF w
    <2> QED  BY <1>1, <2>2, <2>3
<1>5. CASE SetMarker(r)
    <2>1. [revoker[r] EXCEPT !.step = "marked"] \in Revoking /\ [revoker[r] EXCEPT !.step = "marked"].step = "marked"
        BY <1>1 DEF Revoking
    <2> QED  BY <1>1, <1>5, <2>1 DEF SetMarker, Set, Advance
<1>6. CASE CommitFails(r)
    <2>1. [revoker[r] EXCEPT !.step = "rollback"] \in Revoking /\ [revoker[r] EXCEPT !.step = "rollback"].step = "rollback"
        BY <1>1 DEF Revoking
    <2> QED  BY <1>1, <1>6, <2>1 DEF CommitFails, Advance
<1>7. CASE Abort(r) \/ SetUnanswered(r) \/ Commit(r) \/ Die(r) \/ RollbackFails(r) \/ Restore(r)
    BY <1>1, <1>7 DEF Abort, SetUnanswered, Set, Commit, Die, RollbackFails, LeavesMarker, Restore, Advance
<1>8. CASE RollbackCheck(r)
    <2>1. [revoker[r] EXCEPT !.step = "restore"] \in Revoking /\ [revoker[r] EXCEPT !.step = "restore"].step = "restore"
        BY <1>1 DEF Revoking
    <2> QED  BY <1>1, <1>8, <2>1 DEF RollbackCheck, Advance
<1> QED  BY <1>2, <1>3, <1>4, <1>5, <1>6, <1>7, <1>8 DEF RevokerStep

(* What the history records is what the step noted, or nothing.             *)
LEMMA Noted ==
  ASSUME NEW p, NEW l, NEW c, Note(p, l, c)
  PROVE  \/ overlap' = "none" /\ promised' = p /\ left' = l /\ cut' = c
         \/ overlap' # "none" /\ promised' = 0 /\ left' = 0 /\ cut' = 0
BY DEF Note

(* The three ways a step of a revocation leaves the history.                *)
LEMMA Noting ==
  ASSUME TypeOK, NEW r \in Revokers, RevokerStep(r)
  PROVE  \/ UNCHANGED <<promised, left, cut>>
         \/ \E p \in {promised, revoker[r].at}, l \in {0, left, revoker[r].at},
               c \in {0, cut, cut + Half} : Note(p, l, c)
<1>1. CASE Commit(r)
    <2> DEFINE p == IF revoker[r].at > promised THEN revoker[r].at ELSE promised
    <2>1. Note(p, 0, 0) /\ p \in {promised, revoker[r].at}
        BY <1>1 DEF Commit
    <2> HIDE DEF p
    <2> QED  BY <2>1
<1>2. CASE Update(r) \/ Restore(r)
    BY <1>2 DEF Update, Restore
<1>3. CASE SetUnanswered(r) \/ Die(r) \/ RollbackFails(r)
    BY <1>3 DEF SetUnanswered, Die, RollbackFails, LeavesMarker
<1>4. CASE SnapshotGet(r) \/ SnapshotTTL(r) \/ SetMarker(r) \/ Abort(r) \/ CommitFails(r) \/ RollbackCheck(r)
    BY <1>4 DEF SnapshotGet, SnapshotTTL, SetMarker, Abort, CommitFails, RollbackCheck, history
<1> QED  BY <1>1, <1>2, <1>3, <1>4 DEF RevokerStep

LEMMA VisitorTyped ==
  ASSUME TypeOK, NEW v \in Visitors, VisitorStep(v)
  PROVE  /\ visitor' \in [Visitors -> Visits] /\ ban' \in Time /\ tokens' \subseteq Time
         /\ UNCHANGED <<now, deleted, lock, marker, revoker, history>>
<1>1. /\ visitor[v] \in Visits /\ now \in Time /\ ban \in Time /\ tokens \subseteq Time
    BY DEF TypeOK
<1> USE Records
<1>2. ASSUME NEW st \in {"issue", "liftThenIssue", "verify", "liftThenServe", "served"}
      PROVE  /\ [visitor[v] EXCEPT !.step = st] \in Visits
             /\ [Visiting EXCEPT !.step = st] \in Visits
    BY <1>1 DEF Visits, Visiting
<1>3. ASSUME NEW w \in Visits, Visit(v, w)
      PROVE  /\ visitor' \in [Visitors -> Visits]
             /\ UNCHANGED <<now, deleted, lock, marker, revoker, history>>
    BY <1>3 DEF Visit, TypeOK
<1>4. CASE LoginReads(v)
    BY <1>1, <1>2, <1>3, <1>4 DEF LoginReads
<1>5. CASE Lift(v)
    BY <1>1, <1>2, <1>3, <1>5 DEF Lift
<1>6. CASE Issue(v)
    BY <1>1, <1>3, <1>6 DEF Issue
<1>7. CASE VerifyToken(v)
    <2>1. \A t : [step |-> "verify", due |-> Due(t)] \in Visits
        BY DEF Visits, Due
    <2> QED  BY <1>1, <1>3, <1>7, <2>1 DEF VerifyToken
<1>8. CASE VerifyRow(v)
    BY <1>1, <1>2, <1>3, <1>8 DEF VerifyRow
<1>9. CASE Leave(v)
    BY <1>1, <1>3, <1>9 DEF Leave
<1> QED  BY <1>4, <1>5, <1>6, <1>7, <1>8, <1>9 DEF VisitorStep

LEMMA TypeStep == TypeOK /\ [Next]_vars => TypeOK'
<1> SUFFICES ASSUME TypeOK, [Next]_vars PROVE TypeOK'
    OBVIOUS
<1> USE Records
<1>1. CASE Tick
    BY <1>1, SessionsAssumption DEF Tick, TypeOK, row, history, Time
<1>2. CASE Unban
    BY <1>2 DEF Unban, TypeOK, history
<1>3. ASSUME NEW r \in Revokers, RevokerStep(r) PROVE TypeOK'
    <2>1. PICK w \in Revoking :
            /\ revoker' = [revoker EXCEPT ![r] = w]
            /\ lock' = r <=> w.step \in {"locked", "got", "snapshot", "marked"}
            /\ \A s \in Revokers \ {r} : lock' = s <=> lock = s
        BY <1>3, RevokerTyped
    <2>2. /\ revoker[r] \in Revoking /\ now \in Time /\ revoker[r].at \in Time
          /\ revoker[r].old \in Marker
        BY DEF TypeOK, Revoking
    <2>3. ban' \in Time /\ deleted' \in BOOLEAN
        <3>1. BanEnds \subseteq Time
            BY SessionsAssumption DEF Time
        <3>2. Apply => ban' \in Time /\ deleted' \in BOOLEAN
            BY <3>1 DEF Apply, row, TypeOK
        <3> QED  BY <1>3, <3>2 DEF RevokerStep, Update, SnapshotGet, SnapshotTTL, SetMarker,
                 SetUnanswered, Abort, Commit, CommitFails, Die, RollbackCheck, RollbackFails,
                 Restore, row, TypeOK
    <2>4. UNCHANGED <<now, tokens, visitor>> /\ lock' \in Revokers \cup {NoOne}
        BY <1>3 DEF RevokerStep, Update, SnapshotGet, SnapshotTTL, SetMarker, SetUnanswered,
           LeavesMarker, Abort, Commit, CommitFails, Die, RollbackCheck, RollbackFails, Restore, TypeOK
    <2>5. promised' \in Time /\ left' \in Time /\ cut' \in Nat
        <3>1. CASE UNCHANGED <<promised, left, cut>>
            BY <3>1 DEF TypeOK
        <3>2. ASSUME NEW p \in {promised, revoker[r].at}, NEW l \in {0, left, revoker[r].at},
                     NEW c \in {0, cut, cut + Half}, Note(p, l, c)
              PROVE  promised' \in Time /\ left' \in Time /\ cut' \in Nat
            BY <2>2, <3>2, Noted, Rounding DEF TypeOK, Free
        <3> QED  BY <1>3, <3>1, <3>2, Noting
    <2>6. begun' \in 0..MaxBegun
        BY <1>3, SessionsAssumption DEF RevokerStep, Update, SnapshotGet, SnapshotTTL, SetMarker,
           SetUnanswered, LeavesMarker, Abort, Commit, CommitFails, Die, RollbackCheck,
           RollbackFails, Restore, history, TypeOK
    <2>7. overlap' \in {"none", "some", "past"}
        BY <1>3 DEF RevokerStep, Update, SnapshotGet, SnapshotTTL, SetMarker, SetUnanswered,
           LeavesMarker, Abort, Commit, CommitFails, Die, RollbackCheck, RollbackFails, Restore,
           history, TypeOK
    <2>8. marker' \in Marker
        <3>1. Set(r) => marker' \in Marker
            BY <2>2, SessionsAssumption DEF Set, Marker
        <3>2. ASSUME NEW m \in Marker PROVE [m EXCEPT !.expires = now + @] \in Marker
            BY <2>2, <3>2 DEF Marker
        <3>3. Restore(r) => marker' \in Marker
            BY <2>2, <3>2 DEF Restore
        <3> QED  BY <1>3, <3>1, <3>3 DEF RevokerStep, Update, SnapshotGet, SnapshotTTL, SetMarker,
                 SetUnanswered, Abort, Commit, CommitFails, Die, RollbackCheck, RollbackFails, TypeOK
    <2>9. \A s \in Revokers : lock' = s <=> revoker'[s].step \in {"locked", "got", "snapshot", "marked"}
        BY <2>1 DEF TypeOK
    <2> QED  BY <2>1, <2>3, <2>4, <2>5, <2>6, <2>7, <2>8, <2>9 DEF TypeOK
<1>4. ASSUME NEW v \in Visitors, VisitorStep(v) PROVE TypeOK'
    BY <1>4, VisitorTyped DEF TypeOK, history
<1>5. CASE UNCHANGED vars
    BY <1>5 DEF vars, row, history, TypeOK
<1> QED  BY <1>1, <1>2, <1>3, <1>4, <1>5 DEF Next

LEMMA TypeInit == Init => TypeOK
<1> SUFFICES ASSUME Init PROVE TypeOK
    OBVIOUS
<1>1. Second \in Time /\ 0 \in Time /\ 0 \in 0..MaxBegun
    BY SessionsAssumption DEF Time
<1> QED  BY <1>1, Records DEF Init, TypeOK, Working

(* The type invariant; the row is locked exactly while a transaction that   *)
(* updated it is open, for any number of requests.                          *)
THEOREM TypeCorrect == Spec => []TypeOK
BY TypeInit, TypeStep, PTL DEF Spec

-----------------------------------------------------------------------------
(* Once a revocation has begun while another was being rolled back, the     *)
(* marker may be anything.  The rest holds again as revocations begin alone *)
(* and succeed.                                                             *)
InFlight(r) == revoker[r].step \in {"snapshot", "marked", "rollback", "restore"}
Placed(r) == revoker[r].step \in {"marked", "rollback", "restore"}
Calm == overlap = "none"

(* Tokens issued up to the last success are still to be refused.            *)
Alive == promised > 0 /\ now + cut < promised + JWTExp

Clock ==
  /\ promised <= now /\ now > 0 /\ 0 \notin tokens
  /\ ~Calm => promised = 0
  /\ \A r \in Revokers : InFlight(r) => revoker[r].at <= now

(* Nobody else's revocation is in flight; the marker is what it found, then *)
(* its own, which lives as long as the tokens it covers.                    *)
Alone ==
  overlap # "some" =>
    \A r \in Revokers : revoker[r].step # "idle" =>
      /\ \A s \in Revokers : revoker[s].step # "idle" => r = s
      /\ InFlight(r) => promised <= revoker[r].at
      /\ revoker[r].step = "got" => revoker[r].old = marker
      /\ Placed(r) => /\ marker.by = r /\ marker.at = revoker[r].at
                      /\ marker.expires >= marker.at + JWTExp

(* A marker lives as long as the tokens it covers, less what has been cut.  *)
Lives(m) == m.expires = Endless \/ m.expires + cut >= m.at + JWTExp

(* While promised tokens live the marker covers them ...                    *)
Marked == Calm => Lives(marker) /\ (Alive => marker # NoMarker /\ marker.at >= promised)

(* ... and so does the old marker that a request may put back.              *)
Justified(m) == m.at <= promised \/ m.at = left
Remembers(r) ==
  LET old == revoker[r].old IN
  /\ Justified(old)
  /\ Alive => old.at >= promised
  /\ old.expires = Endless \/ now + old.expires + cut + Half >= old.at + JWTExp

Remembering == Calm => \A r \in Revokers : InFlight(r) => Remembers(r)

(* Where no revocation has its own in place, the marker is a success's or   *)
(* the one left behind last.                                                *)
Unmarked == Calm /\ (\A r \in Revokers : ~Placed(r)) => Justified(Stored)
Awaiting ==
  Calm => \A r \in Revokers : revoker[r].step = "got" => Justified(revoker[r].old)

Verified ==
  \A v \in Visitors : visitor[v].step \in {"verify", "liftThenServe", "served"} => ~visitor[v].due

Covered == Alone /\ Marked /\ Remembering /\ Unmarked /\ Awaiting

IInv == TypeOK /\ Clock /\ Covered /\ Verified

LEMMA InitIInv == Init => IInv
<1> SUFFICES ASSUME Init PROVE IInv
    OBVIOUS
<1>1. TypeOK
    BY TypeInit
<1>2. Marked /\ Verified
    BY DEF Init, Marked, Lives, Alive, Verified, Visiting, NoMarker
<1>3. Clock /\ Alone /\ Remembering /\ Awaiting
    BY SessionsAssumption
       DEF Init, Clock, Calm, Alone, Remembering, Awaiting, InFlight, Placed, Working
<1>4. Unmarked
    BY DEF Init, Unmarked, Justified, Stored, NoMarker
<1> QED  BY <1>1, <1>2, <1>3, <1>4 DEF IInv, Covered

(* What TypeOK says of the numbers.                                         *)
LEMMA Numbers ==
  ASSUME TypeOK
  PROVE  /\ now \in Nat /\ promised \in Nat /\ left \in Nat /\ cut \in Nat
         /\ JWTExp \in Nat /\ JWTExp > 0 /\ Half \in Nat /\ Endless = 0
         /\ marker.at \in Nat /\ marker.expires \in Nat /\ tokens \subseteq Nat
         /\ \A r \in Revokers : /\ revoker[r].at \in Nat /\ revoker[r].old \in Marker
                               /\ revoker[r].old.at \in Nat /\ revoker[r].old.expires \in Nat
         /\ NoMarker.at = 0 /\ NoMarker.by = NoOne /\ NoMarker.expires = 0
<1>1. /\ now \in Nat /\ promised \in Nat /\ left \in Nat /\ cut \in Nat /\ tokens \subseteq Nat
      /\ JWTExp \in Nat /\ JWTExp > 0
      /\ marker \in Marker /\ \A r \in Revokers : revoker[r] \in Revoking
    BY Records, SessionsAssumption DEF TypeOK
<1>2. \A m \in Marker : m.at \in Nat /\ m.expires \in Nat
    BY Records DEF Marker
<1>3. \A w \in Revoking : w.at \in Nat /\ w.old \in Marker
    BY Records DEF Revoking
<1>4. NoMarker.at = 0 /\ NoMarker.by = NoOne /\ NoMarker.expires = 0 /\ Endless = 0
    BY DEF NoMarker, Endless
<1> QED  BY <1>1, <1>2, <1>3, <1>4, Rounding

(* A marker that covers promised tokens that live has not expired.          *)
LEMMA MarkerStands ==
  ASSUME IInv, Alive
  PROVE  Calm /\ Stored = marker /\ marker # NoMarker /\ marker.at >= promised
<1>1. Calm
    BY DEF Alive, IInv, Clock
<1>2. marker # NoMarker /\ marker.at >= promised /\ Lives(marker)
    BY <1>1 DEF IInv, Covered, Marked
<1>3. marker.expires = Endless \/ now < marker.expires
    BY <1>2, Numbers DEF IInv, Lives, Alive
<1> QED  BY <1>1, <1>2, <1>3 DEF Stored

LEMMA TickKeeps == IInv /\ Tick => Clock' /\ Covered' /\ Verified'
<1> SUFFICES ASSUME IInv, Tick PROVE Clock' /\ Covered' /\ Verified'
    OBVIOUS
<1>1. now' = now + 1 /\ UNCHANGED <<marker, tokens, revoker, visitor, promised, left, cut, overlap>>
    BY DEF Tick, history
<1>2. Alive' => Alive
    BY <1>1, Numbers DEF Alive, IInv
<1>3. Stored' \in {Stored, NoMarker}
    BY <1>1, Numbers DEF Stored, IInv
<1>4. Clock' /\ Verified'
    BY <1>1, Numbers DEF IInv, Clock, Calm, InFlight, Verified
<1>5. Alone' /\ Marked' /\ Awaiting'
    BY <1>1, <1>2 DEF IInv, Covered, Alone, InFlight, Placed, Marked, Lives, Calm, Awaiting, Justified
<1>6. Remembering'
    <2> SUFFICES ASSUME Calm', NEW r \in Revokers, InFlight(r)' PROVE Remembers(r)'
        BY DEF Remembering
    <2>1. Remembers(r)
        BY <1>1 DEF IInv, Covered, Remembering, Calm, InFlight
    <2> QED  BY <1>1, <1>2, <2>1, Numbers DEF IInv, Remembers, Justified
<1>7. Unmarked'
    BY <1>1, <1>3, Numbers DEF IInv, Covered, Unmarked, Justified, Placed, Calm
<1> QED  BY <1>4, <1>5, <1>6, <1>7 DEF Covered

(* No token that is due to be refused is accepted.                          *)
LEMMA AcceptedIsLater ==
  ASSUME IInv, NEW t \in tokens, ~Revoked(t)
  PROVE  ~Due(t)
<1> SUFFICES ASSUME Due(t) PROVE FALSE
    OBVIOUS
<1>1. t \in Nat /\ t > 0
    BY Numbers DEF IInv, Clock
<1>2. t <= promised /\ now + cut < t + JWTExp
    BY <1>1, Rounding, Numbers DEF Due, IInv
<1>3. Alive
    BY <1>1, <1>2, Numbers DEF IInv, Alive
<1>4. Stored = marker /\ marker # NoMarker /\ t <= marker.at
    BY <1>1, <1>2, <1>3, MarkerStands, Numbers DEF IInv
<1> QED  BY <1>4 DEF Revoked

LEMMA VisitorKeeps ==
  ASSUME IInv, NEW v \in Visitors, VisitorStep(v)
  PROVE  Clock' /\ Covered' /\ Verified'
<1>1. TypeOK /\ UNCHANGED <<now, marker, revoker, promised, left, cut, overlap>>
    BY VisitorTyped DEF IInv, history
<1>2. Covered'
    BY <1>1 DEF IInv, Covered, Alone, InFlight, Placed, Marked, Lives, Calm, Alive, Remembering,
       Remembers, Justified, Unmarked, Stored, Awaiting
<1>3. tokens' \subseteq tokens \cup {now}
    BY DEF VisitorStep, LoginReads, Lift, Issue, VerifyToken, VerifyRow, Leave
<1>4. Clock'
    BY <1>1, <1>3, Numbers DEF IInv, Clock, Calm, InFlight
<1> DEFINE Safe(w) == w.step \in {"verify", "liftThenServe", "served"} => ~w.due
           To(st) == [visitor[v] EXCEPT !.step = st]
<1>5. ASSUME NEW w, Visit(v, w), Safe(w) PROVE Verified'
    BY <1>1, <1>5 DEF Visit, IInv, Verified, TypeOK
<1>6. visitor[v] \in Visits /\ Safe(visitor[v])
    BY <1>1 DEF TypeOK, IInv, Verified
<1>7. Safe(Visiting)
    BY DEF Visiting
<1>8. ASSUME NEW st \in {"issue", "liftThenIssue"} PROVE Safe([Visiting EXCEPT !.step = st])
    <2>1. [Visiting EXCEPT !.step = st].step = st
        BY DEF Visiting
    <2> QED  BY <2>1
<1>9. ASSUME NEW st \in {"issue", "liftThenServe", "served"},
             visitor[v].step \in {"verify", "liftThenServe"} \/ st = "issue"
      PROVE  Safe(To(st))
    <2>1. To(st).step = st /\ To(st).due = visitor[v].due
        BY <1>6 DEF Visits
    <2> HIDE DEF To
    <2> QED  BY <1>6, <1>9, <2>1
<1>10. ASSUME LoginReads(v) PROVE Verified'
    <2>1. \E st \in {"issue", "liftThenIssue"} : Visit(v, [Visiting EXCEPT !.step = st])
        BY <1>10 DEF LoginReads
    <2> HIDE DEF Safe
    <2> QED  BY <1>5, <1>8, <2>1
<1>11. ASSUME Lift(v) PROVE Verified'
    <2>1. \/ visitor[v].step = "liftThenIssue" /\ Visit(v, To("issue"))
          \/ visitor[v].step = "liftThenServe" /\ Visit(v, To("served"))
        BY <1>11 DEF Lift
    <2> HIDE DEF Safe, To
    <2> QED  BY <1>5, <1>9, <2>1
<1>12. ASSUME Issue(v) \/ Leave(v) PROVE Verified'
    <2>1. Visit(v, Visiting)
        BY <1>12 DEF Issue, Leave
    <2> HIDE DEF Safe
    <2> QED  BY <1>5, <1>7, <2>1
<1>13. ASSUME VerifyToken(v) PROVE Verified'
    <2>1. PICK t \in tokens : ~Revoked(t) /\ Visit(v, [step |-> "verify", due |-> Due(t)])
        BY <1>13 DEF VerifyToken
    <2>2. ~Due(t)
        BY <2>1, AcceptedIsLater
    <2>3. Safe([step |-> "verify", due |-> Due(t)])
        BY <2>2
    <2> HIDE DEF Safe
    <2> QED  BY <1>5, <2>1, <2>3
<1>14. ASSUME VerifyRow(v) PROVE Verified'
    <2>1. visitor[v].step = "verify"
        BY <1>14 DEF VerifyRow
    <2>2. Visit(v, To("served")) \/ Visit(v, To("liftThenServe")) \/ Visit(v, Visiting)
        BY <1>14 DEF VerifyRow
    <2> HIDE DEF Safe, To
    <2> QED  BY <1>5, <1>7, <1>9, <2>1, <2>2
<1> QED  BY <1>2, <1>4, <1>10, <1>11, <1>12, <1>13, <1>14 DEF VisitorStep

(* What the steps of a revocation that handle records do to them.           *)
LEMMA Advanced ==
  ASSUME TypeOK, NEW r \in Revokers
  PROVE  /\ Update(r) => revoker'[r].step = "locked"
         /\ SnapshotGet(r) =>
              \/ /\ Stored = NoMarker /\ revoker'[r].step = "snapshot"
                 /\ revoker'[r].at = now /\ revoker'[r].old = NoMarker
              \/ /\ Stored = marker /\ revoker'[r].step = "got" /\ revoker'[r].old = marker
         /\ SnapshotTTL(r) =>
              /\ revoker'[r].step = "snapshot" /\ revoker'[r].at = now
              /\ revoker'[r].old.at = revoker[r].old.at /\ revoker'[r].old.expires = Left
         /\ SetMarker(r) => revoker'[r].step = "marked"
         /\ CommitFails(r) => revoker'[r].step = "rollback"
         /\ SetMarker(r) \/ CommitFails(r) =>
              revoker'[r].at = revoker[r].at /\ revoker'[r].old = revoker[r].old
         /\ RollbackCheck(r) =>
              \/ /\ revoker'[r].step = "restore"
                 /\ revoker'[r].at = revoker[r].at /\ revoker'[r].old = revoker[r].old
              \/ /\ revoker'[r] = Working
                 /\ ~(Stored.by = r /\ Stored.at = revoker[r].at)
         /\ Abort(r) \/ SetUnanswered(r) \/ Commit(r) \/ Die(r) \/ RollbackFails(r) \/ Restore(r) =>
              revoker'[r] = Working
<1>1. revoker[r] \in Revoking /\ Working.step = "idle"
    BY DEF TypeOK, Working
<1>2. \A w : Advance(r, w) => revoker'[r] = w
    BY DEF Advance, TypeOK
<1>3. Update(r) => revoker'[r].step = "locked"
    BY <1>2 DEF Update, Working
<1>4. ASSUME SnapshotGet(r)
      PROVE  \/ /\ Stored = NoMarker /\ revoker'[r].step = "snapshot"
                /\ revoker'[r].at = now /\ revoker'[r].old = NoMarker
             \/ /\ Stored = marker /\ revoker'[r].step = "got" /\ revoker'[r].old = marker
    <2>1. CASE Stored = NoMarker
        <3>1. revoker'[r] = [revoker[r] EXCEPT !.step = "snapshot", !.at = now, !.old = NoMarker]
            BY <1>2, <1>4, <2>1 DEF SnapshotGet
        <3> QED  BY <1>1, <2>1, <3>1 DEF Revoking
    <2>2. CASE Stored # NoMarker
        <3>1. revoker'[r] = [revoker[r] EXCEPT !.step = "got", !.old = Stored] /\ Stored = marker
            BY <1>2, <1>4, <2>2, StoredTyped DEF SnapshotGet
        <3> QED  BY <1>1, <3>1 DEF Revoking
    <2> QED  BY <2>1, <2>2
<1>5. ASSUME SnapshotTTL(r)
      PROVE  /\ revoker'[r].step = "snapshot" /\ revoker'[r].at = now
             /\ revoker'[r].old.at = revoker[r].old.at /\ revoker'[r].old.expires = Left
    <2>1. revoker'[r] = [revoker[r] EXCEPT !.step = "snapshot", !.at = now, !.old.expires = Left]
        BY <1>2, <1>5 DEF SnapshotTTL
    <2>2. revoker[r].old \in Marker
        BY <1>1 DEF Revoking
    <2>3. revoker'[r].old = [revoker[r].old EXCEPT !.expires = Left]
        BY <1>1, <2>1 DEF Revoking
    <2>4. revoker'[r].old.at = revoker[r].old.at /\ revoker'[r].old.expires = Left
        BY <2>2, <2>3 DEF Marker
    <2> QED  BY <1>1, <2>1, <2>4 DEF Revoking
<1>6. /\ SetMarker(r) => revoker'[r] = [revoker[r] EXCEPT !.step = "marked"]
      /\ CommitFails(r) => revoker'[r] = [revoker[r] EXCEPT !.step = "rollback"]
    BY <1>2 DEF SetMarker, CommitFails
<1>7. ASSUME RollbackCheck(r)
      PROVE  \/ revoker'[r] = [revoker[r] EXCEPT !.step = "restore"]
             \/ revoker'[r] = Working /\ ~(Stored.by = r /\ Stored.at = revoker[r].at)
    <2>1. CASE Stored.by = r /\ Stored.at = revoker[r].at
        BY <1>2, <1>7, <2>1 DEF RollbackCheck
    <2>2. CASE ~(Stored.by = r /\ Stored.at = revoker[r].at)
        BY <1>2, <1>7, <2>2 DEF RollbackCheck
    <2> QED  BY <2>1, <2>2
<1>8. \A st : /\ [revoker[r] EXCEPT !.step = st].step = st
             /\ [revoker[r] EXCEPT !.step = st].at = revoker[r].at
             /\ [revoker[r] EXCEPT !.step = st].old = revoker[r].old
    BY <1>1 DEF Revoking
<1>9. /\ SetMarker(r) => revoker'[r].step = "marked"
      /\ CommitFails(r) => revoker'[r].step = "rollback"
      /\ SetMarker(r) \/ CommitFails(r) =>
           revoker'[r].at = revoker[r].at /\ revoker'[r].old = revoker[r].old
    BY <1>6, <1>8
<1>10. RollbackCheck(r) =>
          \/ /\ revoker'[r].step = "restore"
             /\ revoker'[r].at = revoker[r].at /\ revoker'[r].old = revoker[r].old
          \/ /\ revoker'[r] = Working
             /\ ~(Stored.by = r /\ Stored.at = revoker[r].at)
    BY <1>7, <1>8
<1>11. Abort(r) \/ SetUnanswered(r) \/ Commit(r) \/ Die(r) \/ RollbackFails(r) \/ Restore(r) =>
        revoker'[r] = Working
    BY <1>2 DEF Abort, SetUnanswered, Commit, Die, RollbackFails, LeavesMarker, Restore
<1> QED  BY <1>3, <1>4, <1>5, <1>9, <1>10, <1>11

(* Whatever else is in flight, a revocation's time is not in the future.    *)
LEMMA RevokerTimes ==
  ASSUME IInv, NEW r \in Revokers, RevokerStep(r)
  PROVE  /\ Clock' /\ Verified' /\ UNCHANGED <<now, tokens, visitor>>
         /\ \A s \in Revokers \ {r} : revoker'[s] = revoker[s]
<1>1. TypeOK /\ Clock
    BY DEF IInv
<1>2. UNCHANGED <<now, tokens, visitor>>
    BY DEF RevokerStep, Update, SnapshotGet, SnapshotTTL, SetMarker, SetUnanswered, LeavesMarker,
       Abort, Commit, CommitFails, Die, RollbackCheck, RollbackFails, Restore
<1>3. \A s \in Revokers \ {r} : revoker'[s] = revoker[s]
    <2>1. PICK w : revoker' = [revoker EXCEPT ![r] = w]
        BY <1>1, RevokerTyped
    <2> QED  BY <1>1, <2>1 DEF TypeOK
<1>4. Verified'
    BY <1>2 DEF IInv, Verified
<1>5. InFlight(r)' => revoker'[r].at <= now
    <2>1. Working.step = "idle"
        BY DEF Working
    <2> QED  BY <1>1, <2>1, Advanced, Numbers
             DEF RevokerStep, InFlight, Clock, SetMarker, Set, CommitFails, RollbackCheck
<1>6. promised' <= now /\ (~Calm' => promised' = 0)
    <2>1. CASE Commit(r)
        <3> DEFINE p == IF revoker[r].at > promised THEN revoker[r].at ELSE promised
        <3>1. revoker[r].at <= now
            BY <1>1, <2>1 DEF Clock, InFlight, Commit
        <3>2. p <= now /\ Note(p, 0, 0)
            BY <1>1, <2>1, <3>1 DEF Clock, Commit
        <3> HIDE DEF p
        <3> QED  BY <1>1, <3>2, Noted, Numbers DEF Calm
    <2>2. CASE Update(r) \/ Restore(r)
        <3>1. \E l, c : Note(promised, l, c)
            BY <2>2 DEF Update, Restore
        <3> QED  BY <1>1, <3>1, Noted, Numbers DEF Calm, Clock
    <2>3. CASE SetUnanswered(r) \/ Die(r) \/ RollbackFails(r)
        <3>1. Note(promised, revoker[r].at, cut)
            BY <2>3 DEF SetUnanswered, Die, RollbackFails, LeavesMarker
        <3> QED  BY <1>1, <3>1, Noted, Numbers DEF Calm, Clock
    <2>4. CASE SnapshotGet(r) \/ SnapshotTTL(r) \/ SetMarker(r) \/ Abort(r) \/ CommitFails(r) \/ RollbackCheck(r)
        BY <1>1, <2>4 DEF SnapshotGet, SnapshotTTL, SetMarker, Abort, CommitFails, RollbackCheck,
           history, Calm, Clock
    <2> QED  BY <2>1, <2>2, <2>3, <2>4 DEF RevokerStep
<1>7. \A s \in Revokers \ {r} : InFlight(s)' => revoker'[s].at <= now
    BY <1>1, <1>3 DEF InFlight, Clock
<1>8. Clock'
    BY <1>1, <1>2, <1>5, <1>6, <1>7 DEF Clock
<1> QED  BY <1>2, <1>3, <1>4, <1>8

(* What a revocation alone in flight promises and puts back is covered.     *)
LEMMA RevokerCovers ==
  ASSUME IInv, NEW r \in Revokers, RevokerStep(r), overlap' # "some"
  PROVE  Covered'
<1>1. /\ TypeOK /\ Clock /\ Working.step = "idle"
      /\ Alone /\ Marked /\ Remembering /\ Unmarked /\ Awaiting
    BY DEF IInv, Covered, Working
<1>2. UNCHANGED now /\ \A s \in Revokers \ {r} : revoker'[s] = revoker[s]
    BY RevokerTimes
<1>3. Update(r) \/ (overlap # "some" /\ revoker[r].step # "idle")
    BY DEF RevokerStep, Update, SnapshotGet, SnapshotTTL, SetMarker, Set, SetUnanswered, LeavesMarker,
       Abort, Commit, CommitFails, Die, RollbackCheck, RollbackFails, Restore, history
<1>4. \A s \in Revokers \ {r} : revoker[s].step = "idle" /\ revoker'[s].step = "idle"
    <2>1. CASE Update(r)
        BY <1>2, <2>1 DEF Update
    <2>2. CASE overlap # "some" /\ revoker[r].step # "idle"
        BY <1>1, <1>2, <2>2 DEF Alone
    <2> QED  BY <1>3, <2>1, <2>2
<1>5. ~Update(r) => /\ InFlight(r) => promised <= revoker[r].at
                    /\ revoker[r].step = "got" => revoker[r].old = marker
                    /\ Placed(r) => /\ marker.by = r /\ marker.at = revoker[r].at
                                    /\ marker.expires >= marker.at + JWTExp
    BY <1>1, <1>3 DEF Alone
<1>6. Calm => /\ InFlight(r) => Remembers(r)
              /\ ~Placed(r) => Justified(Stored)
              /\ revoker[r].step = "got" => Justified(revoker[r].old)
    BY <1>1, <1>4 DEF Remembering, Unmarked, Awaiting, Placed
<1>7. ASSUME InFlight(r)' => promised' <= revoker'[r].at,
             revoker'[r].step = "got" => revoker'[r].old = marker',
             Placed(r)' => /\ marker'.by = r /\ marker'.at = revoker'[r].at
                           /\ marker'.expires >= marker'.at + JWTExp,
             Calm' => /\ Lives(marker)' /\ (Alive' => marker' # NoMarker /\ marker'.at >= promised')
                      /\ InFlight(r)' => Remembers(r)'
                      /\ ~Placed(r)' => Justified(Stored)'
                      /\ revoker'[r].step = "got" => Justified(revoker[r].old)'
      PROVE  Covered'
    <2>1. \A s \in Revokers \ {r} : ~InFlight(s)' /\ ~Placed(s)' /\ revoker'[s].step # "got"
        BY <1>4 DEF InFlight, Placed
    <2>2. Alone'
        BY <1>4, <1>7 DEF Alone
    <2>3. Marked' /\ Remembering' /\ Unmarked' /\ Awaiting'
        BY <1>7, <2>1 DEF Marked, Remembering, Unmarked, Awaiting
    <2> QED  BY <2>2, <2>3 DEF Covered
<1>8. ASSUME UNCHANGED <<marker, history>>
      PROVE  /\ Alive' = Alive /\ Stored' = Stored /\ Calm' = Calm /\ Lives(marker)' = Lives(marker)
             /\ Justified(Stored)' = Justified(Stored) /\ UNCHANGED promised
             /\ revoker'[r].old = revoker[r].old =>
                  (Remembers(r)' = Remembers(r) /\ Justified(revoker[r].old)' = Justified(revoker[r].old))
    BY <1>2, <1>8 DEF Alive, Stored, Calm, Lives, Justified, Remembers, history
<1>9. Calm => Lives(marker) /\ (Alive => marker # NoMarker /\ marker.at >= promised)
    BY <1>1 DEF Marked
<1>10. CASE Update(r)
    <2>1. revoker'[r].step = "locked"
        BY <1>1, <1>10, Advanced
    <2>2. UNCHANGED marker /\ revoker[r].step = "idle" /\ (Calm' => Calm) /\ Note(promised, left, cut)
        BY <1>10 DEF Update, Calm
    <2>3. ~InFlight(r)' /\ ~Placed(r)' /\ ~Placed(r)
        BY <2>1, <2>2 DEF InFlight, Placed
    <2>4. Calm' => UNCHANGED <<promised, left, cut>>
        BY <2>2, Noted DEF Calm
    <2>5. Calm' => Lives(marker)' /\ (Alive' => marker' # NoMarker /\ marker'.at >= promised')
        BY <1>2, <1>9, <2>2, <2>4 DEF Lives, Alive
    <2>6. Calm' => Justified(Stored)'
        BY <1>2, <1>6, <2>2, <2>3, <2>4 DEF Justified, Stored
    <2> QED  BY <1>7, <2>1, <2>3, <2>5, <2>6
<1>11. CASE SnapshotGet(r)
    <2>1. UNCHANGED <<marker, history>> /\ revoker[r].step = "locked"
        BY <1>11 DEF SnapshotGet
    <2>2. ~Placed(r)
        BY <2>1 DEF Placed
    <2>3. CASE /\ Stored = NoMarker /\ revoker'[r].step = "snapshot"
               /\ revoker'[r].at = now /\ revoker'[r].old = NoMarker
        <3>1. ~Alive
            BY <2>3, MarkerStands
        <3>2. Calm => Remembers(r)'
            BY <1>1, <1>6, <1>8, <2>1, <2>2, <2>3, <3>1, Numbers DEF Remembers, Justified, history
        <3>3. ~Placed(r)' /\ promised <= now
            BY <1>1, <2>3 DEF Placed, Clock
        <3> QED  BY <1>6, <1>7, <1>8, <1>9, <2>1, <2>2, <2>3, <3>2, <3>3
    <2>4. CASE Stored = marker /\ revoker'[r].step = "got" /\ revoker'[r].old = marker
        <3>1. ~Placed(r)' /\ ~InFlight(r)'
            BY <2>4 DEF Placed, InFlight
        <3>2. Calm => Justified(revoker[r].old)'
            BY <1>6, <2>1, <2>2, <2>4 DEF Justified, history
        <3> QED  BY <1>6, <1>7, <1>8, <1>9, <2>1, <2>2, <2>4, <3>1, <3>2
    <2> QED  BY <1>1, <1>11, <2>3, <2>4, Advanced
<1>12. CASE SnapshotTTL(r)
    <2>1. UNCHANGED <<marker, history>> /\ revoker[r].step = "got" /\ ~Update(r)
        BY <1>12 DEF SnapshotTTL, Update
    <2>2. /\ revoker'[r].step = "snapshot" /\ revoker'[r].at = now
          /\ revoker'[r].old.at = marker.at /\ revoker'[r].old.expires = Left
        BY <1>1, <1>5, <1>12, <2>1, Advanced
    <2>3. ~Placed(r) /\ ~Placed(r)' /\ promised <= now
        BY <1>1, <2>1, <2>2 DEF Placed, Clock
    <2>4. Calm => Justified(marker) /\ (Alive => marker.at >= promised) /\ Lives(marker)
        BY <1>5, <1>6, <1>9, <2>1
    <2>5. /\ Left = Endless \/ now + Left + Half >= marker.expires
          /\ Left \in Nat /\ (marker.expires = Endless => Left = Endless)
        BY <1>1, StoredTyped DEF Left, Stored, NoMarker
    <2>6. Calm => Left = Endless \/ now + Left + cut + Half >= marker.at + JWTExp
        BY <1>1, <2>4, <2>5, Numbers DEF Lives
    <2>7. Calm => Remembers(r)'
        BY <1>2, <1>8, <2>1, <2>2, <2>4, <2>6 DEF Remembers, Justified, history
    <2> QED  BY <1>6, <1>7, <1>8, <1>9, <2>1, <2>2, <2>3, <2>7
<1>13. Set(r) =>
         /\ marker'.by = r /\ marker'.at = revoker[r].at
         /\ marker'.expires = now + JWTExp /\ marker'.expires >= marker'.at + JWTExp
         /\ marker' # NoMarker /\ promised <= revoker[r].at /\ InFlight(r)
    <2> SUFFICES ASSUME Set(r) PROVE /\ promised <= revoker[r].at /\ revoker[r].at <= now /\ InFlight(r)
        BY <1>1, Numbers, Records DEF Set
    <2>1. InFlight(r) /\ ~Update(r)
        BY DEF Set, InFlight, Update
    <2> QED  BY <1>1, <1>5, <2>1 DEF Clock
<1>14. CASE SetMarker(r)
    <2>1. /\ revoker'[r].step = "marked" /\ revoker'[r].at = revoker[r].at
          /\ revoker'[r].old = revoker[r].old
        BY <1>1, <1>14, Advanced
    <2>2. Set(r) /\ UNCHANGED history
        BY <1>14 DEF SetMarker
    <2>3. Calm' => Lives(marker)' /\ marker'.at >= promised'
        BY <1>1, <1>13, <2>2, Numbers DEF Lives, history
    <2>4. Calm' => Remembers(r)'
        BY <1>2, <1>6, <1>13, <2>1, <2>2 DEF Remembers, Justified, Alive, Calm, history
    <2>5. Placed(r)' /\ promised' <= revoker'[r].at
        BY <1>13, <2>1, <2>2 DEF Placed, history
    <2> QED  BY <1>7, <1>13, <2>1, <2>2, <2>3, <2>4, <2>5
<1>15. ASSUME revoker'[r] = Working, Note(promised, revoker[r].at, cut), UNCHANGED overlap,
              marker' # NoMarker, marker'.at = revoker[r].at, marker'.expires >= marker'.at + JWTExp,
              marker'.expires \in Nat, promised <= revoker[r].at
       PROVE  Covered'
    <2>1. Calm' => promised' = promised /\ left' = revoker[r].at /\ cut' = cut
        BY <1>15, Noted DEF Calm
    <2>2. ~InFlight(r)' /\ ~Placed(r)' /\ revoker'[r].step = "idle"
        BY <1>1, <1>15 DEF InFlight, Placed
    <2>3. Calm' => Lives(marker)' /\ marker'.at >= promised'
        BY <1>1, <1>15, <2>1, Numbers DEF Lives
    <2>4. Calm' => Justified(Stored)'
        BY <1>1, <1>15, <2>1, Numbers DEF Justified, Stored
    <2> QED  BY <1>7, <1>15, <2>2, <2>3, <2>4
<1>16. CASE SetUnanswered(r)
    <2>1. Set(r) /\ revoker'[r] = Working /\ Note(promised, revoker[r].at, cut) /\ UNCHANGED overlap
        BY <1>1, <1>16, Advanced DEF SetUnanswered, LeavesMarker
    <2>2. marker'.expires \in Nat
        BY <1>1, <1>13, <2>1, Numbers
    <2> QED  BY <1>13, <1>15, <2>1, <2>2
<1>17. CASE Die(r) \/ RollbackFails(r)
    <2>1. /\ UNCHANGED <<marker, overlap>> /\ revoker'[r] = Working /\ ~Update(r)
          /\ Note(promised, revoker[r].at, cut)
          /\ revoker[r].step \in {"marked", "rollback", "restore"}
        BY <1>1, <1>17, Advanced DEF Die, RollbackFails, LeavesMarker, Update
    <2>2. InFlight(r) /\ Placed(r)
        BY <2>1 DEF InFlight, Placed
    <2>3. marker # NoMarker
        BY <1>1, <1>5, <2>1, <2>2, Numbers, Records
    <2> QED  BY <1>1, <1>5, <1>15, <2>1, <2>2, <2>3, Numbers
<1>18. CASE Abort(r)
    <2>1. /\ revoker'[r] = Working /\ UNCHANGED <<marker, history>>
          /\ revoker[r].step \in {"locked", "got", "snapshot"}
        BY <1>1, <1>18, Advanced DEF Abort
    <2>2. ~Placed(r) /\ ~Placed(r)' /\ ~InFlight(r)' /\ revoker'[r].step = "idle"
        BY <1>1, <2>1 DEF Placed, InFlight
    <2> QED  BY <1>6, <1>7, <1>8, <1>9, <2>1, <2>2
<1>19. CASE Commit(r)
    <2>1. /\ revoker'[r] = Working /\ UNCHANGED marker /\ revoker[r].step = "marked" /\ ~Update(r)
          /\ Note(IF revoker[r].at > promised THEN revoker[r].at ELSE promised, 0, 0)
        BY <1>1, <1>19, Advanced DEF Commit, Update
    <2>2. /\ marker.by = r /\ marker.at = revoker[r].at /\ promised <= revoker[r].at
          /\ marker.expires >= marker.at + JWTExp
        BY <1>5, <2>1 DEF InFlight, Placed
    <2>3. Calm' => promised' = revoker[r].at /\ cut' = 0
        <3>1. (IF revoker[r].at > promised THEN revoker[r].at ELSE promised) = revoker[r].at
            BY <1>1, <2>2, Numbers
        <3> QED  BY <2>1, <3>1, Noted DEF Calm
    <2>4. marker # NoMarker
        BY <1>1, <2>2, Numbers, Records
    <2>5. Calm' => Lives(marker)' /\ marker'.at >= promised' /\ Justified(Stored)'
        BY <1>1, <2>1, <2>2, <2>3, Numbers DEF Lives, Justified, Stored
    <2>6. ~InFlight(r)' /\ ~Placed(r)' /\ revoker'[r].step = "idle"
        BY <1>1, <2>1 DEF InFlight, Placed
    <2> QED  BY <1>7, <2>1, <2>4, <2>5, <2>6
<1>20. CASE CommitFails(r)
    <2>1. /\ revoker'[r].step = "rollback" /\ revoker'[r].at = revoker[r].at
          /\ revoker'[r].old = revoker[r].old
        BY <1>1, <1>20, Advanced
    <2>2. UNCHANGED <<marker, history>> /\ revoker[r].step = "marked" /\ ~Update(r)
        BY <1>20 DEF CommitFails, Update
    <2>3. InFlight(r) /\ Placed(r) /\ Placed(r)'
        BY <2>1, <2>2 DEF InFlight, Placed
    <2> QED  BY <1>5, <1>6, <1>7, <1>8, <1>9, <2>1, <2>2, <2>3
<1>21. CASE RollbackCheck(r)
    <2>1. UNCHANGED <<marker, history>> /\ revoker[r].step = "rollback" /\ ~Update(r)
        BY <1>21 DEF RollbackCheck, Update
    <2>2. InFlight(r) /\ Placed(r)
        BY <2>1 DEF InFlight, Placed
    <2>3. CASE /\ revoker'[r].step = "restore"
               /\ revoker'[r].at = revoker[r].at /\ revoker'[r].old = revoker[r].old
        <3>1. Placed(r)'
            BY <2>3 DEF Placed
        <3> QED  BY <1>5, <1>6, <1>7, <1>8, <1>9, <2>1, <2>2, <2>3, <3>1
    <2>4. CASE revoker'[r] = Working /\ ~(Stored.by = r /\ Stored.at = revoker[r].at)
        <3>1. Stored = NoMarker
            BY <1>5, <2>1, <2>2, <2>4 DEF Stored
        <3>2. Justified(Stored)
            BY <1>1, <3>1, Numbers DEF Justified
        <3>3. ~Placed(r)' /\ ~InFlight(r)' /\ revoker'[r].step = "idle"
            BY <1>1, <2>4 DEF Placed, InFlight
        <3> QED  BY <1>7, <1>8, <1>9, <2>1, <3>2, <3>3
    <2> QED  BY <1>1, <1>21, <2>3, <2>4, Advanced
<1>22. CASE Restore(r)
    <2> DEFINE old == revoker[r].old
    <2>1. /\ revoker'[r] = Working /\ UNCHANGED overlap /\ revoker[r].step = "restore"
        BY <1>1, <1>22, Advanced DEF Restore
    <2>2. ~InFlight(r)' /\ ~Placed(r)' /\ revoker'[r].step = "idle" /\ InFlight(r)
        BY <1>1, <2>1 DEF Placed, InFlight
    <2>3. Calm => Remembers(r)
        BY <1>6, <2>2
    <2>4. \/ /\ old.expires = Endless /\ marker' = old
             /\ Note(promised, left, cut)
          \/ /\ old.expires # Endless /\ Note(promised, left, cut + Half)
             /\ marker'.at = old.at /\ marker'.expires = now + old.expires
        <3>1. old \in Marker
            BY <1>1, Numbers
        <3> QED  BY <1>22, <3>1 DEF Restore, Marker
    <2>5. Calm' => /\ Calm /\ promised' = promised /\ left' = left
                   /\ \/ old.expires = Endless /\ cut' = cut /\ marker'.expires = Endless
                      \/ old.expires # Endless /\ cut' = cut + Half /\ marker'.expires = now + old.expires
        BY <2>1, <2>4, Noted DEF Calm
    <2>6. marker'.at = old.at
        BY <2>4
    <2>7. Calm' /\ Alive' => Alive
        BY <1>1, <1>2, <2>5, Numbers DEF Alive
    <2>8. Calm' => Lives(marker)'
        BY <1>1, <2>3, <2>5, <2>6, Numbers DEF Lives, Remembers
    <2>9. Calm' /\ Alive' => marker' # NoMarker /\ marker'.at >= promised'
        <3> SUFFICES ASSUME Calm', Alive' PROVE marker' # NoMarker /\ marker'.at >= promised'
            OBVIOUS
        <3>1. old.at >= promised /\ promised > 0
            BY <2>3, <2>5, <2>7 DEF Remembers, Alive
        <3> QED  BY <1>1, <2>5, <2>6, <3>1, Numbers
    <2>10. Calm' => Justified(Stored)'
        BY <1>1, <2>3, <2>5, <2>6, Numbers DEF Justified, Remembers, Stored
    <2> QED  BY <1>7, <2>2, <2>8, <2>9, <2>10
<1> QED  BY <1>10, <1>11, <1>12, <1>14, <1>16, <1>17, <1>18, <1>19, <1>20, <1>21, <1>22
         DEF RevokerStep

LEMMA RevokerKeeps ==
  ASSUME IInv, NEW r \in Revokers, RevokerStep(r)
  PROVE  Clock' /\ Covered' /\ Verified'
<1>1. overlap' = "some" => Covered'
    BY DEF Covered, Alone, Marked, Remembering, Unmarked, Awaiting, Calm
<1> QED  BY <1>1, RevokerTimes, RevokerCovers

LEMMA IInvStep == IInv /\ [Next]_vars => IInv'
<1> SUFFICES ASSUME IInv, [Next]_vars
             PROVE  Clock' /\ Covered' /\ Verified'
    BY TypeStep DEF IInv
<1>1. CASE Unban \/ UNCHANGED vars
    <2>1. UNCHANGED <<now, marker, revoker, promised, left, cut, overlap, visitor, tokens>>
        BY <1>1 DEF Unban, vars, history
    <2> QED  BY <2>1 DEF IInv, Clock, Covered, Alone, InFlight, Placed, Marked, Lives, Calm,
             Alive, Remembering, Remembers, Justified, Unmarked, Awaiting, Stored, Verified
<1> QED  BY <1>1, TickKeeps, VisitorKeeps, RevokerKeeps DEF Next

LEMMA IInvHolds == Spec => []IInv
BY InitIInv, IInvStep, PTL DEF Spec

(* Once a revocation has been answered with success, no request that begins *)
(* later is served with a token issued up to then, whatever revocations     *)
(* fail later and however, and whatever marker they put back or leave; but  *)
(* for the last half second of the token's life for each marker put back,   *)
(* and for a revocation that began while another was being rolled back,     *)
(* until one that begins alone succeeds.                                    *)
THEOREM RevokedStaysRevoked == Spec => []StaysRevoked
<1>1. IInv => StaysRevoked
    BY DEF IInv, Verified, StaysRevoked
<1> QED  BY <1>1, IInvHolds, PTL

(* A revocation that fails leaves no marker behind that refuses a token,    *)
(* unless Redis or the process failed after SET: then only the last such    *)
(* marker stays.  With the same exception of overlaps.                      *)
THEOREM FailuresRevokeNothing == Spec => []FailureRevokesNothing
<1>1. IInv => FailureRevokesNothing
    BY DEF IInv, Covered, Unmarked, Justified, Placed, Calm, FailureRevokesNothing
<1> QED  BY <1>1, IInvHolds, PTL
=============================================================================
