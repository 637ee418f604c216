-------------------------- MODULE RateLimitProofs --------------------------
(***************************************************************************)
(* The safety of a request counter, for any callers, failures and limits.  *)
(***************************************************************************)
EXTENDS RateLimit, FiniteSetTheorems, TLAPS

LEMMA IdleIsCall == Idle \in Calls
BY RateLimitAssumption DEF Calls, Idle

(* Every operation keeps the counter, its expiry and the calls in their     *)
(* types, and no counter that does not exist has an expiry.                 *)
LEMMA TypeOKStep == TypeOK /\ [Next]_vars => TypeOK'
<1> SUFFICES ASSUME TypeOK, [Next]_vars PROVE TypeOK'
    OBVIOUS
<1> USE RateLimitAssumption, IdleIsCall
<1> USE DEF TypeOK
<1>1. \A c \in Callers : call[c] \in Calls /\ call[c].count \in Nat
    BY DEF Calls
<1>2. ASSUME NEW c \in Callers, Incr(c) PROVE TypeOK'
    <2>1. count' \in 0..MaxCount /\ count' > 0
        BY <1>2 DEF Incr
    <2>2. [step |-> "counted", count |-> count', late |-> FALSE] \in Calls
        BY <2>1 DEF Calls
    <2> QED  BY <1>2, <2>1, <2>2 DEF Incr
<1>3. ASSUME NEW c \in Callers, Answer(c)
      PROVE  call' \in [Callers -> Calls] /\ served' \in Nat /\ broken' \in BOOLEAN
    <2>1. call' \in [Callers -> Calls]
        BY <1>3 DEF Answer
    <2>2. served' \in Nat
        BY <1>3 DEF Answer
    <2>3. broken' \in BOOLEAN
        BY <1>3, Zenon DEF Answer
    <2> QED  BY <2>1, <2>2, <2>3
<1>4. ASSUME NEW c \in Callers, ReadTTL(c) PROVE TypeOK'
    <2>1. [call[c] EXCEPT !.step = "expiring"] \in Calls
        BY <1>1 DEF Calls
    <2> QED  BY <1>4, <1>3, <2>1 DEF ReadTTL
<1>5. ASSUME NEW c \in Callers, SetExpiry(c) PROVE TypeOK'
    BY <1>5, <1>3 DEF SetExpiry
<1>6. ASSUME NEW c \in Callers, KeyMissing(c) PROVE TypeOK'
    BY <1>6 DEF KeyMissing
<1>7. ASSUME NEW c \in Callers, Fail(c) PROVE TypeOK'
    BY <1>7 DEF Fail
<1>8. CASE WindowEnding
    BY <1>8 DEF WindowEnding
<1>9. CASE Expire
    <2>1. \A c \in Callers : [call[c] EXCEPT !.late = TRUE] \in Calls
        BY <1>1 DEF Calls
    <2> QED  BY <1>9, <2>1 DEF Expire
<1>10. CASE UNCHANGED vars
    BY <1>10 DEF vars
<1> QED  BY <1>2, <1>4, <1>5, <1>6, <1>7, <1>8, <1>9, <1>10 DEF Next

LEMMA TypeOKInit == Init => TypeOK
<1> SUFFICES ASSUME Init PROVE TypeOK
    OBVIOUS
<1>1. broken \in BOOLEAN
    BY Zenon DEF Init
<1> QED  BY <1>1, RateLimitAssumption, IdleIsCall DEF Init, TypeOK

(* The counter, its expiry and the calls keep their types.                  *)
THEOREM TypeCorrect == Spec => []TypeOK
BY TypeOKInit, TypeOKStep, PTL DEF Spec

-----------------------------------------------------------------------------
(* Whoever finds the key without expiry goes on to give it one.             *)
LEMMA EndlessStep == TypeOK /\ NoEndlessWindow /\ [Next]_vars => NoEndlessWindow'
<1> SUFFICES ASSUME TypeOK, NoEndlessWindow, [Next]_vars,
                    count' > 0, life' = "endless"
             PROVE  broken' \/ \E c \in Callers : Underway(c)'
    BY DEF NoEndlessWindow
<1> USE DEF TypeOK, Calls
<1>1. ASSUME NEW c \in Callers, Incr(c) PROVE Underway(c)'
    BY <1>1 DEF Incr, Underway
<1>2. ASSUME NEW c \in Callers, ReadTTL(c) PROVE broken' \/ \E d \in Callers : Underway(d)'
    <2>1. count > 0 /\ life = "endless" /\ NeedsExpiry(c)
        BY <1>2 DEF ReadTTL, NeedsExpiry
    <2>2. broken' = broken /\ \A d \in Callers : Underway(d)' = Underway(d)
        BY <1>2, <2>1 DEF ReadTTL, Underway
    <2> QED  BY <2>1, <2>2 DEF NoEndlessWindow
<1>3. ASSUME NEW c \in Callers, SetExpiry(c) PROVE FALSE
    BY <1>3 DEF SetExpiry
<1>4. ASSUME NEW c \in Callers, KeyMissing(c) PROVE FALSE
    BY <1>4 DEF KeyMissing
<1>5. ASSUME NEW c \in Callers, Fail(c) PROVE broken'
    BY <1>5 DEF Fail
<1>6. CASE WindowEnding
    BY <1>6 DEF WindowEnding
<1>7. CASE Expire
    BY <1>7 DEF Expire
<1>8. CASE UNCHANGED vars
    BY <1>8 DEF vars, NoEndlessWindow, Underway
<1> QED  BY <1>1, <1>2, <1>3, <1>4, <1>5, <1>6, <1>7, <1>8 DEF Next

(* A counter has no expiry only while a call that will see it is under way, *)
(* or since such a call failed.                                             *)
THEOREM NoEndlessWindows == Spec => []NoEndlessWindow
<1>1. Init => NoEndlessWindow
    BY DEF Init, NoEndlessWindow
<1> QED  BY <1>1, TypeCorrect, EndlessStep, PTL DEF Spec

-----------------------------------------------------------------------------
(* The calls that the present counter counted within the limit, and that    *)
(* have still to be answered: with those already served they are no more    *)
(* than the counter says, nor than the limit.                               *)
Pending == {c \in Callers : Underway(c) /\ call[c].count <= Limit}

Accounted ==
  /\ IsFiniteSet(Pending)
  /\ served + Cardinality(Pending) <= count
  /\ served + Cardinality(Pending) <= Limit

LEMMA PendingGrows ==
  ASSUME TypeOK, Accounted, NEW c \in Callers, c \notin Pending,
         Pending' = Pending \cup {c}
  PROVE  IsFiniteSet(Pending)' /\ Cardinality(Pending)' = Cardinality(Pending) + 1
BY FS_AddElement DEF Accounted

LEMMA PendingShrinks ==
  ASSUME TypeOK, Accounted, NEW c \in Callers, Pending' = Pending \ {c}
  PROVE  /\ IsFiniteSet(Pending)'
         /\ Cardinality(Pending) \in Nat /\ Cardinality(Pending)' \in Nat
         /\ Cardinality(Pending)' <= Cardinality(Pending)
         /\ c \in Pending => Cardinality(Pending)' = Cardinality(Pending) - 1
<1>1. IsFiniteSet(Pending) /\ Cardinality(Pending) \in Nat
    BY FS_CardinalityType DEF Accounted
<1>2. CASE c \in Pending
    <2>1. IsFiniteSet(Pending \ {c}) /\ Cardinality(Pending \ {c}) = Cardinality(Pending) - 1
        BY <1>1, <1>2, FS_RemoveElement
    <2>2. Cardinality(Pending \ {c}) \in Nat
        BY <2>1, FS_CardinalityType
    <2> QED  BY <1>1, <1>2, <2>1, <2>2
<1>3. CASE c \notin Pending
    <2>1. Pending' = Pending
        BY <1>3
    <2> QED  BY <1>1, <2>1, <1>3
<1> QED  BY <1>2, <1>3

LEMMA AnswerAccounted ==
  ASSUME TypeOK, Accounted, NEW c \in Callers, Underway(c) \/ call[c].late,
         call' = [call EXCEPT ![c] = Idle], count' = count,
         served' = served \/ (served' = served + 1 /\ call[c].count <= Limit /\ ~call[c].late)
  PROVE  Accounted'
<1>1. Pending' = Pending \ {c}
    BY DEF TypeOK, Calls, Pending, Underway, Idle
<1>2. served' = served + 1 => c \in Pending
    BY DEF TypeOK, Calls, Pending, Underway
<1>3. /\ IsFiniteSet(Pending)'
      /\ Cardinality(Pending) \in Nat /\ Cardinality(Pending)' \in Nat
      /\ Cardinality(Pending)' <= Cardinality(Pending)
      /\ c \in Pending => Cardinality(Pending)' = Cardinality(Pending) - 1
    BY <1>1, PendingShrinks
<1>4. served \in Nat /\ count \in Nat /\ Limit \in Nat
    BY RateLimitAssumption DEF TypeOK
<1> QED  BY <1>2, <1>3, <1>4 DEF Accounted

LEMMA AccountedStep == TypeOK /\ Accounted /\ [Next]_vars => Accounted'
<1> SUFFICES ASSUME TypeOK, Accounted, [Next]_vars PROVE Accounted'
    OBVIOUS
<1> USE RateLimitAssumption
<1>0. Cardinality(Pending) \in Nat /\ IsFiniteSet(Pending)
    BY FS_CardinalityType DEF Accounted
<1>1. ASSUME NEW c \in Callers, Incr(c) PROVE Accounted'
    <2>0. c \notin Pending /\ served' = served /\ served \in Nat /\ count \in Nat
        BY <1>1 DEF Incr, Pending, Underway, TypeOK, Calls
    <2>1. CASE count < Limit
        <3>1. Pending' = Pending \cup {c} /\ count' = count + 1
            BY <1>1, <2>1 DEF Incr, Pending, Underway, TypeOK, Calls
        <3>2. IsFiniteSet(Pending)' /\ Cardinality(Pending)' = Cardinality(Pending) + 1
            BY <2>0, <3>1, PendingGrows
        <3> QED  BY <2>0, <2>1, <3>1, <3>2, <1>0 DEF Accounted
    <2>2. CASE count >= Limit
        <3>1. Pending' = Pending /\ count' >= count
            BY <1>1, <2>0, <2>2 DEF Incr, Pending, Underway, TypeOK, Calls
        <3> QED  BY <2>0, <3>1, <1>0, <1>1 DEF Accounted, Incr, TypeOK
    <2> QED  BY <2>0, <2>1, <2>2
<1>2. ASSUME NEW c \in Callers, ReadTTL(c) PROVE Accounted'
    <2>1. CASE NeedsExpiry(c)
        <3>1. Pending' = Pending
            BY <1>2, <2>1 DEF ReadTTL, Pending, Underway, TypeOK, Calls
        <3> QED  BY <3>1, <1>2, <2>1 DEF ReadTTL, Accounted
    <2>2. CASE ~NeedsExpiry(c)
        <3>1. Underway(c) \/ call[c].late
            BY <1>2 DEF ReadTTL, Underway, TypeOK, Calls
        <3> QED  BY <3>1, <1>2, <2>2, AnswerAccounted DEF ReadTTL, Answer
    <2> QED  BY <2>1, <2>2
<1>3. ASSUME NEW c \in Callers, SetExpiry(c) PROVE Accounted'
    <2>1. Underway(c) \/ call[c].late
        BY <1>3 DEF SetExpiry, Underway, TypeOK, Calls
    <2> QED  BY <2>1, <1>3, AnswerAccounted DEF SetExpiry, Answer
<1>4. ASSUME NEW c \in Callers, KeyMissing(c) \/ Fail(c) PROVE Accounted'
    <2>1. Underway(c) \/ call[c].late
        BY <1>4 DEF KeyMissing, Fail, Underway, TypeOK, Calls
    <2> QED  BY <2>1, <1>4, AnswerAccounted DEF KeyMissing, Fail
<1>5. CASE WindowEnding
    <2>1. Pending' = Pending
        BY <1>5 DEF WindowEnding, Pending, Underway
    <2> QED  BY <2>1, <1>5 DEF WindowEnding, Accounted
<1>6. CASE Expire
    <2>1. Pending' = {}
        BY <1>6 DEF Expire, Pending, Underway, Idle, TypeOK, Calls
    <2> QED  BY <2>1, <1>6, FS_EmptySet DEF Expire, Accounted
<1>7. CASE UNCHANGED vars
    <2>1. Pending' = Pending
        BY <1>7 DEF vars, Pending, Underway
    <2> QED  BY <2>1, <1>7 DEF vars, Accounted
<1> QED  BY <1>1, <1>2, <1>3, <1>4, <1>5, <1>6, <1>7 DEF Next

(* No interleaving of the three commands lets more requests through than    *)
(* the limit, within one life of the counter.                               *)
THEOREM NeverMoreThanLimit == Spec => []AtMostLimit
<1>1. Init => Accounted
    <2> SUFFICES ASSUME Init PROVE Accounted
        OBVIOUS
    <2>1. Pending = {}
        BY DEF Init, Pending, Underway, Idle
    <2> QED  BY <2>1, FS_EmptySet, RateLimitAssumption DEF Init, Accounted
<1>2. TypeOK /\ Accounted => AtMostLimit
    BY FS_CardinalityType, RateLimitAssumption DEF TypeOK, Accounted, AtMostLimit
<1> QED  BY <1>1, <1>2, TypeCorrect, AccountedStep, PTL DEF Spec
=============================================================================
