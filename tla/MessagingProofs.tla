-------------------------- MODULE MessagingProofs --------------------------
(***************************************************************************)
(* The counts and receipts of a conversation, for any number of users,     *)
(* concurrent requests and messages.                                       *)
(***************************************************************************)
EXTENDS Messaging, FiniteSetTheorems, SequenceTheorems, TLAPS

LEMMA TypeInit == Init => TypeOK
<1> USE MessagingAssumption
<1> SUFFICES ASSUME Init PROVE TypeOK
  OBVIOUS
<1> USE DEF Init
<1>1. ChatType
  <2>1. log \in Seq([by : Users, at : 1..MaxTime]) /\ Len(log) = 0
    OBVIOUS
  <2>2. members \in SUBSET Users
    OBVIOUS
  <2> HIDE DEF Init
  <2>3. now = 1 /\ lastAt = 0 /\ kind \in {"private", "group"}
    BY DEF Init
  <2>4. blocked \in BOOLEAN
    BY DEF Init
  <2> QED BY <2>1, <2>2, <2>3, <2>4 DEF ChatType
<1>2. ParticipantsType BY DEF ParticipantsType
<1>3. RequestType BY DEF RequestType, RequestRecord, Free, At
<1>4. HistoryType BY DEF HistoryType
<1> QED BY <1>1, <1>2, <1>3, <1>4 DEF TypeOK

LEMMA TypeStep == TypeOK /\ [Next]_vars => TypeOK'
<1> USE MessagingAssumption
<1> SUFFICES ASSUME TypeOK, [Next]_vars PROVE TypeOK'
  OBVIOUS
<1> USE DEF TypeOK, columns, history
<1>1. ASSUME Tick PROVE TypeOK'
  <2>1. ChatType' BY <1>1 DEF ChatType, Tick
  <2>2. ParticipantsType' BY <1>1 DEF ParticipantsType, Tick
  <2>3. RequestType' BY <1>1 DEF RequestType, At, Tick
  <2>4. HistoryType' BY <1>1 DEF HistoryType, ChatType, Tick
  <2> QED BY <2>1, <2>2, <2>3, <2>4
<1>2. ASSUME BlockUser PROVE TypeOK'
  <2>1. ChatType' BY <1>2 DEF ChatType, BlockUser
  <2>2. ParticipantsType' BY <1>2 DEF ParticipantsType, BlockUser
  <2>3. RequestType' BY <1>2 DEF RequestType, At, BlockUser
  <2>4. HistoryType' BY <1>2 DEF HistoryType, ChatType, BlockUser
  <2> QED BY <2>1, <2>2, <2>3, <2>4
<1>3. ASSUME UnblockUser PROVE TypeOK'
  <2>1. ChatType' BY <1>3 DEF ChatType, UnblockUser
  <2>2. ParticipantsType' BY <1>3 DEF ParticipantsType, UnblockUser
  <2>3. RequestType' BY <1>3 DEF RequestType, At, UnblockUser
  <2>4. HistoryType' BY <1>3 DEF HistoryType, ChatType, UnblockUser
  <2> QED BY <2>1, <2>2, <2>3, <2>4
<1>4. ASSUME NEW u \in Users, Join(u) PROVE TypeOK'
  <2>1. ChatType' BY <1>4 DEF ChatType, Join
  <2>2. ParticipantsType' BY <1>4 DEF ParticipantsType, Join
  <2>3. RequestType' BY <1>4 DEF RequestType, At, Join
  <2>4. HistoryType' BY <1>4 DEF HistoryType, ChatType, Join
  <2> QED BY <2>1, <2>2, <2>3, <2>4
<1>5. ASSUME NEW u \in Users, Leave(u) PROVE TypeOK'
  <2>1. ChatType' BY <1>5 DEF ChatType, Leave
  <2>2. ParticipantsType' BY <1>5 DEF ParticipantsType, Leave
  <2>3. RequestType' BY <1>5 DEF RequestType, At, Leave
  <2>4. HistoryType' BY <1>5 DEF HistoryType, ChatType, Leave
  <2> QED BY <2>1, <2>2, <2>3, <2>4
<1>6. ASSUME NEW r \in Requests, NEW u \in Users, SendCreate(r, u) PROVE TypeOK'
  <2>1. ChatType' BY <1>6 DEF ChatType, SendCreate
  <2>2. ParticipantsType' BY <1>6 DEF ParticipantsType, SendCreate
  <2>3. RequestType' BY <1>6 DEF RequestType, RequestRecord, At, ChatType, SendCreate
  <2>4. HistoryType' BY <1>6 DEF HistoryType, ChatType, SendCreate
  <2> QED BY <2>1, <2>2, <2>3, <2>4
<1>7. ASSUME NEW r \in Requests, NEW u \in Users, ReadLock(r, u) PROVE TypeOK'
  <2>1. ChatType' BY <1>7 DEF ChatType, ReadLock
  <2>2. ParticipantsType' BY <1>7 DEF ParticipantsType, ReadLock
  <2>3. RequestType' BY <1>7 DEF RequestType, RequestRecord, At, ChatType, ReadLock
  <2>4. HistoryType' BY <1>7 DEF HistoryType, ChatType, ReadLock
  <2> QED BY <2>1, <2>2, <2>3, <2>4
<1>8. ASSUME NEW r \in Requests, NEW u \in Users, HideStamp(r, u) PROVE TypeOK'
  <2>1. ChatType' BY <1>8 DEF ChatType, HideStamp
  <2>2. ParticipantsType' BY <1>8 DEF ParticipantsType, HideStamp
  <2>3. RequestType' BY <1>8 DEF RequestType, RequestRecord, At, ChatType, HideStamp
  <2>4. HistoryType' BY <1>8 DEF HistoryType, ChatType, HideStamp
  <2> QED BY <2>1, <2>2, <2>3, <2>4
<1>9. ASSUME NEW r \in Requests, SendInsert(r) PROVE TypeOK'
  <2>1. ChatType' BY <1>9 DEF ChatType, SendInsert
  <2>2. ParticipantsType' BY <1>9 DEF ParticipantsType, SendInsert
  <2>3. RequestType' BY <1>9 DEF RequestType, RequestRecord, At, SendInsert
  <2>4. HistoryType' BY <1>9 DEF HistoryType, ChatType, SendInsert
  <2> QED BY <2>1, <2>2, <2>3, <2>4
<1>10. ASSUME NEW r \in Requests, SendUpdateChat(r) PROVE TypeOK'
  <2>1. ChatType' BY <1>10 DEF ChatType, SendUpdateChat
  <2>2. ParticipantsType' BY <1>10 DEF ParticipantsType, SendUpdateChat
  <2>3. RequestType'
    <3> DEFINE new == [request[r] EXCEPT !.step = "updated", !.stamp = now,
                                         !.upto = Len(log)]
    <3>1. now \in 0..MaxTime /\ Len(log) \in Nat
      BY DEF ChatType
    <3>2. request' = [request EXCEPT ![r] = new]
      BY <1>10 DEF SendUpdateChat, RequestType
    <3>3. request[r].step = "inserted" /\ request[r] \in RequestRecord
      BY <1>10 DEF SendUpdateChat, RequestType, At
    <3>4. /\ new \in RequestRecord
          /\ new.user = request[r].user /\ new.created = request[r].created
      BY <3>1, <3>3 DEF RequestRecord
    <3> HIDE DEF new
    <3> QED BY <3>2, <3>3, <3>4 DEF RequestType, At
  <2>4. HistoryType' BY <1>10 DEF HistoryType, ChatType, SendUpdateChat
  <2> QED BY <2>1, <2>2, <2>3, <2>4
<1>11. ASSUME NEW r \in Requests, SendCommit(r) PROVE TypeOK'
  <2>1. ChatType' BY <1>11 DEF ChatType, RequestType, RequestRecord, At, SendCommit
  <2>2. ParticipantsType'
    BY <1>11 DEF ParticipantsType, RequestType, RequestRecord, At, SendCommit
  <2>3. RequestType' BY <1>11 DEF RequestType, RequestRecord, At, Finish, Free, SendCommit
  <2>4. HistoryType' BY <1>11 DEF HistoryType, ChatType, Acknowledged, SendCommit
  <2> QED BY <2>1, <2>2, <2>3, <2>4
<1>12. ASSUME NEW r \in Requests, ReadCommit(r) PROVE TypeOK'
  <2>1. ChatType' BY <1>12 DEF ChatType, RequestType, At, ReadCommit
  <2>2. ParticipantsType'
    BY <1>12 DEF ParticipantsType, RequestType, RequestRecord, At, ReadCommit
  <2>3. RequestType' BY <1>12 DEF RequestType, RequestRecord, At, Finish, Free, ReadCommit
  <2>4. HistoryType' BY <1>12 DEF HistoryType, ChatType, Acknowledged, ReadCommit
  <2> QED BY <2>1, <2>2, <2>3, <2>4
<1>13. ASSUME NEW r \in Requests, HideWrite(r) PROVE TypeOK'
  <2>1. ChatType' BY <1>13 DEF ChatType, RequestType, At, HideWrite
  <2>2. ParticipantsType'
    BY <1>13 DEF ParticipantsType, RequestType, RequestRecord, At, HideWrite
  <2>3. RequestType' BY <1>13 DEF RequestType, RequestRecord, At, Finish, Free, HideWrite
  <2>4. HistoryType' BY <1>13 DEF HistoryType, ChatType, HideWrite
  <2> QED BY <2>1, <2>2, <2>3, <2>4
<1>14. ASSUME NEW r \in Requests, Fail(r) PROVE TypeOK'
  <2>1. ChatType' BY <1>14 DEF ChatType, Fail
  <2>2. ParticipantsType' BY <1>14 DEF ParticipantsType, Fail
  <2>3. RequestType' BY <1>14 DEF RequestType, RequestRecord, At, Finish, Free, Fail
  <2>4. HistoryType' BY <1>14 DEF HistoryType, ChatType, Fail
  <2> QED BY <2>1, <2>2, <2>3, <2>4
<1>15. CASE UNCHANGED vars
  BY <1>15 DEF vars, ChatType, ParticipantsType, RequestType, RequestRecord, At, HistoryType
<1> QED BY <1>1, <1>2, <1>3, <1>4, <1>5, <1>6, <1>7, <1>8, <1>9, <1>10, <1>11,
           <1>12, <1>13, <1>14, <1>15 DEF Next

(* The type invariant holds in every state.                                 *)
THEOREM TypeCorrect == Spec => []TypeOK
BY TypeInit, TypeStep, PTL DEF Spec

LEMMA InvInit == Init => IInv
<1> SUFFICES ASSUME Init PROVE IInv
  OBVIOUS
<1>1. TypeOK
  BY TypeInit
<1>2. Exclusive /\ Current
  BY DEF Init, Free, Exclusive, Current, Sharing, Updating, Reading, At
<1>3. NothingAhead
  BY DEF Init, Free, NothingAhead
<1>4. AllCounts /\ AllReceipts
  BY FS_EmptySet DEF Init, AllCounts, AllReceipts
<1> QED BY <1>1, <1>2, <1>3, <1>4 DEF IInv

LEMMA Numbers ==
  ASSUME TypeOK
  PROVE  /\ now \in Nat \ {0}
         /\ Len(log) \in Nat
         /\ \A i \in 1..Len(log) : log[i].at \in Nat
         /\ \A u \in Users : lastRead[u] \in Nat /\ unread[u] \in Nat
         /\ \A r \in Requests : /\ request[r].created \in Nat
                               /\ request[r].stamp \in Nat
                               /\ request[r].upto \in Nat
<1>1. now \in Nat \ {0} /\ Len(log) \in Nat
  BY MessagingAssumption DEF TypeOK, ChatType
<1>2. \A i \in 1..Len(log) : log[i].at \in Nat
  <2>1. log \in Seq([by : Users, at : 1..MaxTime])
    BY DEF TypeOK, ChatType
  <2>2. \A i \in 1..Len(log) : log[i] \in [by : Users, at : 1..MaxTime]
    BY <2>1, ElementOfSeq
  <2> QED BY <2>2, MessagingAssumption
<1>3. \A u \in Users : lastRead[u] \in Nat /\ unread[u] \in Nat
  BY MessagingAssumption DEF TypeOK, ParticipantsType
<1>4. \A r \in Requests : /\ request[r].created \in Nat
                        /\ request[r].stamp \in Nat
                        /\ request[r].upto \in Nat
  BY MessagingAssumption DEF TypeOK, RequestType, RequestRecord
<1> QED BY <1>1, <1>2, <1>3, <1>4

(* The messages a participant missed are finitely many, so each one more    *)
(* makes the count one more.                                                *)
LEMMA MissedCounts ==
  ASSUME TypeOK, NEW u \in Users
  PROVE  /\ Cardinality({}) = 0
         /\ Cardinality(missed[u] \union {Len(log) + 1}) = Cardinality(missed[u]) + 1
<1>1. missed[u] \subseteq 1..Len(log) /\ Len(log) \in Nat
  BY DEF TypeOK, HistoryType, ChatType
<1>2. IsFiniteSet(missed[u])
  <2>1. IsFiniteSet(1..Len(log))
    BY <1>1, FS_Interval
  <2> QED BY <1>1, <2>1, FS_Subset
<1>3. Len(log) + 1 \notin missed[u]
  BY <1>1
<1> QED BY <1>2, <1>3, FS_AddElement, FS_EmptySet

LEMMA InvStep == IInv /\ [Next]_vars => IInv'
<1> SUFFICES ASSUME IInv, [Next]_vars PROVE IInv'
  OBVIOUS
<1>0. TypeOK'
  BY TypeStep DEF IInv
<1> USE <1>0 DEF IInv, columns, history
<1>1. ASSUME Tick PROVE IInv'
  <2>1. Exclusive'
    BY <1>1
       DEF Exclusive, Sharing, Updating, Reading, At, TypeOK, RequestType, RequestRecord,
           Tick
  <2>2. Current'
    BY <1>1, Numbers
       DEF Current, Exclusive, Sharing, Updating, Reading, At, TypeOK, RequestType,
           RequestRecord, Tick
  <2>3. NothingAhead' BY <1>1, Numbers DEF NothingAhead, Tick
  <2>4. AllCounts' BY <1>1 DEF AllCounts, Tick
  <2>5. AllReceipts' BY <1>1 DEF AllReceipts, Tick
  <2> QED BY <2>1, <2>2, <2>3, <2>4, <2>5
<1>2. ASSUME BlockUser PROVE IInv'
  <2>1. Exclusive'
    BY <1>2
       DEF Exclusive, Sharing, Updating, Reading, At, TypeOK, RequestType, RequestRecord,
           BlockUser
  <2>2. Current'
    BY <1>2, Numbers
       DEF Current, Exclusive, Sharing, Updating, Reading, At, TypeOK, RequestType,
           RequestRecord, BlockUser
  <2>3. NothingAhead' BY <1>2, Numbers DEF NothingAhead, BlockUser
  <2>4. AllCounts' BY <1>2 DEF AllCounts, BlockUser
  <2>5. AllReceipts' BY <1>2 DEF AllReceipts, BlockUser
  <2> QED BY <2>1, <2>2, <2>3, <2>4, <2>5
<1>3. ASSUME UnblockUser PROVE IInv'
  <2>1. Exclusive'
    BY <1>3
       DEF Exclusive, Sharing, Updating, Reading, At, TypeOK, RequestType, RequestRecord,
           UnblockUser
  <2>2. Current'
    BY <1>3, Numbers
       DEF Current, Exclusive, Sharing, Updating, Reading, At, TypeOK, RequestType,
           RequestRecord, UnblockUser
  <2>3. NothingAhead' BY <1>3, Numbers DEF NothingAhead, UnblockUser
  <2>4. AllCounts' BY <1>3 DEF AllCounts, UnblockUser
  <2>5. AllReceipts' BY <1>3 DEF AllReceipts, UnblockUser
  <2> QED BY <2>1, <2>2, <2>3, <2>4, <2>5
<1>4. ASSUME NEW u \in Users, Join(u) PROVE IInv'
  <2>1. Exclusive'
    BY <1>4
       DEF Exclusive, Sharing, Updating, Reading, At, TypeOK, RequestType, RequestRecord,
           Join
  <2>2. Current'
    BY <1>4, Numbers
       DEF Current, Exclusive, Sharing, Updating, Reading, At, TypeOK, RequestType,
           RequestRecord, Join
  <2>3. NothingAhead' BY <1>4, Numbers DEF NothingAhead, Join
  <2>4. AllCounts' BY <1>4 DEF AllCounts, Join
  <2>5. AllReceipts' BY <1>4 DEF AllReceipts, Join
  <2> QED BY <2>1, <2>2, <2>3, <2>4, <2>5
<1>5. ASSUME NEW u \in Users, Leave(u) PROVE IInv'
  <2>1. Exclusive'
    BY <1>5
       DEF Exclusive, Sharing, Updating, Reading, At, TypeOK, RequestType, RequestRecord,
           Leave
  <2>2. Current'
    BY <1>5, Numbers
       DEF Current, Exclusive, Sharing, Updating, Reading, At, TypeOK, RequestType,
           RequestRecord, ParticipantsType, Leave
  <2>3. NothingAhead'
    BY <1>5, Numbers
       DEF NothingAhead, TypeOK, ParticipantsType, RequestType, RequestRecord, Leave
  <2>4. AllCounts'
    BY <1>5, MissedCounts DEF AllCounts, TypeOK, ParticipantsType, HistoryType, Leave
  <2>5. AllReceipts' BY <1>5 DEF AllReceipts, TypeOK, ParticipantsType, HistoryType, Leave
  <2> QED BY <2>1, <2>2, <2>3, <2>4, <2>5
<1>6. ASSUME NEW r \in Requests, NEW u \in Users, SendCreate(r, u) PROVE IInv'
  <2>1. Exclusive'
    BY <1>6
       DEF Exclusive, Sharing, Updating, Reading, At, TypeOK, RequestType, RequestRecord,
           SendCreate
  <2>2. Current'
    BY <1>6, Numbers
       DEF Current, Exclusive, Sharing, Updating, Reading, At, TypeOK, RequestType,
           RequestRecord, SendCreate
  <2>3. NothingAhead'
    BY <1>6, Numbers DEF NothingAhead, TypeOK, RequestType, RequestRecord, SendCreate
  <2>4. AllCounts' BY <1>6 DEF AllCounts, SendCreate
  <2>5. AllReceipts' BY <1>6 DEF AllReceipts, SendCreate
  <2> QED BY <2>1, <2>2, <2>3, <2>4, <2>5
<1>7. ASSUME NEW r \in Requests, NEW u \in Users, ReadLock(r, u) PROVE IInv'
  <2>1. Exclusive'
    BY <1>7
       DEF Exclusive, Sharing, Updating, Reading, At, TypeOK, RequestType, RequestRecord,
           ReadLock
  <2>2. Current'
    BY <1>7, Numbers
       DEF Current, Exclusive, NothingAhead, Sharing, Updating, Reading, At, TypeOK,
           RequestType, RequestRecord, ReadLock
  <2>3. NothingAhead'
    BY <1>7, Numbers DEF NothingAhead, TypeOK, RequestType, RequestRecord, ReadLock
  <2>4. AllCounts' BY <1>7 DEF AllCounts, ReadLock
  <2>5. AllReceipts' BY <1>7 DEF AllReceipts, ReadLock
  <2> QED BY <2>1, <2>2, <2>3, <2>4, <2>5
<1>8. ASSUME NEW r \in Requests, NEW u \in Users, HideStamp(r, u) PROVE IInv'
  <2>1. Exclusive'
    BY <1>8
       DEF Exclusive, Sharing, Updating, Reading, At, TypeOK, RequestType, RequestRecord,
           HideStamp
  <2>2. Current'
    BY <1>8, Numbers
       DEF Current, Exclusive, Sharing, Updating, Reading, At, TypeOK, RequestType,
           RequestRecord, HideStamp
  <2>3. NothingAhead'
    BY <1>8, Numbers DEF NothingAhead, TypeOK, RequestType, RequestRecord, HideStamp
  <2>4. AllCounts' BY <1>8 DEF AllCounts, HideStamp
  <2>5. AllReceipts' BY <1>8 DEF AllReceipts, HideStamp
  <2> QED BY <2>1, <2>2, <2>3, <2>4, <2>5
<1>9. ASSUME NEW r \in Requests, SendInsert(r) PROVE IInv'
  <2>1. Exclusive'
    BY <1>9
       DEF Exclusive, Sharing, Updating, Reading, At, TypeOK, RequestType, RequestRecord,
           SendInsert
  <2>2. Current'
    BY <1>9, Numbers
       DEF Current, Exclusive, Sharing, Updating, Reading, At, TypeOK, RequestType,
           RequestRecord, SendInsert
  <2>3. NothingAhead'
    BY <1>9, Numbers DEF NothingAhead, TypeOK, RequestType, RequestRecord, SendInsert
  <2>4. AllCounts' BY <1>9 DEF AllCounts, SendInsert
  <2>5. AllReceipts' BY <1>9 DEF AllReceipts, SendInsert
  <2> QED BY <2>1, <2>2, <2>3, <2>4, <2>5
<1>10. ASSUME NEW r \in Requests, SendUpdateChat(r) PROVE IInv'
  <2>1. Exclusive'
    BY <1>10
       DEF Exclusive, Sharing, Updating, Reading, At, TypeOK, RequestType, RequestRecord,
           SendUpdateChat
  <2>2. Current'
    BY <1>10, Numbers
       DEF Current, Exclusive, NothingAhead, Sharing, Updating, Reading, At, TypeOK,
           RequestType, RequestRecord, SendUpdateChat
  <2>3. NothingAhead'
    BY <1>10, Numbers DEF NothingAhead, TypeOK, RequestType, RequestRecord, SendUpdateChat
  <2>4. AllCounts' BY <1>10 DEF AllCounts, SendUpdateChat
  <2>5. AllReceipts' BY <1>10 DEF AllReceipts, SendUpdateChat
  <2> QED BY <2>1, <2>2, <2>3, <2>4, <2>5
<1>11. ASSUME NEW r \in Requests, SendCommit(r) PROVE IInv'
  <2>1. Exclusive'
    BY <1>11
       DEF Exclusive, Sharing, Updating, Reading, At, Finish, Free, TypeOK, RequestType,
           RequestRecord, SendCommit
  <2>2. Current'
    BY <1>11, Numbers
       DEF Current, Exclusive, Sharing, Updating, Reading, At, TypeOK, RequestType,
           RequestRecord, Finish, Free, SendCommit
  <2>3. NothingAhead'
    <3>1. \A s \in Requests : request'[s].created <= now /\ request'[s].stamp <= now
      BY Numbers, <1>11 DEF NothingAhead, TypeOK, RequestType, SendCommit, Finish, Free
    <3>2. \A u \in Users : lastRead'[u] <= now
      BY Numbers, <1>11 DEF NothingAhead, SendCommit
    <3>3. \A i \in 1..Len(log') : log'[i].at <= now
      BY Numbers, <1>11 DEF NothingAhead, TypeOK, ChatType, SendCommit
    <3> QED BY <1>11, <3>1, <3>2, <3>3 DEF NothingAhead, SendCommit
  <2>4. AllCounts'
    <3> DEFINE sender == request[r].user
    <3> SUFFICES ASSUME NEW u \in Users PROVE unread'[u] = Cardinality(missed'[u])
      BY DEF AllCounts
    <3>1. unread[u] = Cardinality(missed[u])
      BY DEF AllCounts
    <3>2. CASE u \in members \ {sender}
      <4>1. unread'[u] = unread[u] + 1 /\ missed'[u] = missed[u] \union {Len(log) + 1}
        BY <1>11, <3>2 DEF SendCommit
      <4> QED BY <3>1, <4>1, MissedCounts
    <3>3. CASE u \in members \intersect {sender}
      <4>1. unread'[u] = 0 /\ missed'[u] = missed[u] \ Acknowledged(r, u)
        BY <1>11, <3>3 DEF SendCommit
      <4>2. Acknowledged(r, u) = missed[u]
        BY <1>11, Numbers DEF Acknowledged, Current, Updating, At, SendCommit,
                              TypeOK, HistoryType
      <4> QED BY <4>1, <4>2, MissedCounts
    <3>4. CASE u \notin members
      BY <1>11, <3>1, <3>4 DEF SendCommit
    <3> QED BY <3>2, <3>3, <3>4
  <2>5. AllReceipts'
    <3> DEFINE sender == request[r].user
    <3> SUFFICES ASSUME NEW u \in Users, NEW i \in receipted'[u]
                 PROVE  log'[i].at <= lastRead'[u]
      BY DEF AllReceipts
    <3>1. receipted'[u] \subseteq receipted[u] \union missed[u]
      BY <1>11 DEF SendCommit, Acknowledged
    <3>2. i \in 1..Len(log) /\ log'[i] = log[i]
      BY <1>11, <3>1 DEF SendCommit, TypeOK, HistoryType, ChatType
    <3>3. CASE u \in members \intersect {sender}
      <4>1. lastRead'[u] = request[r].stamp
        BY <1>11, <3>3 DEF SendCommit
      <4>2. log[i].at <= request[r].stamp
        BY <1>11, <3>2 DEF Current, Updating, At, SendCommit
      <4> QED BY <3>2, <4>1, <4>2
    <3>4. CASE u \notin members \intersect {sender}
      <4>1. lastRead'[u] = lastRead[u] /\ receipted'[u] = receipted[u]
        BY <1>11, <3>4 DEF SendCommit
      <4> QED BY <3>2, <4>1 DEF AllReceipts
    <3> QED BY <3>3, <3>4
  <2> QED BY <2>1, <2>2, <2>3, <2>4, <2>5
<1>12. ASSUME NEW r \in Requests, ReadCommit(r) PROVE IInv'
  <2>1. Exclusive'
    BY <1>12
       DEF Exclusive, Sharing, Updating, Reading, At, Finish, Free, TypeOK, RequestType,
           RequestRecord, ReadCommit
  <2>2. Current'
    BY <1>12, Numbers
       DEF Current, Exclusive, Sharing, Updating, Reading, At, TypeOK, RequestType,
           RequestRecord, Finish, Free, ReadCommit
  <2>3. NothingAhead'
    BY <1>12, Numbers
       DEF NothingAhead, TypeOK, ParticipantsType, RequestType, RequestRecord, Finish,
           Free, ReadCommit
  <2>4. AllCounts'
    <3> DEFINE u == request[r].user
    <3>1. u \in Users
      BY <1>12 DEF ReadCommit, TypeOK, RequestType, At
    <3>2. Acknowledged(r, u) = missed[u]
      BY <1>12, <3>1, Numbers DEF Acknowledged, Current, Reading, At, ReadCommit,
                                  TypeOK, HistoryType
    <3>3. unread' = [unread EXCEPT ![u] = 0] /\ missed' = [missed EXCEPT ![u] = {}]
      BY <1>12, <3>2 DEF ReadCommit
    <3> QED BY <3>1, <3>3, MissedCounts DEF AllCounts, TypeOK, ParticipantsType, HistoryType
  <2>5. AllReceipts'
    <3> DEFINE u == request[r].user
    <3>1. u \in Users
      BY <1>12 DEF ReadCommit, TypeOK, RequestType, At
    <3>2. CASE request[r].stamp = 0
      BY <1>12, <3>2 DEF ReadCommit, AllReceipts
    <3>3. CASE request[r].stamp # 0
      <4>1. /\ lastRead' = [lastRead EXCEPT ![u] = request[r].stamp]
            /\ receipted' = [receipted EXCEPT ![u] = @ \union Acknowledged(r, u)]
            /\ log' = log
        BY <1>12, <3>3 DEF ReadCommit
      <4>2. receipted'[u] \subseteq 1..Len(log)
        BY <4>1, <3>1 DEF TypeOK, HistoryType
      <4>3. \A i \in 1..Len(log) : log[i].at <= request[r].stamp
        BY <1>12, <3>3 DEF Current, Reading, At, ReadCommit
      <4> QED BY <3>1, <4>1, <4>2, <4>3
              DEF AllReceipts, TypeOK, ParticipantsType, HistoryType
    <3> QED BY <3>2, <3>3
  <2> QED BY <2>1, <2>2, <2>3, <2>4, <2>5
<1>13. ASSUME NEW r \in Requests, HideWrite(r) PROVE IInv'
  <2>1. Exclusive'
    BY <1>13
       DEF Exclusive, Sharing, Updating, Reading, At, Finish, Free, TypeOK, RequestType,
           RequestRecord, HideWrite
  <2>2. Current'
    BY <1>13, Numbers
       DEF Current, Exclusive, Sharing, Updating, Reading, At, TypeOK, RequestType,
           RequestRecord, Finish, Free, HideWrite
  <2>3. NothingAhead'
    BY <1>13, Numbers
       DEF NothingAhead, TypeOK, RequestType, RequestRecord, Finish, Free, HideWrite
  <2>4. AllCounts'
    BY <1>13, MissedCounts DEF AllCounts, TypeOK, ParticipantsType, HistoryType, HideWrite
  <2>5. AllReceipts'
    BY <1>13 DEF AllReceipts, TypeOK, ParticipantsType, HistoryType, HideWrite
  <2> QED BY <2>1, <2>2, <2>3, <2>4, <2>5
<1>14. ASSUME NEW r \in Requests, Fail(r) PROVE IInv'
  <2>1. Exclusive'
    BY <1>14
       DEF Exclusive, Sharing, Updating, Reading, At, Finish, Free, TypeOK, RequestType,
           RequestRecord, Fail
  <2>2. Current'
    BY <1>14, Numbers
       DEF Current, Exclusive, Sharing, Updating, Reading, At, TypeOK, RequestType,
           RequestRecord, Finish, Free, Fail
  <2>3. NothingAhead'
    BY <1>14, Numbers
       DEF NothingAhead, TypeOK, RequestType, RequestRecord, Finish, Free, Fail
  <2>4. AllCounts' BY <1>14 DEF AllCounts, Fail
  <2>5. AllReceipts' BY <1>14 DEF AllReceipts, Fail
  <2> QED BY <2>1, <2>2, <2>3, <2>4, <2>5
<1>15. CASE UNCHANGED vars
  BY <1>15 DEF vars, Exclusive, Current, NothingAhead, AllCounts, AllReceipts,
               Sharing, Updating, Reading, At
<1> QED BY <1>1, <1>2, <1>3, <1>4, <1>5, <1>6, <1>7, <1>8, <1>9, <1>10, <1>11,
           <1>12, <1>13, <1>14, <1>15 DEF Next

LEMMA InvHolds == Spec => []IInv
BY InvInit, InvStep, PTL DEF Spec

(* No read and no send swallows a message it was not granted on, or counts  *)
(* one twice, however many run at once.                                     *)
THEOREM CountsAreExact == Spec => []CountsExact
<1>1. IInv => CountsExact
  BY DEF IInv, TypeOK, ChatType, AllCounts, CountsExact
<1> QED BY <1>1, InvHolds, PTL

(* Whoever reads or answers a message is shown to have read it.             *)
THEOREM ReceiptsAlwaysCover == Spec => []ReceiptsCover
<1>1. IInv => ReceiptsCover
  BY DEF IInv, TypeOK, ChatType, AllReceipts, ReceiptsCover
<1> QED BY <1>1, InvHolds, PTL

(* No step takes a participant's receipt back.                              *)
THEOREM ReceiptsOnlyAdvance == Spec => ReceiptsAdvance
<1> DEFINE Advance ==
      [\A u \in members \intersect members' : lastRead[u] <= lastRead'[u]]_vars
<1>1. IInv /\ [Next]_vars => Advance
  <2> SUFFICES ASSUME IInv, [Next]_vars,
                      NEW u \in members \intersect members', lastRead'[u] # lastRead[u]
               PROVE  lastRead[u] <= lastRead'[u]
    BY Numbers DEF IInv, TypeOK, ChatType
  <2> u \in Users
    BY DEF IInv, TypeOK, ChatType
  <2>1. ASSUME NEW r \in Requests, SendCommit(r) PROVE lastRead[u] <= lastRead'[u]
    <3>1. lastRead'[u] = request[r].stamp
      BY <2>1 DEF SendCommit
    <3> QED BY <2>1, <3>1 DEF IInv, Current, Updating, At, SendCommit
  <2>2. ASSUME NEW r \in Requests, ReadCommit(r) PROVE lastRead[u] <= lastRead'[u]
    <3>1. lastRead'[u] = request[r].stamp /\ request[r].stamp # 0
      BY <2>2 DEF ReadCommit, IInv, TypeOK, ParticipantsType
    <3> QED BY <2>2, <3>1 DEF IInv, Current, Reading, At, ReadCommit
  <2>3. ASSUME NEW v \in Users, Leave(v) PROVE lastRead[u] <= lastRead'[u]
    BY <2>3 DEF Leave, IInv, TypeOK, ParticipantsType
  <2>4. CASE lastRead' = lastRead
    BY <2>4
  <2> QED BY <2>1, <2>2, <2>3, <2>4
          DEF Next, Tick, BlockUser, UnblockUser, Join, SendCreate, ReadLock, HideStamp,
              SendInsert, SendUpdateChat, HideWrite, Fail, vars, columns
<1> QED BY <1>1, InvHolds, PTL DEF Spec, ReceiptsAdvance

LEMMA LastKeptStep == TypeOK /\ LastKept /\ [Next]_vars => LastKept'
<1> SUFFICES ASSUME TypeOK, LastKept, [Next]_vars PROVE LastKept'
  OBVIOUS
<1>1. ASSUME NEW r \in Requests, SendCommit(r) PROVE LastKept'
  <2>1. Len(log) \in Nat
    BY DEF TypeOK, ChatType
  <2>2. /\ log' = Append(log, [by |-> request[r].user, at |-> request[r].created])
        /\ lastAt' = request[r].created
    BY <1>1 DEF SendCommit
  <2>3. Len(log') = Len(log) + 1 /\ log'[Len(log')].at = request[r].created
    BY <2>2 DEF TypeOK, ChatType
  <2> QED BY <2>1, <2>2, <2>3 DEF LastKept
<1>2. ASSUME NEW u \in Users, Join(u) \/ Leave(u) PROVE LastKept'
  BY <1>2 DEF LastKept, Join, Leave
<1>3. CASE UNCHANGED <<kind, log, lastAt>>
  BY <1>3 DEF LastKept
<1> QED BY <1>1, <1>2, <1>3
        DEF Next, Tick, BlockUser, UnblockUser, SendCreate, ReadLock, HideStamp,
            SendInsert, SendUpdateChat, ReadCommit, HideWrite, Fail, vars, columns

LEMMA LastAlwaysKept == Spec => []LastKept
<1>1. Init => LastKept
  BY DEF Init, LastKept
<1> QED BY <1>1, TypeInit, TypeStep, LastKeptStep, PTL DEF Spec

(* A chat in the list opens on a message: its last one, which is the one    *)
(* GetChats compared with hidden_at.                                        *)
THEOREM ListedAlwaysOpens == Spec => []ListedHasMessages
<1>3. TypeOK /\ LastKept => ListedHasMessages
  <2> SUFFICES ASSUME TypeOK, LastKept, kind = "private",
                      NEW u \in members, Listed(u)
               PROVE  \E i \in 1..Len(log) : Shown(u, i)
    BY DEF ListedHasMessages
  <2>1. /\ Len(log) \in Nat /\ lastAt \in Nat /\ hidden[u] \in Nat
        /\ Len(log) # 0 /\ lastAt = log[Len(log)].at
    BY MessagingAssumption
       DEF LastKept, Listed, TypeOK, ChatType, ParticipantsType
  <2>2. Shown(u, Len(log))
    BY <2>1 DEF Listed, Shown
  <2> QED BY <2>1, <2>2
<1> QED BY <1>3, TypeCorrect, LastAlwaysKept, PTL

-----------------------------------------------------------------------------
(* A commit by another adds itself to what is missed; whoever commits or    *)
(* reads under the lock has seen the whole log, and misses nothing more.    *)
LEMMA LastMissedStep == IInv /\ LastMissed /\ [Next]_vars => LastMissed'
<1> SUFFICES ASSUME IInv, LastMissed, [Next]_vars PROVE LastMissed'
  OBVIOUS
<1>0. TypeOK /\ missed \in [Users -> SUBSET (1..Len(log))] /\ Len(log) \in Nat
  BY DEF IInv, TypeOK, HistoryType, ChatType
<1>1. ASSUME NEW r \in Requests, SendCommit(r) PROVE LastMissed'
  <2>1. Len(log') = Len(log) + 1
    BY <1>0, <1>1 DEF SendCommit, TypeOK, ChatType
  <2>2. ASSUME NEW u \in Users, missed'[u] # {} PROVE u \in members /\ Len(log') \in missed'[u]
    <3>1. CASE u \in members \ {request[r].user}
      BY <1>1, <2>1, <3>1 DEF SendCommit
    <3>2. CASE u \in members \intersect {request[r].user}
      <4>1. missed'[u] = missed[u] \ Acknowledged(r, u)
        BY <1>1, <3>2 DEF SendCommit
      <4>2. Acknowledged(r, u) = missed[u]
        BY <1>0, <1>1, Numbers
           DEF Acknowledged, IInv, Current, Updating, At, SendCommit
      <4> QED BY <2>2, <4>1, <4>2
    <3>3. CASE u \notin members
      BY <1>1, <2>2, <3>3 DEF SendCommit, LastMissed
    <3> QED BY <3>1, <3>2, <3>3
  <2> QED BY <1>1, <2>2 DEF LastMissed, SendCommit
<1>2. ASSUME NEW r \in Requests, ReadCommit(r) PROVE LastMissed'
  <2> DEFINE v == request[r].user
  <2>1. Acknowledged(r, v) = missed[v] /\ v \in Users
    BY <1>0, <1>2, Numbers
       DEF Acknowledged, IInv, Current, Reading, At, ReadCommit, TypeOK, RequestType
  <2>2. missed' = [missed EXCEPT ![v] = {}] /\ UNCHANGED <<log, members>>
    BY <1>2, <2>1 DEF ReadCommit
  <2> QED BY <1>0, <2>1, <2>2 DEF LastMissed
<1>3. ASSUME NEW r \in Requests, HideWrite(r) PROVE LastMissed'
  BY <1>0, <1>3 DEF LastMissed, HideWrite
<1>4. ASSUME NEW u \in Users, Join(u) \/ Leave(u) PROVE LastMissed'
  BY <1>0, <1>4 DEF LastMissed, Join, Leave, history
<1>5. CASE UNCHANGED <<members, log, missed>>
  BY <1>5 DEF LastMissed
<1> QED BY <1>1, <1>2, <1>3, <1>4, <1>5
        DEF Next, Tick, BlockUser, UnblockUser, SendCreate, ReadLock, HideStamp,
            SendInsert, SendUpdateChat, Fail, vars, history

LEMMA GroupsListedStep == TypeOK /\ GroupsListed /\ [Next]_vars => GroupsListed'
<1> SUFFICES ASSUME TypeOK, GroupsListed, [Next]_vars, kind' = "group" PROVE GroupsListed'
  BY DEF GroupsListed
<1>0. now # 0 /\ request \in [Requests -> RequestRecord]
  BY DEF TypeOK, ChatType, RequestType
<1>1. kind = "group"
  BY DEF Next, Tick, BlockUser, UnblockUser, Join, Leave, SendCreate, ReadLock, HideStamp,
         SendInsert, SendUpdateChat, SendCommit, ReadCommit, HideWrite, Fail, vars
<1>2. /\ \A u \in Users : hidden[u] = 0
      /\ \A r \in Requests : ~At(r, "hiding")
      /\ Len(log) # 0 => lastAt # 0
  BY <1>1 DEF GroupsListed
<1>3. ASSUME NEW r \in Requests, SendCommit(r) PROVE GroupsListed'
  <2>1. request[r].created # 0
    BY <1>3, MessagingAssumption DEF SendCommit, TypeOK, RequestType, At
  <2> QED BY <1>0, <1>2, <1>3, <2>1 DEF SendCommit, GroupsListed, At, Finish, Free
<1>4. ASSUME NEW u \in Users, Join(u) \/ Leave(u) PROVE GroupsListed'
  BY <1>0, <1>2, <1>4 DEF Join, Leave, GroupsListed, At
<1>5. ASSUME NEW r \in Requests, NEW u \in Users,
             SendCreate(r, u) \/ ReadLock(r, u) \/ HideStamp(r, u)
      PROVE  GroupsListed'
  BY <1>0, <1>1, <1>2, <1>5
     DEF SendCreate, ReadLock, HideStamp, GroupsListed, At, columns
<1>6. ASSUME NEW r \in Requests, SendInsert(r) \/ SendUpdateChat(r) PROVE GroupsListed'
  BY <1>0, <1>2, <1>6 DEF SendInsert, SendUpdateChat, GroupsListed, At, RequestRecord, columns
<1>7. ASSUME NEW r \in Requests, ReadCommit(r) \/ HideWrite(r) \/ Fail(r) PROVE GroupsListed'
  BY <1>0, <1>2, <1>7 DEF ReadCommit, HideWrite, Fail, GroupsListed, At, Finish, Free, columns
<1>8. CASE UNCHANGED <<log, columns, request>>
  BY <1>2, <1>8 DEF GroupsListed, At, columns
<1> QED BY <1>3, <1>4, <1>5, <1>6, <1>7, <1>8
        DEF Next, Tick, BlockUser, UnblockUser, vars

(* A chat with unread messages leaves the list only by a HideChat that the  *)
(* last message to commit did not come after: last_message_at is that       *)
(* message's, and whoever missed any message has missed that one.           *)
THEOREM HiddenOnlyWhenOvertaken == Spec => []HiddenOnlyIfOvertaken
<1>1. Init => LastMissed /\ GroupsListed
  BY DEF Init, LastMissed, GroupsListed, At, Free
<1>2. Spec => []LastMissed
  BY <1>1, LastMissedStep, InvHolds, PTL DEF Spec
<1>3. Spec => []GroupsListed
  BY <1>1, GroupsListedStep, TypeCorrect, PTL DEF Spec
<1>4. IInv /\ LastKept /\ LastMissed /\ GroupsListed => HiddenOnlyIfOvertaken
  <2> SUFFICES ASSUME IInv, LastKept, LastMissed, GroupsListed,
                      NEW u \in members, unread[u] > 0, ~Listed(u)
               PROVE  /\ kind = "private" /\ Len(log) \in missed[u]
                      /\ log[Len(log)].at <= hidden[u]
    BY DEF HiddenOnlyIfOvertaken
  <2>1. /\ u \in Users /\ kind \in {"private", "group"} /\ Len(log) \in Nat
        /\ missed[u] \subseteq 1..Len(log) /\ hidden[u] \in Nat /\ lastAt \in Nat
    BY MessagingAssumption DEF IInv, TypeOK, ChatType, ParticipantsType, HistoryType
  <2>2. missed[u] # {}
    <3>1. Cardinality({}) = 0
      BY <2>1, MissedCounts DEF IInv
    <3>2. unread[u] = Cardinality(missed[u]) /\ unread[u] # 0
      BY <2>1, Numbers DEF IInv, AllCounts
    <3> QED BY <3>1, <3>2
  <2>3. Len(log) \in missed[u] /\ Len(log) # 0
    BY <2>1, <2>2 DEF LastMissed
  <2>4. kind = "private"
    BY <2>1, <2>3 DEF GroupsListed, Listed
  <2>5. lastAt = log[Len(log)].at /\ lastAt \in Nat \ {0}
    <3>1. lastAt = log[Len(log)].at
      BY <2>3, <2>4 DEF LastKept
    <3>2. log[Len(log)] \in [by : Users, at : 1..MaxTime]
      BY <2>1, <2>3, ElementOfSeq DEF IInv, TypeOK, ChatType
    <3> QED BY <3>1, <3>2, MessagingAssumption
  <2> QED BY <2>1, <2>3, <2>4, <2>5 DEF Listed
<1> QED BY <1>2, <1>3, <1>4, InvHolds, LastAlwaysKept, PTL
=============================================================================
