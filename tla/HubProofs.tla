----------------------------- MODULE HubProofs -----------------------------
(***************************************************************************)
(* What holds of the hub for any number of users, processes, connections   *)
(* and any capacity of its queues, by itself and composed with handshakes   *)
(* and logouts.                                                            *)
(***************************************************************************)
EXTENDS SocketLogout, FiniteSetTheorems, SequenceTheorems, TLAPS

(* What close(client.Send) and a `go' statement leave of the types.         *)
LEMMA CloseSendType ==
  ASSUME closes \in [Clients -> Nat], NEW S, CloseSend(S)
  PROVE  closes' \in [Clients -> Nat]
<1>1. closes' = [c \in Clients |-> IF c \in S THEN closes[c] + 1 ELSE closes[c]]
  BY DEF CloseSend
<1>2. \A c \in Clients : (IF c \in S THEN closes[c] + 1 ELSE closes[c]) \in Nat
  OBVIOUS
<1> QED BY <1>1, <1>2

LEMMA SpawnType ==
  ASSUME tasks \in [Users -> [Tasks -> Nat]], NEW u \in Users, NEW K, Spawn(u, K)
  PROVE  tasks' \in [Users -> [Tasks -> Nat]]
<1> DEFINE t == [k \in Tasks |-> IF k \in K THEN tasks[u][k] + 1 ELSE tasks[u][k]]
<1>1. tasks' = [tasks EXCEPT ![u] = t]
  BY DEF Spawn
<1>2. tasks[u] \in [Tasks -> Nat]
  OBVIOUS
<1>3. \A k \in Tasks : (IF k \in K THEN tasks[u][k] + 1 ELSE tasks[u][k]) \in Nat
  BY <1>2
<1>4. t \in [Tasks -> Nat]
  BY <1>3
<1> QED BY <1>1, <1>4

(* What Deliver adds to Unregister are connections of the user it delivers  *)
(* to, as many as that queue has room for.                                  *)
LEMMA DeliverQueues ==
  ASSUME TypeOK, NEW p \in Processes, NEW u \in Users, Deliver(p, u)
  PROVE  \E s \in Seq(userClients[p][u]) :
           /\ unregister' = [unregister EXCEPT ![p] = @ \o s]
           /\ Len(unregister[p]) + Len(s) <= QueueCap
<1> DEFINE full == {c \in userClients[p][u] : buffered[c] = SendCap}
           room == QueueCap - Len(unregister[p])
           k == IF Cardinality(full) <= room THEN Cardinality(full) ELSE room
<1>1. PICK s \in [1..k -> full] : unregister' = [unregister EXCEPT ![p] = @ \o s]
  BY DEF Deliver
<1>2. full \subseteq userClients[p][u] /\ full \subseteq Clients
  BY DEF TypeOK
<1>3. room \in Nat /\ Len(unregister[p]) \in Nat
  BY HubAssumption DEF TypeOK, WithinCapacity
<1>4. Cardinality(full) \in Nat
  BY <1>2, HubAssumption, FS_Subset, FS_CardinalityType
<1> HIDE DEF full
<1>5. k \in Nat /\ k <= room
  BY <1>3, <1>4
<1> HIDE DEF k
<1>6. s \in Seq(full) /\ Len(s) = k
  BY <1>1, <1>5, SeqDef
<1>7. s \in Seq(userClients[p][u])
  BY <1>2, <1>6, SeqMonotonic
<1>8. Len(unregister[p]) + Len(s) <= QueueCap
  BY <1>3, <1>5, <1>6, HubAssumption
<1> HIDE DEF room
<1> QED BY <1>1, <1>7, <1>8

(* The type invariant, capacities of the channels included, holds in every  *)
(* state.                                                                   *)
THEOREM TypeCorrect == Spec => []TypeOK
<1>1. Init => TypeOK
  BY HubAssumption DEF Init, TypeOK, WithinCapacity
<1>2. TypeOK /\ [Next]_vars => TypeOK'
  <2> SUFFICES ASSUME TypeOK, [Next]_vars PROVE TypeOK'
    OBVIOUS
  <2>0. UNCHANGED <<register, unregister>> => WithinCapacity'
    BY DEF TypeOK, WithinCapacity
  <2> USE HubAssumption DEF TypeOK
  <2>1. ASSUME NEW c \in Clients, ServeWS(c) PROVE TypeOK'
    <3>1. WithinCapacity'
      BY <2>1 DEF ServeWS, WithinCapacity
    <3> QED BY <2>1, <3>1 DEF ServeWS
  <2>2. ASSUME NEW c \in Clients,
               PeerLeaves(c) \/ ReadFails(c) \/ WriteEvent(c) \/ WriterEnds(c) \/ Pong(c)
        PROVE  TypeOK'
    <3>1. CASE PeerLeaves(c) BY <2>0, <3>1 DEF PeerLeaves, hub
    <3>2. CASE ReadFails(c) BY <2>0, <3>2 DEF ReadFails, hub
    <3>3. CASE WriteEvent(c) BY <2>0, <3>3 DEF WriteEvent, hub
    <3>4. CASE WriterEnds(c) BY <2>0, <3>4 DEF WriterEnds, hub
    <3>5. CASE Pong(c) BY <2>0, <3>5 DEF Pong, hub, pumps
    <3> QED BY <2>2, <3>1, <3>2, <3>3, <3>4, <3>5
  <2>3. ASSUME NEW c \in Clients, ReaderEnds(c) PROVE TypeOK'
    <3>1. WithinCapacity'
      BY <2>3 DEF ReaderEnds, WithinCapacity
    <3> QED BY <2>3, <3>1 DEF ReaderEnds
  <2>4. ASSUME NEW p \in Processes, RunRegister(p) PROVE TypeOK'
    <3> DEFINE c == Head(register[p])
    <3>1. c \in Clients /\ Tail(register[p]) \in Seq(Clients)
      BY <2>4 DEF RunRegister
    <3>2. userClients' \in [Processes -> [Users -> SUBSET Clients]]
      BY <2>4, <3>1 DEF RunRegister
    <3>3. tasks' \in [Users -> [Tasks -> Nat]]
      BY <2>4, <3>1, SpawnType DEF RunRegister
    <3>4. WithinCapacity'
      BY <2>4 DEF RunRegister, WithinCapacity
    <3> QED BY <2>4, <3>1, <3>2, <3>3, <3>4 DEF RunRegister, pumps
  <2>5. ASSUME NEW p \in Processes, RunUnregister(p) PROVE TypeOK'
    <3> DEFINE c == Head(unregister[p])
    <3>1. c \in Clients /\ Tail(unregister[p]) \in Seq(Clients)
      BY <2>5 DEF RunUnregister
    <3>2. WithinCapacity'
      BY <2>5 DEF RunUnregister, WithinCapacity
    <3>3. CASE c \in clients
      <4>1. CloseSend({c}) /\ Spawn(UserOf[c], IF userClients[p][UserOf[c]] = {c} THEN {"offline"} ELSE {})
        BY <2>5, <3>3 DEF RunUnregister
      <4>2. tasks' \in [Users -> [Tasks -> Nat]]
        BY <3>1, <4>1, SpawnType
      <4>3. closes' \in [Clients -> Nat]
        BY <4>1, CloseSendType
      <4>4. userClients' \in [Processes -> [Users -> SUBSET Clients]]
        <5>1. userClients' = [userClients EXCEPT ![p][UserOf[c]] = @ \ {c}]
          BY <2>5, <3>3 DEF RunUnregister
        <5> HIDE DEF c
        <5> QED BY <3>1, <5>1
      <4> QED BY <2>5, <3>1, <3>3, <3>2, <4>2, <4>3, <4>4 DEF RunUnregister
    <3>4. CASE c \notin clients
      BY <2>5, <3>1, <3>4, <3>2 DEF RunUnregister
    <3> QED BY <3>3, <3>4
  <2>6. ASSUME NEW p \in Processes, NEW u \in Users, DisconnectUser(p, u) PROVE TypeOK'
    <3>1. tasks' \in [Users -> [Tasks -> Nat]]
      BY <2>6, SpawnType DEF DisconnectUser
    <3>2. closes' \in [Clients -> Nat]
      BY <2>6, CloseSendType DEF DisconnectUser
    <3> QED BY <2>0, <2>6, <3>1, <3>2 DEF DisconnectUser
  <2>7. ASSUME NEW p \in Processes, NEW u \in Users, Deliver(p, u) PROVE TypeOK'
    <3>1. unregister' \in [Processes -> Seq(Clients)] /\ WithinCapacity'
      <4>1. PICK s \in Seq(userClients[p][u]) :
              /\ unregister' = [unregister EXCEPT ![p] = @ \o s]
              /\ Len(unregister[p]) + Len(s) <= QueueCap
        BY <2>7, DeliverQueues
      <4>2. s \in Seq(Clients)
        BY SeqMonotonic
      <4>3. Len(unregister[p] \o s) <= QueueCap
        BY <4>1, <4>2
      <4>4. register' = register
        BY <2>7 DEF Deliver
      <4> QED BY <4>1, <4>2, <4>3, <4>4 DEF WithinCapacity
    <3>2. buffered' \in [Clients -> 0..SendCap]
      BY <2>7 DEF Deliver
    <3> QED BY <2>7, <3>1, <3>2 DEF Deliver
  <2>8. ASSUME NEW u \in Users, Expire(u) \/ \E k \in Tasks : RunTask(u, k) PROVE TypeOK'
    <3>1. CASE Expire(u) BY <2>0, <3>1 DEF Expire, hub, pumps
    <3>2. ASSUME NEW k \in Tasks, RunTask(u, k) PROVE TypeOK'
      BY <2>0, <3>2 DEF RunTask, hub, pumps, Tasks
    <3> QED BY <2>8, <3>1, <3>2
  <2>9. CASE UNCHANGED vars
    BY <2>0, <2>9 DEF vars, hub, pumps
  <2> QED
    BY <2>1, <2>2, <2>3, <2>4, <2>5, <2>6, <2>7, <2>8, <2>9 DEF Next, ClientStep, HubStep
<1> QED BY <1>1, <1>2, PTL DEF Spec

-----------------------------------------------------------------------------
(* NoPanic is not inductive: that Run may register a connection rests on it *)
(* having waited in Register only once, and that Unregister finds the right *)
(* map on MapsAgree.                                                        *)
LEMMA InitHubInv == Init => HubInv
<1>1. Init => TypeOK
  BY HubAssumption DEF Init, TypeOK, WithinCapacity
<1> QED
  BY <1>1 DEF Init, HubInv, TypeOK, MapsAgree, NoPanic, WaitsToRegister, WaitsOnce,
              WaitsAtHome, NewUntouched, OpenInMaps

(* MapsAgree and OpenInMaps give the second half of NoPanic.                *)
LEMMA MapsGiveNoPanic ==
  ASSUME MapsAgree, OpenInMaps, \A c \in Clients : closes[c] <= 1
  PROVE  NoPanic
BY DEF MapsAgree, OpenInMaps, NoPanic

(* Steps that touch neither queue nor map, close nothing, and open nothing. *)
LEMMA QuietSteps ==
  ASSUME HubInv, UNCHANGED <<home, hub, closes>>,
         \A c \in Clients : conn'[c] = "none" <=> conn[c] = "none",
         \A c \in Clients : conn[c] = "none" => reader'[c] = "none" /\ writer'[c] = "none"
  PROVE  HubInv' \/ ~TypeOK'
<1> SUFFICES ASSUME TypeOK' PROVE HubInv'
  OBVIOUS
<1> USE DEF HubInv, hub
<1>1. MapsAgree' /\ NoPanic' /\ OpenInMaps'
  BY DEF MapsAgree, OpenInMaps, NoPanic
<1>2. WaitsOnce' /\ WaitsAtHome'
  BY DEF WaitsOnce, WaitsAtHome
<1>3. NewUntouched'
  BY DEF NewUntouched
<1>4. WaitsToRegister'
  <2>1. \A p \in Processes : \A i \in 1..Len(register[p]) : register[p][i] \in Clients
    BY DEF TypeOK
  <2> QED BY <2>1 DEF WaitsToRegister, Queued
<1> QED BY <1>1, <1>2, <1>3, <1>4

LEMMA ServeWSKeeps ==
  ASSUME HubInv, TypeOK', NEW c \in Clients, ServeWS(c)
  PROVE  HubInv'
<1> DEFINE h == home[c]
           n == Len(register[h])
<1>1. /\ register[h] \in Seq(Clients) /\ h \in Processes
      /\ register'[h] = Append(register[h], c)
      /\ \A q \in Processes \ {h} : register'[q] = register[q]
      /\ conn[c] = "none" /\ c \notin clients /\ closes[c] = 0 /\ conn'[c] = "open"
      /\ \A d \in Clients \ {c} :
           conn'[d] = conn[d] /\ reader'[d] = reader[d] /\ writer'[d] = writer[d]
      /\ UNCHANGED <<home, unregister, clients, userClients, closes>>
  BY DEF ServeWS, HubInv, TypeOK, NewUntouched
<1>2. /\ n \in Nat /\ Len(register'[h]) = n + 1 /\ register'[h][n + 1] = c
      /\ \A j \in 1..n : register'[h][j] = register[h][j] /\ register[h][j] \in Clients
  BY <1>1, AppendProperties
<1>3. MapsAgree' /\ OpenInMaps' /\ NoPanic' /\ WaitsAtHome'
  BY <1>1 DEF HubInv, MapsAgree, OpenInMaps, NoPanic, WaitsAtHome
<1>4. NewUntouched'
  BY <1>1 DEF HubInv, NewUntouched
<1>5. \A j \in 1..n : Queued(h, register[h][j]) /\ register[h][j] # c
  BY <1>1 DEF HubInv, WaitsToRegister, Queued
<1>6. \A d \in Clients, q \in Processes : Queued(q, d) => Queued(q, d)'
  BY <1>1 DEF Queued
<1>7. home'[c] = h /\ conn'[c] # "none" /\ c \notin clients' /\ closes'[c] = 0
  BY <1>1
<1> HIDE DEF h, n
<1>8. WaitsToRegister'
  <2>1. ASSUME NEW q \in Processes, NEW i \in 1..Len(register'[q]) PROVE Queued(q, register[q][i])'
    <3>1. CASE q # h
      <4>1. register'[q] = register[q] /\ register[q] \in Seq(Clients)
        BY <1>1, <3>1 DEF HubInv, TypeOK
      <4>2. register[q][i] \in Clients /\ Queued(q, register[q][i])
        BY <2>1, <4>1 DEF HubInv, WaitsToRegister
      <4> QED BY <1>6, <4>1, <4>2
    <3>2. CASE q = h /\ i = n + 1
      <4>1. register'[q][i] = c
        BY <1>2, <3>2
      <4> QED BY <1>7, <3>2, <4>1 DEF Queued
    <3>3. CASE q = h /\ i # n + 1
      <4>1. i \in 1..n
        BY <1>2, <2>1, <3>3
      <4> QED BY <1>1, <1>2, <1>5, <1>6, <3>3, <4>1
    <3> QED BY <3>1, <3>2, <3>3
  <2> QED BY <2>1 DEF WaitsToRegister
<1>9. WaitsOnce'
  <2>1. ASSUME NEW q \in Processes, NEW i \in 1..Len(register'[q]), NEW j \in 1..Len(register'[q]),
               register'[q][i] = register'[q][j]
        PROVE  i = j
    <3>1. CASE q # h
      BY <1>1, <2>1, <3>1 DEF HubInv, WaitsOnce
    <3>2. CASE q = h
      <4>1. i \in 1..(n + 1) /\ j \in 1..(n + 1)
        BY <1>2, <2>1, <3>2
      <4>2. \A k, l \in 1..n : register[h][k] = register[h][l] => k = l
        BY <1>1 DEF HubInv, WaitsOnce, n
      <4> QED BY <1>2, <1>5, <2>1, <3>2, <4>1, <4>2
    <3> QED BY <3>1, <3>2
  <2> QED BY <2>1 DEF WaitsOnce
<1> QED BY <1>3, <1>4, <1>8, <1>9 DEF HubInv

LEMMA RunRegisterKeeps ==
  ASSUME HubInv, TypeOK', NEW p \in Processes, RunRegister(p)
  PROVE  HubInv'
<1> DEFINE c == Head(register[p])
           n == Len(register[p])
           T == Tail(register[p])
<1>1. /\ register[p] \in Seq(Clients) /\ register[p] # <<>>
      /\ register'[p] = T
      /\ \A q \in Processes \ {p} : register'[q] = register[q]
      /\ clients' = clients \cup {c}
      /\ userClients' = [userClients EXCEPT ![p][UserOf[c]] = @ \cup {c}]
      /\ UNCHANGED <<home, unregister, conn, closes, reader, writer>>
  BY DEF RunRegister, HubInv, TypeOK, pumps
<1>2. /\ n \in Nat \ {0} /\ Len(T) = n - 1 /\ c = register[p][1]
      /\ \A j \in 1..(n - 1) : T[j] = register[p][j + 1]
  BY <1>1, HeadTailProperties, EmptySeq
<1>3. c \in Clients /\ Queued(p, c) /\ UserOf[c] \in Users
  BY <1>1, <1>2, HubAssumption DEF HubInv, WaitsToRegister
<1> HIDE DEF c, n, T
<1>4. OpenInMaps' /\ WaitsAtHome'
  BY <1>1, <1>3 DEF HubInv, OpenInMaps, WaitsAtHome, Queued
<1>5. NewUntouched'
  BY <1>1, <1>3 DEF HubInv, NewUntouched, Queued
<1>6. MapsAgree'
  <2>1. ASSUME NEW q \in Processes, NEW u \in Users
        PROVE  userClients'[q][u] = {d \in clients' : home'[d] = q /\ UserOf[d] = u}
    <3>1. userClients \in [Processes -> [Users -> SUBSET Clients]]
      BY DEF HubInv, TypeOK
    <3>2. userClients[q][u] = {d \in clients : home[d] = q /\ UserOf[d] = u}
      BY DEF HubInv, MapsAgree
    <3>3. CASE q = p /\ u = UserOf[c]
      BY <1>1, <1>3, <3>1, <3>2, <3>3 DEF Queued
    <3>4. CASE ~(q = p /\ u = UserOf[c])
      <4>1. userClients'[q][u] = userClients[q][u]
        BY <1>1, <1>3, <3>1, <3>4
      <4> QED BY <1>1, <1>3, <3>2, <3>4, <4>1 DEF Queued
    <3> QED BY <3>3, <3>4
  <2> QED BY <2>1 DEF MapsAgree
<1>7. NoPanic'
  BY <1>1, <1>4, <1>6 DEF HubInv, NoPanic, MapsAgree, OpenInMaps
<1>8. \A j \in 1..(n - 1) : j + 1 \in 1..n /\ j + 1 # 1
  BY <1>2
<1>9. WaitsToRegister'
  <2>1. ASSUME NEW q \in Processes, NEW i \in 1..Len(register'[q]) PROVE Queued(q, register[q][i])'
    <3>1. CASE q # p
      <4>1. register'[q] = register[q] /\ register[q] \in Seq(Clients)
        BY <1>1, <3>1 DEF HubInv, TypeOK
      <4>2. register[q][i] \in Clients /\ Queued(q, register[q][i])
        BY <2>1, <4>1 DEF HubInv, WaitsToRegister
      <4>3. register[q][i] # c
        BY <1>3, <3>1, <4>2 DEF Queued
      <4> QED BY <1>1, <4>1, <4>2, <4>3 DEF Queued
    <3>2. CASE q = p
      <4>1. i \in 1..(n - 1) /\ register'[q][i] = register[p][i + 1]
        BY <1>1, <1>2, <2>1, <3>2
      <4>2. i + 1 \in 1..n /\ i + 1 # 1
        BY <1>8, <4>1
      <4>3. Queued(p, register[p][i + 1])
        BY <4>2 DEF HubInv, WaitsToRegister, n
      <4>4. register[p][i + 1] # c
        BY <1>2, <4>2 DEF HubInv, WaitsOnce, n
      <4> QED BY <1>1, <3>2, <4>1, <4>3, <4>4 DEF Queued
    <3> QED BY <3>1, <3>2
  <2> QED BY <2>1 DEF WaitsToRegister
<1>10. WaitsOnce'
  <2>1. ASSUME NEW q \in Processes, NEW i \in 1..Len(register'[q]), NEW j \in 1..Len(register'[q]),
               register'[q][i] = register'[q][j]
        PROVE  i = j
    <3>1. CASE q # p
      BY <1>1, <2>1, <3>1 DEF HubInv, WaitsOnce
    <3>2. CASE q = p
      <4>1. /\ i \in 1..(n - 1) /\ register'[q][i] = register[p][i + 1]
            /\ j \in 1..(n - 1) /\ register'[q][j] = register[p][j + 1]
        BY <1>1, <1>2, <2>1, <3>2
      <4>2. i + 1 \in 1..n /\ j + 1 \in 1..n
        BY <1>8, <4>1
      <4>3. i + 1 = j + 1
        BY <2>1, <4>1, <4>2 DEF HubInv, WaitsOnce, n
      <4> QED BY <1>2, <4>1, <4>3
    <3> QED BY <3>1, <3>2
  <2> QED BY <2>1 DEF WaitsOnce
<1> QED BY <1>4, <1>5, <1>6, <1>7, <1>9, <1>10 DEF HubInv

(* Removing registered connections S from both maps and closing their Send, *)
(* as RunUnregister and DisconnectUser do, keeps everything but WaitsAtHome *)
(* whatever happens to Unregister and to the connections of S.              *)
LEMMA RemovalKeeps ==
  ASSUME HubInv, NEW S \in SUBSET clients,
         UNCHANGED <<home, register, reader, writer>>,
         clients' = clients \ S, CloseSend(S),
         \A c \in Clients : c \notin S => conn'[c] = conn[c],
         \A c \in S : conn'[c] # "none",
         \A p \in Processes, u \in Users : userClients'[p][u] = userClients[p][u] \ S
  PROVE  MapsAgree' /\ NoPanic' /\ WaitsToRegister' /\ WaitsOnce' /\ NewUntouched' /\ OpenInMaps'
<1>1. /\ \A c \in Clients \ S : closes'[c] = closes[c]
      /\ \A c \in S : c \in Clients /\ closes[c] = 0 /\ closes'[c] = 1
  BY DEF CloseSend, HubInv, TypeOK, OpenInMaps
<1>2. OpenInMaps' /\ NewUntouched'
  BY <1>1 DEF HubInv, TypeOK, OpenInMaps, NewUntouched
<1>3. MapsAgree'
  BY DEF HubInv, MapsAgree
<1>4. NoPanic'
  <2>1. \A c \in Clients : closes'[c] <= 1
    BY <1>1 DEF HubInv, NoPanic
  <2> QED BY <1>2, <1>3, <2>1 DEF NoPanic, MapsAgree, OpenInMaps
<1>5. WaitsOnce'
  BY DEF HubInv, WaitsOnce
<1>6. WaitsToRegister'
  <2>1. ASSUME NEW p \in Processes, NEW i \in 1..Len(register[p])
        PROVE  register[p][i] \in Clients /\ Queued(p, register[p][i])
    BY <2>1 DEF HubInv, TypeOK, WaitsToRegister
  <2>2. \A p \in Processes, c \in Clients : Queued(p, c) => Queued(p, c)'
    BY <1>1 DEF Queued
  <2> QED BY <2>1, <2>2 DEF WaitsToRegister, Queued
<1> QED BY <1>2, <1>3, <1>4, <1>5, <1>6

LEMMA RunUnregisterKeeps ==
  ASSUME HubInv, TypeOK', NEW p \in Processes, RunUnregister(p)
  PROVE  HubInv'
<1> DEFINE c == Head(unregister[p])
           T == Tail(unregister[p])
<1>1. /\ unregister[p] \in Seq(Clients) /\ unregister[p] # <<>>
      /\ unregister' = [unregister EXCEPT ![p] = T]
      /\ UNCHANGED <<home, register, conn, reader, writer>>
  BY DEF RunUnregister, HubInv, TypeOK
<1>2. /\ Len(T) = Len(unregister[p]) - 1 /\ c = unregister[p][1] /\ c \in Clients
      /\ Len(unregister[p]) \in Nat \ {0}
      /\ \A j \in 1..Len(T) : T[j] = unregister[p][j + 1]
  BY <1>1, HeadTailProperties, EmptySeq
<1>3. home[c] = p
  BY <1>2 DEF HubInv, WaitsAtHome
<1>4. WaitsAtHome'
  <2>1. ASSUME NEW q \in Processes, NEW i \in 1..Len(unregister'[q])
        PROVE  home[unregister'[q][i]] = q
    <3>1. unregister \in [Processes -> Seq(Clients)]
      BY DEF HubInv, TypeOK
    <3>2. CASE q # p
      BY <1>1, <2>1, <3>1, <3>2 DEF HubInv, WaitsAtHome
    <3>3. CASE q = p
      <4>1. i \in 1..Len(T) /\ unregister'[q][i] = T[i]
        BY <1>1, <2>1, <3>1, <3>3
      <4>2. i + 1 \in 1..Len(unregister[p]) /\ T[i] = unregister[p][i + 1]
        BY <1>2, <4>1
      <4> QED BY <3>3, <4>1, <4>2 DEF HubInv, WaitsAtHome
    <3> QED BY <3>2, <3>3
  <2> QED BY <1>1, <2>1 DEF WaitsAtHome
<1>5. CASE c \notin clients
  <2>1. UNCHANGED <<clients, closes, userClients>>
    BY <1>5 DEF RunUnregister
  <2>2. MapsAgree' /\ NoPanic' /\ WaitsOnce' /\ NewUntouched' /\ OpenInMaps' /\ WaitsToRegister'
    BY <1>1, <2>1 DEF HubInv, MapsAgree, NoPanic, WaitsOnce, NewUntouched, OpenInMaps,
                      WaitsToRegister, Queued
  <2> QED BY <1>4, <2>2 DEF HubInv
<1>6. CASE c \in clients
  <2>1. /\ clients' = clients \ {c} /\ CloseSend({c})
        /\ userClients' = [userClients EXCEPT ![p][UserOf[c]] = @ \ {c}]
    BY <1>6 DEF RunUnregister
  <2> HIDE DEF c
  <2>2. userClients \in [Processes -> [Users -> SUBSET Clients]] /\ UserOf[c] \in Users
    BY <1>2, HubAssumption DEF HubInv, TypeOK
  <2>3. \A q \in Processes, u \in Users :
          c \in userClients[q][u] => q = p /\ u = UserOf[c]
    BY <1>3 DEF HubInv, MapsAgree
  <2>4. \A q \in Processes, u \in Users : userClients'[q][u] = userClients[q][u] \ {c}
    BY <2>1, <2>2, <2>3
  <2>5. conn[c] # "none"
    BY <1>2, <1>6 DEF HubInv, NewUntouched
  <2> QED BY <1>1, <1>4, <1>6, <2>1, <2>4, <2>5, RemovalKeeps DEF HubInv
<1> QED BY <1>5, <1>6

LEMMA DisconnectUserKeeps ==
  ASSUME HubInv, TypeOK', NEW p \in Processes, NEW u \in Users, DisconnectUser(p, u)
  PROVE  HubInv'
<1> DEFINE S == userClients[p][u]
<1>1. /\ clients' = clients \ S /\ CloseSend(S)
      /\ conn' = [c \in Clients |-> IF c \in S THEN "closed" ELSE conn[c]]
      /\ userClients' = [userClients EXCEPT ![p][u] = {}]
      /\ UNCHANGED <<home, register, unregister, reader, writer>>
  BY DEF DisconnectUser
<1>2. S \subseteq clients /\ clients \subseteq Clients
  BY DEF HubInv, MapsAgree, TypeOK
<1>3. \A q \in Processes, v \in Users : userClients'[q][v] = userClients[q][v] \ S
  <2>1. userClients \in [Processes -> [Users -> SUBSET Clients]]
    BY DEF HubInv, TypeOK
  <2>2. \A q \in Processes, v \in Users :
          userClients[q][v] = {c \in clients : home[c] = q /\ UserOf[c] = v}
    BY DEF HubInv, MapsAgree
  <2> QED BY <1>1, <2>1, <2>2
<1>4. WaitsAtHome'
  BY <1>1 DEF HubInv, WaitsAtHome
<1>5. /\ \A c \in Clients : c \notin S => conn'[c] = conn[c]
      /\ \A c \in S : conn'[c] # "none"
  BY <1>1, <1>2
<1> HIDE DEF S
<1> QED BY <1>1, <1>2, <1>3, <1>4, <1>5, RemovalKeeps DEF HubInv

(* Deliver and ReadPump's end put connections of p into Unregister of p.    *)
LEMMA DeliverKeeps ==
  ASSUME HubInv, TypeOK', NEW p \in Processes, NEW u \in Users, Deliver(p, u)
  PROVE  HubInv'
<1>1. PICK s \in Seq(userClients[p][u]) : unregister' = [unregister EXCEPT ![p] = @ \o s]
  BY DeliverQueues DEF HubInv
<1>2. UNCHANGED <<home, register, clients, userClients, conn, closes, reader, writer>>
  BY DEF Deliver
<1>3. /\ unregister \in [Processes -> Seq(Clients)] /\ userClients[p][u] \subseteq Clients
      /\ \A c \in userClients[p][u] : home[c] = p
  BY DEF HubInv, TypeOK, MapsAgree
<1>4. s \in Seq(Clients) /\ \A i \in 1..Len(s) : home[s[i]] = p
  <2>1. \A i \in 1..Len(s) : s[i] \in userClients[p][u]
    BY <1>1, ElementOfSeq
  <2> QED BY <1>1, <1>3, <2>1, SeqMonotonic
<1>5. WaitsAtHome'
  <2>1. ASSUME NEW q \in Processes, NEW i \in 1..Len(unregister'[q])
        PROVE  home[unregister'[q][i]] = q
    <3>1. CASE q # p
      BY <1>1, <1>3, <2>1, <3>1 DEF HubInv, WaitsAtHome
    <3>2. CASE q = p
      <4>1. unregister'[p] = unregister[p] \o s /\ unregister[p] \in Seq(Clients)
        BY <1>1, <1>3
      <4>2. CASE i \in 1..Len(unregister[p])
        <5>1. unregister'[p][i] = unregister[p][i]
          BY <1>4, <4>1, <4>2
        <5> QED BY <3>2, <4>2, <5>1 DEF HubInv, WaitsAtHome
      <4>3. CASE i \notin 1..Len(unregister[p])
        <5>1. i - Len(unregister[p]) \in 1..Len(s) /\ unregister'[p][i] = s[i - Len(unregister[p])]
          BY <1>4, <2>1, <3>2, <4>1, <4>3
        <5> QED BY <1>4, <3>2, <5>1
      <4> QED BY <4>2, <4>3
    <3> QED BY <3>1, <3>2
  <2> QED BY <1>2, <2>1 DEF WaitsAtHome
<1>6. MapsAgree' /\ NoPanic' /\ WaitsOnce' /\ NewUntouched' /\ OpenInMaps' /\ WaitsToRegister'
  BY <1>2 DEF HubInv, MapsAgree, NoPanic, WaitsOnce, NewUntouched, OpenInMaps, WaitsToRegister, Queued
<1> QED BY <1>5, <1>6 DEF HubInv

LEMMA ReaderEndsKeeps ==
  ASSUME HubInv, TypeOK', NEW c \in Clients, ReaderEnds(c)
  PROVE  HubInv'
<1> DEFINE h == home[c]
<1>1. /\ unregister \in [Processes -> Seq(Clients)] /\ h \in Processes
      /\ unregister' = [unregister EXCEPT ![h] = Append(@, c)]
      /\ conn' = [conn EXCEPT ![c] = "closed"] /\ conn \in [Clients -> {"none", "open", "closed"}]
      /\ UNCHANGED <<home, register, clients, userClients, closes>>
  BY DEF ReaderEnds, HubInv, TypeOK
<1>2. /\ \A d \in Clients : conn'[d] = "none" <=> conn[d] = "none"
      /\ \A d \in Clients : conn[d] = "none" => reader'[d] = "none" /\ writer'[d] = "none"
  <2>1. conn[c] # "none"
    BY DEF ReaderEnds, HubInv, NewUntouched
  <2>2. writer' = writer /\ \A d \in Clients : d # c => reader'[d] = reader[d]
    BY DEF ReaderEnds, HubInv, TypeOK
  <2> QED BY <1>1, <2>1, <2>2 DEF HubInv, NewUntouched
<1> HIDE DEF h
<1>3. WaitsAtHome'
  <2>1. ASSUME NEW q \in Processes, NEW i \in 1..Len(unregister'[q])
        PROVE  home[unregister'[q][i]] = q
    <3>1. CASE q # h
      BY <1>1, <2>1, <3>1 DEF HubInv, WaitsAtHome
    <3>2. CASE q = h
      <4>1. unregister'[h] = Append(unregister[h], c) /\ unregister[h] \in Seq(Clients)
        BY <1>1
      <4>2. CASE i \in 1..Len(unregister[h])
        <5>1. unregister'[h][i] = unregister[h][i]
          BY <4>1, <4>2
        <5> QED BY <1>1, <3>2, <4>2, <5>1 DEF HubInv, WaitsAtHome
      <4>3. CASE i \notin 1..Len(unregister[h])
        <5>1. unregister'[h][i] = c
          BY <2>1, <3>2, <4>1, <4>3
        <5> QED BY <3>2, <5>1 DEF h
      <4> QED BY <4>2, <4>3
    <3> QED BY <3>1, <3>2
  <2> QED BY <1>1, <2>1 DEF WaitsAtHome
<1>4. MapsAgree' /\ NoPanic' /\ WaitsOnce' /\ OpenInMaps'
  BY <1>1 DEF HubInv, MapsAgree, NoPanic, WaitsOnce, OpenInMaps
<1>5. NewUntouched'
  BY <1>1, <1>2 DEF HubInv, NewUntouched
<1>6. WaitsToRegister'
  <2>1. \A p \in Processes : \A i \in 1..Len(register[p]) : register[p][i] \in Clients
    BY DEF HubInv, TypeOK
  <2> QED BY <1>1, <1>2, <2>1 DEF HubInv, WaitsToRegister, Queued
<1> QED BY <1>3, <1>4, <1>5, <1>6 DEF HubInv

LEMMA NextHubInv == HubInv /\ TypeOK' /\ [Next]_vars => HubInv'
<1> SUFFICES ASSUME HubInv, TypeOK', [Next]_vars PROVE HubInv'
  OBVIOUS
<1>1. ASSUME NEW c \in Clients, ClientStep(c) PROVE HubInv'
  <2>1. CASE ServeWS(c)
    BY <2>1, ServeWSKeeps
  <2>2. CASE ReaderEnds(c)
    BY <2>2, ReaderEndsKeeps
  <2>3. CASE PeerLeaves(c)
    BY <2>3, QuietSteps DEF PeerLeaves, HubInv, TypeOK, NewUntouched
  <2>4. CASE Pong(c)
    BY <2>4, QuietSteps DEF Pong, pumps, HubInv, NewUntouched
  <2>5. CASE ReadFails(c)
    BY <2>5, QuietSteps DEF ReadFails, HubInv, TypeOK, NewUntouched
  <2>6. CASE WriteEvent(c)
    BY <2>6, QuietSteps DEF WriteEvent, HubInv, NewUntouched
  <2>7. CASE WriterEnds(c)
    <3>1. conn[c] # "none"
      BY <2>7 DEF WriterEnds, HubInv, NewUntouched
    <3> QED BY <2>7, <3>1, QuietSteps DEF WriterEnds, HubInv, TypeOK, NewUntouched
  <2> QED BY <1>1, <2>1, <2>2, <2>3, <2>4, <2>5, <2>6, <2>7 DEF ClientStep
<1>2. ASSUME NEW p \in Processes, HubStep(p) PROVE HubInv'
  BY <1>2, RunRegisterKeeps, RunUnregisterKeeps, DisconnectUserKeeps, DeliverKeeps DEF HubStep
<1>3. ASSUME NEW u \in Users, Expire(u) \/ \E k \in Tasks : RunTask(u, k) PROVE HubInv'
  BY <1>3, QuietSteps DEF Expire, RunTask, pumps, HubInv, NewUntouched
<1>4. CASE UNCHANGED vars
  BY <1>4, QuietSteps DEF vars, pumps, HubInv, NewUntouched
<1> QED BY <1>1, <1>2, <1>3, <1>4 DEF Next

(* No order of overflows, failed reads and revocations makes a hub close a  *)
(* Send twice or send on a closed one, with any number of connections.      *)
THEOREM HubNeverPanics == Spec => []NoPanic
<1>1. Spec => []HubInv
  BY InitHubInv, NextHubInv, TypeCorrect, PTL DEF Spec
<1>2. HubInv => NoPanic
  BY DEF HubInv
<1> QED BY <1>1, <1>2, PTL

-----------------------------------------------------------------------------
(* A registered connection that is not stranded and stays registered is not *)
(* stranded by the step: whoever's head of Unregister goes, it goes out of  *)
(* the maps, and ReadPump queues what it ends.                              *)
LEMMA LeavingStays ==
  ASSUME TypeOK, NEW p \in Processes, NEW c \in Clients, NEW s \in Seq(Clients),
         unregister' = [unregister EXCEPT ![p] = @ \o s], home' = home, Leaving(c)
  PROVE  Leaving(c)'
<1> DEFINE h == home[c]
<1>1. h \in Processes /\ unregister \in [Processes -> Seq(Clients)]
  BY DEF TypeOK
<1>2. PICK i \in 1..Len(unregister[h]) : unregister[h][i] = c
  BY DEF Leaving
<1> HIDE DEF h
<1>3. i \in 1..Len(unregister'[h]) /\ unregister'[h][i] = c
  <2>1. CASE h # p
    BY <1>1, <1>2, <2>1
  <2>2. CASE h = p
    <3>1. unregister'[h] = unregister[h] \o s
      BY <1>1, <2>2
    <3> QED BY <1>1, <1>2, <3>1
  <2> QED BY <2>1, <2>2
<1> QED BY <1>3 DEF Leaving, h

(* RunUnregister takes the head: the others keep their place in the queue.  *)
LEMMA LeavingBehindHead ==
  ASSUME TypeOK, NEW p \in Processes, NEW c \in Clients, RunUnregister(p),
         c \in clients', Leaving(c)
  PROVE  Leaving(c)'
<1> DEFINE h == home[c]
<1>1. /\ h \in Processes /\ unregister \in [Processes -> Seq(Clients)] /\ home' = home
      /\ unregister[p] # <<>> /\ unregister' = [unregister EXCEPT ![p] = Tail(@)]
      /\ clients' = IF Head(unregister[p]) \in clients
                    THEN clients \ {Head(unregister[p])} ELSE clients
  BY DEF TypeOK, RunUnregister
<1>2. PICK i \in 1..Len(unregister[h]) : unregister[h][i] = c
  BY DEF Leaving
<1> HIDE DEF h
<1>3. CASE h # p
  <2>1. unregister'[h] = unregister[h]
    BY <1>1, <1>3
  <2> QED BY <1>1, <1>2, <2>1 DEF Leaving, h
<1>4. CASE h = p
  <2>1. Head(unregister[p]) = unregister[p][1] /\ Head(unregister[p]) # c
    BY <1>1
  <2>2. /\ Len(Tail(unregister[p])) = Len(unregister[p]) - 1 /\ Len(unregister[p]) \in Nat
        /\ \A j \in 1..Len(Tail(unregister[p])) : Tail(unregister[p])[j] = unregister[p][j + 1]
    BY <1>1, HeadTailProperties
  <2>3. i - 1 \in 1..Len(Tail(unregister[p]))
    BY <1>2, <1>4, <2>1, <2>2
  <2>4. Tail(unregister[p])[i - 1] = c
    BY <1>2, <1>4, <2>2, <2>3
  <2>5. unregister'[h] = Tail(unregister[p])
    BY <1>1, <1>4
  <2> QED BY <1>1, <2>3, <2>4, <2>5 DEF Leaving, h
<1> QED BY <1>3, <1>4

(* Only a registration that comes after the end of a connection's ReadPump  *)
(* strands it in the hub, with any number of connections and any capacity.  *)
THEOREM NoneStrandedInHub == Spec => NoneStranded
<1>1. ASSUME TypeOK, [Next]_vars, NEW c \in Clients, c \in clients, Stranded(c)'
      PROVE  Stranded(c)
  <2>1. c \in clients' /\ reader'[c] = "done" /\ ~Leaving(c)'
    BY <1>1 DEF Stranded
  <2>2. SUFFICES reader[c] = "done" /\ ~Leaving(c)
    BY <1>1 DEF Stranded
  <2>3. ASSUME UNCHANGED <<home, unregister, reader>> PROVE reader[c] = "done" /\ ~Leaving(c)
    BY <2>1, <2>3 DEF Leaving
  <2>4. ASSUME NEW d \in Clients, ClientStep(d) PROVE reader[c] = "done" /\ ~Leaving(c)
    <3>1. CASE ReaderEnds(d)
      <4> DEFINE h == home[d]
      <4>1. /\ h \in Processes /\ unregister[h] \in Seq(Clients) /\ home' = home
            /\ unregister' = [unregister EXCEPT ![h] = Append(@, d)]
            /\ reader' = [reader EXCEPT ![d] = "done"]
        BY <1>1, <3>1 DEF ReaderEnds, TypeOK
      <4>2. /\ Append(unregister[h], d) = unregister[h] \o <<d>> /\ <<d>> \in Seq(Clients)
            /\ Append(unregister[h], d)[Len(unregister[h]) + 1] = d
            /\ Len(Append(unregister[h], d)) = Len(unregister[h]) + 1
        BY <4>1, AppendIsConcat, AppendProperties
      <4> HIDE DEF h
      <4>3. c # d
        <5>1. unregister'[h] = Append(unregister[h], d)
          BY <1>1, <4>1 DEF TypeOK
        <5>2. Len(unregister[h]) + 1 \in 1..Len(unregister'[h])
          BY <4>1, <4>2, <5>1
        <5>3. home'[d] = h
          BY <4>1 DEF h
        <5> QED BY <2>1, <4>2, <5>1, <5>2, <5>3 DEF Leaving
      <4>4. unregister' = [unregister EXCEPT ![h] = @ \o <<d>>]
        BY <4>1, <4>2
      <4> QED BY <1>1, <2>1, <4>1, <4>2, <4>3, <4>4, LeavingStays DEF TypeOK
    <3>2. CASE ServeWS(d)
      BY <1>1, <2>1, <3>2 DEF ServeWS, Leaving, TypeOK
    <3>3. CASE ReadFails(d)
      BY <1>1, <2>1, <3>3 DEF ReadFails, hub, Leaving, TypeOK
    <3>4. CASE PeerLeaves(d) \/ Pong(d) \/ WriteEvent(d) \/ WriterEnds(d)
      BY <2>3, <3>4 DEF PeerLeaves, Pong, WriteEvent, WriterEnds, hub, pumps
    <3> QED BY <2>4, <3>1, <3>2, <3>3, <3>4 DEF ClientStep
  <2>5. ASSUME NEW p \in Processes, HubStep(p) PROVE reader[c] = "done" /\ ~Leaving(c)
    <3>1. CASE RunRegister(p)
      BY <2>3, <3>1 DEF RunRegister, pumps
    <3>2. CASE RunUnregister(p)
      <4>1. reader' = reader
        BY <3>2 DEF RunUnregister
      <4> QED BY <1>1, <2>1, <3>2, <4>1, LeavingBehindHead
    <3>3. CASE \E u \in Users : DisconnectUser(p, u)
      BY <2>3, <3>3 DEF DisconnectUser
    <3>4. ASSUME NEW u \in Users, Deliver(p, u) PROVE reader[c] = "done" /\ ~Leaving(c)
      <4>1. PICK s \in Seq(userClients[p][u]) : unregister' = [unregister EXCEPT ![p] = @ \o s]
        BY <1>1, <3>4, DeliverQueues
      <4>2. s \in Seq(Clients)
        BY <1>1, SeqMonotonic DEF TypeOK
      <4>3. UNCHANGED <<home, reader>>
        BY <3>4 DEF Deliver
      <4> QED BY <1>1, <2>1, <4>1, <4>2, <4>3, LeavingStays
    <3> QED BY <2>5, <3>1, <3>2, <3>3, <3>4 DEF HubStep
  <2>6. ASSUME NEW u \in Users, Expire(u) \/ \E k \in Tasks : RunTask(u, k)
        PROVE  reader[c] = "done" /\ ~Leaving(c)
    BY <2>3, <2>6 DEF Expire, RunTask, hub, pumps
  <2>7. CASE UNCHANGED vars
    BY <2>3, <2>7 DEF vars, hub, pumps
  <2> QED BY <1>1, <2>4, <2>5, <2>6, <2>7 DEF Next
<1>2. TypeOK /\ [Next]_vars => [\A c \in Clients : Stranded(c)' /\ ~Stranded(c) => c \notin clients]_vars
  BY <1>1
<1> QED BY <1>2, TypeCorrect, PTL DEF Spec, NoneStranded

-----------------------------------------------------------------------------
(* A handshake or a logout does to the hub what the hub allows anyway.      *)
LEMMA LogoutStep == LNext => [Next]_vars
<1> SUFFICES ASSUME LNext PROVE [Next]_vars
  OBVIOUS
<1>1. ASSUME NEW c \in Clients, VerifyWSToken(c) \/ Upgrade(c) PROVE [Next]_vars
  BY <1>1 DEF VerifyWSToken, Upgrade, Next, ClientStep
<1>2. ASSUME NEW p \in Processes, NEW u \in Users, Logout(p, u) \/ RunDisconnect(p, u)
      PROVE  [Next]_vars
  BY <1>2 DEF Logout, RunDisconnect, Next, HubStep
<1>3. CASE Onward
  BY <1>3 DEF Onward, Next, ClientStep, HubStep
<1> QED BY <1>1, <1>2, <1>3 DEF LNext

(* So the composition implements the hub, and what is proved of the hub     *)
(* holds while users log out and sockets are being opened: what a logout    *)
(* may miss is a connection, never the hub's own consistency.               *)
THEOREM LogoutKeepsHub == LSpec => Spec /\ []NoPanic /\ NoneStranded
<1>1. LSpec => LInit /\ [][LNext]_allVars
  BY PTL DEF LSpec
<1>2. LInit => Init
  BY DEF LInit
<1>3. [LNext]_allVars => [Next]_vars
  BY LogoutStep DEF allVars
<1>4. LSpec => Spec
  BY <1>1, <1>2, <1>3, PTL DEF Spec
<1> QED BY <1>4, HubNeverPanics, NoneStrandedInHub
=============================================================================
