-------------------------------- MODULE Hub --------------------------------
(***************************************************************************)
(* The WebSocket hub of every API process, the two goroutines of each of   *)
(* its connections, and the presence key in Redis the processes share.     *)
(*                                                                         *)
(* One step is one critical section of Hub.mu, one channel operation or    *)
(* one Redis command.  A connection is used once; what its peer, its       *)
(* deadlines or a Conn.Close do to it is the same to everyone who reads or *)
(* writes it: it is closed.                                                *)
(***************************************************************************)
EXTENDS Naturals, Sequences, FiniteSets

CONSTANTS
  Users,
  Processes,  \* API processes, one hub each
  Clients,    \* connections that may ever be opened
  UserOf,     \* the user each connection authenticates
  SendCap,    \* capacity of Client.Send (256 in the code)
  QueueCap    \* capacity of Hub.Register and Hub.Unregister (256)

ASSUME HubAssumption ==
  /\ IsFiniteSet(Clients)
  /\ UserOf \in [Clients -> Users]
  /\ SendCap \in Nat \ {0}
  /\ QueueCap \in Nat \ {0}

VARIABLES
  home,         \* the process each connection reaches: the load balancer's choice
  register,     \* Hub.Register of each process
  unregister,   \* Hub.Unregister of each process
  clients,      \* the connections in Hub.clients, over all processes
  userClients,  \* Hub.userClients; an empty set is an absent entry
  conn,         \* each connection: none, open or closed
  buffered,     \* events waiting in Client.Send
  closes,       \* close(client.Send) calls so far
  reader,       \* ReadPump: none, reading, leaving (in its defer) or done
  writer,       \* WritePump: none, running or done
  tasks,        \* goroutines spawned and not yet run, per user and kind
  online        \* the key online:<user> exists

hub == <<register, unregister, clients, userClients>>
pumps == <<conn, buffered, closes, reader, writer>>
vars == <<home, hub, pumps, tasks, online>>

Tasks == {"online", "offline", "keepAlive"}

Init ==
  /\ home \in [Clients -> Processes]
  /\ register = [p \in Processes |-> <<>>]
  /\ unregister = [p \in Processes |-> <<>>]
  /\ clients = {}
  /\ userClients = [p \in Processes |-> [u \in Users |-> {}]]
  /\ conn = [c \in Clients |-> "none"]
  /\ buffered = [c \in Clients |-> 0]
  /\ closes = [c \in Clients |-> 0]
  /\ reader = [c \in Clients |-> "none"]
  /\ writer = [c \in Clients |-> "none"]
  /\ tasks = [u \in Users |-> [k \in Tasks |-> 0]]
  /\ online = [u \in Users |-> FALSE]

CloseSend(S) == closes' = [c \in Clients |-> IF c \in S THEN closes[c] + 1 ELSE closes[c]]

(* `go broadcastUserStatus' and `go KeepAlive': kinds K of goroutines start *)
(* for u.                                                                   *)
Spawn(u, K) ==
  tasks' = [tasks EXCEPT ![u] = [k \in Tasks |-> IF k \in K THEN @[k] + 1 ELSE @[k]]]

-----------------------------------------------------------------------------
(* ServeWS: the upgraded connection is queued for registration, blocking    *)
(* while the queue is full, and its two pumps start.                        *)
ServeWS(c) ==
  LET p == home[c] IN
  /\ conn[c] = "none"
  /\ Len(register[p]) < QueueCap
  /\ register' = [register EXCEPT ![p] = Append(@, c)]
  /\ conn' = [conn EXCEPT ![c] = "open"]
  /\ reader' = [reader EXCEPT ![c] = "reading"]
  /\ writer' = [writer EXCEPT ![c] = "running"]
  /\ UNCHANGED <<home, unregister, clients, userClients, buffered, closes, tasks, online>>

(* Run, taking from Register: the user's first connection brings it online. *)
RunRegister(p) ==
  /\ register[p] # <<>>
  /\ LET c == Head(register[p])
         u == UserOf[c]
     IN
     /\ register' = [register EXCEPT ![p] = Tail(@)]
     /\ clients' = clients \cup {c}
     /\ userClients' = [userClients EXCEPT ![p][u] = @ \cup {c}]
     /\ Spawn(u, IF userClients[p][u] = {} THEN {"online", "keepAlive"} ELSE {"keepAlive"})
  /\ UNCHANGED <<home, unregister, pumps, online>>

(* Run, taking from Unregister: a connection no longer in Hub.clients is    *)
(* ignored; the user's last one takes it offline.                           *)
RunUnregister(p) ==
  /\ unregister[p] # <<>>
  /\ unregister' = [unregister EXCEPT ![p] = Tail(@)]
  /\ LET c == Head(unregister[p])
         u == UserOf[c]
     IN
     \/ /\ c \in clients
        /\ clients' = clients \ {c}
        /\ CloseSend({c})
        /\ userClients' = [userClients EXCEPT ![p][u] = @ \ {c}]
        /\ Spawn(u, IF userClients[p][u] = {c} THEN {"offline"} ELSE {})
     \/ /\ c \notin clients
        /\ UNCHANGED <<clients, closes, userClients, tasks>>
  /\ UNCHANGED <<home, register, conn, buffered, reader, writer, online>>

(* DisconnectUser, when a session of u is revoked: only the process that    *)
(* served the request disconnects its own connections.                      *)
DisconnectUserLeavingClients(p, u) ==
  LET S == userClients[p][u] IN
  /\ S # {}
  /\ CloseSend(S)
  /\ conn' = [c \in Clients |-> IF c \in S THEN "closed" ELSE conn[c]]
  /\ userClients' = [userClients EXCEPT ![p][u] = {}]
  /\ Spawn(u, {"offline"})
  /\ UNCHANGED <<home, register, unregister, clients, buffered, reader, writer, online>>

DisconnectUser(p, u) ==
  LET S == userClients[p][u] IN
  /\ S # {}
  /\ clients' = clients \ S
  /\ CloseSend(S)
  /\ conn' = [c \in Clients |-> IF c \in S THEN "closed" ELSE conn[c]]
  /\ userClients' = [userClients EXCEPT ![p][u] = {}]
  /\ Spawn(u, {"offline"})
  /\ UNCHANGED <<home, register, unregister, buffered, reader, writer, online>>

(* deliverToLocalClients: an event for u goes to every one of its           *)
(* connections that has room; the others are queued for removal, as many as *)
(* that queue has room for, and nothing ever waits.                         *)
DeliverToFull(p, u) ==
  /\ userClients[p][u] # {}
  /\ buffered' = [c \in Clients |-> IF c \in userClients[p][u]
                                    THEN buffered[c] + 1 ELSE buffered[c]]
  /\ UNCHANGED <<home, hub, conn, closes, reader, writer, tasks, online>>

Deliver(p, u) ==
  LET full == {c \in userClients[p][u] : buffered[c] = SendCap}
      room == QueueCap - Len(unregister[p])
      k == IF Cardinality(full) <= room THEN Cardinality(full) ELSE room
  IN
  /\ userClients[p][u] # {}
  /\ buffered' = [c \in Clients |-> IF c \in userClients[p][u] \ full
                                    THEN buffered[c] + 1 ELSE buffered[c]]
  /\ \E s \in {f \in [1..k -> full] : \A i, j \in 1..k : f[i] = f[j] => i = j} :
       unregister' = [unregister EXCEPT ![p] = @ \o s]
  /\ UNCHANGED <<home, register, clients, userClients, conn, closes, reader, writer, tasks, online>>

-----------------------------------------------------------------------------
(* The peer goes away, or stops answering pings for pongWait.               *)
PeerLeaves(c) ==
  /\ conn[c] = "open"
  /\ conn' = [conn EXCEPT ![c] = "closed"]
  /\ UNCHANGED <<home, hub, buffered, closes, reader, writer, tasks, online>>

(* ReadPump: a pong refreshes the presence key.                             *)
PongWithoutKeepAlive(c) ==
  /\ reader[c] = "reading" /\ conn[c] = "open" /\ writer[c] = "running"
  /\ UNCHANGED vars

Pong(c) ==
  /\ reader[c] = "reading" /\ conn[c] = "open" /\ writer[c] = "running"
  /\ online' = [online EXCEPT ![UserOf[c]] = TRUE]
  /\ UNCHANGED <<home, hub, pumps, tasks>>

(* A failed read ends the loop; the deferred send to Unregister waits for   *)
(* room, and only then is the connection closed.                            *)
ReadFails(c) ==
  /\ reader[c] = "reading" /\ conn[c] = "closed"
  /\ reader' = [reader EXCEPT ![c] = "leaving"]
  /\ UNCHANGED <<home, hub, conn, buffered, closes, writer, tasks, online>>

ReaderEndsSilently(c) ==
  /\ reader[c] = "leaving"
  /\ reader' = [reader EXCEPT ![c] = "done"]
  /\ UNCHANGED <<home, hub, conn, buffered, closes, writer, tasks, online>>

ReaderEnds(c) ==
  LET p == home[c] IN
  /\ reader[c] = "leaving"
  /\ Len(unregister[p]) < QueueCap
  /\ unregister' = [unregister EXCEPT ![p] = Append(@, c)]
  /\ reader' = [reader EXCEPT ![c] = "done"]
  /\ conn' = [conn EXCEPT ![c] = "closed"]
  /\ UNCHANGED <<home, register, clients, userClients, buffered, closes, writer, tasks, online>>

(* WritePump: it writes what is queued, and ends, closing the connection,   *)
(* once a write or a ping fails or Send is closed and drained.              *)
WriteEvent(c) ==
  /\ writer[c] = "running" /\ buffered[c] > 0 /\ conn[c] = "open"
  /\ buffered' = [buffered EXCEPT ![c] = @ - 1]
  /\ UNCHANGED <<home, hub, conn, closes, reader, writer, tasks, online>>

WriterEnds(c) ==
  /\ writer[c] = "running"
  /\ conn[c] = "closed" \/ (closes[c] > 0 /\ buffered[c] = 0)
  /\ writer' = [writer EXCEPT ![c] = "done"]
  /\ conn' = [conn EXCEPT ![c] = "closed"]
  /\ UNCHANGED <<home, hub, buffered, closes, reader, tasks, online>>

(* The Redis command of broadcastUserStatus or KeepAlive.                   *)
RunTask(u, k) ==
  /\ tasks[u][k] > 0
  /\ tasks' = [tasks EXCEPT ![u][k] = @ - 1]
  /\ online' = [online EXCEPT ![u] = (k # "offline")]
  /\ UNCHANGED <<home, hub, pumps>>

(* The key expires onlineUserTTL (70 s) after its last refresh; a           *)
(* registered connection whose peer answers refreshes it every pingPeriod   *)
(* (54 s), the first time when its KeepAlive goroutine has run.             *)
Refreshed(u) ==
  \E c \in clients : UserOf[c] = u /\ conn[c] = "open" /\ tasks[u]["keepAlive"] = 0

ExpireNever(u) == FALSE /\ UNCHANGED vars

Expire(u) ==
  /\ online[u] /\ ~Refreshed(u)
  /\ online' = [online EXCEPT ![u] = FALSE]
  /\ UNCHANGED <<home, hub, pumps, tasks>>

-----------------------------------------------------------------------------
ClientStep(c) ==
  \/ ServeWS(c) \/ PeerLeaves(c) \/ Pong(c) \/ ReadFails(c) \/ ReaderEnds(c)
  \/ WriteEvent(c) \/ WriterEnds(c)

HubStep(p) ==
  \/ RunRegister(p) \/ RunUnregister(p)
  \/ \E u \in Users : DisconnectUser(p, u) \/ Deliver(p, u)

Next ==
  \/ \E c \in Clients : ClientStep(c)
  \/ \E p \in Processes : HubStep(p)
  \/ \E u \in Users : Expire(u) \/ \E k \in Tasks : RunTask(u, k)

Spec == Init /\ [][Next]_vars

(* What the Go scheduler and the select of Run give: a goroutine that can   *)
(* run does, and neither queue is passed over for ever; a peer that stays   *)
(* answers pings, and Redis expires keys.  Nothing obliges anybody to       *)
(* connect, to leave, to send an event or to revoke a session.              *)
Fairness ==
  /\ \A p \in Processes : WF_vars(RunRegister(p)) /\ WF_vars(RunUnregister(p))
  /\ \A c \in Clients :
       /\ WF_vars(Pong(c)) /\ WF_vars(ReadFails(c)) /\ WF_vars(WriterEnds(c))
       /\ SF_vars(ReaderEnds(c))
  /\ \A u \in Users : WF_vars(Expire(u)) /\ \A k \in Tasks : WF_vars(RunTask(u, k))

FairSpec == Spec /\ Fairness
-----------------------------------------------------------------------------
WithinCapacity ==
  \A p \in Processes : Len(register[p]) <= QueueCap /\ Len(unregister[p]) <= QueueCap

(* The type invariant of the component, with the capacities of the three    *)
(* channels: Hub.Register, Hub.Unregister and Client.Send.                  *)
TypeOK ==
  /\ home \in [Clients -> Processes]
  /\ register \in [Processes -> Seq(Clients)]
  /\ unregister \in [Processes -> Seq(Clients)]
  /\ WithinCapacity
  /\ clients \subseteq Clients
  /\ userClients \in [Processes -> [Users -> SUBSET Clients]]
  /\ conn \in [Clients -> {"none", "open", "closed"}]
  /\ buffered \in [Clients -> 0..SendCap]
  /\ closes \in [Clients -> Nat]
  /\ reader \in [Clients -> {"none", "reading", "leaving", "done"}]
  /\ writer \in [Clients -> {"none", "running", "done"}]
  /\ tasks \in [Users -> [Tasks -> Nat]]
  /\ online \in [Users -> BOOLEAN]

(* The two maps of a hub always hold the same connections, so a connection  *)
(* the one has forgotten is not found through the other.                    *)
MapsAgree ==
  \A p \in Processes, u \in Users :
    userClients[p][u] = {c \in clients : home[c] = p /\ UserOf[c] = u}

(* No run panics: client.Send is closed at most once, whatever the order of *)
(* an overflow, a failed read and a DisconnectUser, and an event is never   *)
(* sent to a connection whose Send is closed.                               *)
NoPanic ==
  /\ \A c \in Clients : closes[c] <= 1
  /\ \A p \in Processes, u \in Users : \A c \in userClients[p][u] : closes[c] = 0

(* What keeps NoPanic: a connection waits in its own process's queues, at   *)
(* most once in Register and only before it is registered; it is in the     *)
(* maps only while its Send is open.                                        *)
Queued(p, c) == home[c] = p /\ conn[c] # "none" /\ c \notin clients /\ closes[c] = 0

WaitsToRegister ==
  \A p \in Processes : \A i \in 1..Len(register[p]) : Queued(p, register[p][i])

WaitsOnce ==
  \A p \in Processes : \A i, j \in 1..Len(register[p]) :
    register[p][i] = register[p][j] => i = j

WaitsAtHome ==
  \A p \in Processes : \A i \in 1..Len(unregister[p]) : home[unregister[p][i]] = p

NewUntouched ==
  \A c \in Clients : conn[c] = "none" =>
    c \notin clients /\ closes[c] = 0 /\ reader[c] = "none" /\ writer[c] = "none"

OpenInMaps == \A c \in clients : closes[c] = 0

HubInv ==
  /\ TypeOK /\ MapsAgree /\ NoPanic
  /\ WaitsToRegister /\ WaitsOnce /\ WaitsAtHome /\ NewUntouched /\ OpenInMaps

(* A connection registered while its ReadPump ran leaves the hub once it is *)
(* closed, even when Unregister is full of overflowing connections.  (One   *)
(* whose ReadPump ended before Run took it from Register is not covered:    *)
(* Run may take the two channels in either order.)                          *)
ClosedConnectionsLeave ==
  \A c \in Clients :
    (c \in clients /\ reader[c] = "reading" /\ conn[c] = "closed") ~> (c \notin clients)

(* A registered connection whose ReadPump has ended and which Unregister    *)
(* does not hold: nothing but a DisconnectUser will ever remove it.         *)
Leaving(c) ==
  \E i \in 1..Len(unregister[home[c]]) : unregister[home[c]][i] = c

Stranded(c) == c \in clients /\ reader[c] = "done" /\ ~Leaving(c)

(* Run and ReadPump hand a connection over without a gap: only a            *)
(* registration that comes after the end of its ReadPump strands one, never *)
(* an overflow, a revocation, a full queue or an order of removals.         *)
NoneStranded ==
  [][\A c \in Clients : Stranded(c)' /\ ~Stranded(c) => c \notin clients]_vars

Connected(u) == \E c \in clients : UserOf[c] = u /\ conn[c] = "open"

(* Presence heals: whatever order the status goroutines of a reconnecting   *)
(* user ran in, and whichever process deleted the shared key, a user who    *)
(* stays connected ends up, and stays, online.                              *)
PresenceUp == \A u \in Users : <>[]Connected(u) => <>[]online[u]

(* And a user with no open connection ends up offline, though a KeepAlive   *)
(* goroutine may set the key after the last offline status deleted it.      *)
PresenceDown ==
  \A u \in Users :
    <>[](\A c \in Clients : UserOf[c] = u => conn[c] # "open") => <>[](~online[u])
=============================================================================
