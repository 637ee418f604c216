---------------------------- MODULE SocketLogout ----------------------------
(***************************************************************************)
(* Logging out while a WebSocket is being opened: the hub composed with    *)
(* the two halves of a handshake (VerifyWSToken checks the token, ServeWS  *)
(* registers the upgraded connection) and with Logout (the token is        *)
(* blacklisted, then `go DisconnectUser').  Each user has one token.       *)
(***************************************************************************)
EXTENDS Hub

VARIABLES
  loggedOut,    \* users whose token has been blacklisted
  verified,     \* connections whose token VerifyWSToken has accepted
  disconnects   \* `go DisconnectUser' goroutines not yet run

session == <<loggedOut, verified, disconnects>>
allVars == <<vars, session>>

LInit ==
  /\ Init
  /\ loggedOut = {}
  /\ verified = {}
  /\ disconnects = {}

VerifyWSToken(c) ==
  /\ conn[c] = "none" /\ UserOf[c] \notin loggedOut
  /\ verified' = verified \cup {c}
  /\ UNCHANGED <<vars, loggedOut, disconnects>>

Upgrade(c) == c \in verified /\ ServeWS(c) /\ UNCHANGED session

Logout(p, u) ==
  /\ u \notin loggedOut
  /\ loggedOut' = loggedOut \cup {u}
  /\ disconnects' = disconnects \cup {<<p, u>>}
  /\ UNCHANGED <<vars, verified>>

RunDisconnect(p, u) ==
  /\ <<p, u>> \in disconnects
  /\ disconnects' = disconnects \ {<<p, u>>}
  /\ DisconnectUser(p, u) \/ (userClients[p][u] = {} /\ UNCHANGED vars)
  /\ UNCHANGED <<loggedOut, verified>>

(* The connection's own steps once it is open, and the hub's.               *)
Onward ==
  /\ \/ \E c \in Clients :
          PeerLeaves(c) \/ Pong(c) \/ ReadFails(c) \/ ReaderEnds(c) \/ WriteEvent(c) \/ WriterEnds(c)
     \/ \E p \in Processes : RunRegister(p) \/ RunUnregister(p) \/ \E u \in Users : Deliver(p, u)
     \/ \E u \in Users : Expire(u) \/ \E k \in Tasks : RunTask(u, k)
  /\ UNCHANGED session

LNext ==
  \/ \E c \in Clients : VerifyWSToken(c) \/ Upgrade(c)
  \/ \E p \in Processes, u \in Users : Logout(p, u) \/ RunDisconnect(p, u)
  \/ Onward

LSpec ==
  /\ LInit /\ [][LNext]_allVars
  /\ Fairness
  /\ \A p \in Processes, u \in Users : WF_allVars(RunDisconnect(p, u))
-----------------------------------------------------------------------------
(* "Invalidate the current access token and disconnect WebSocket." (the API *)
(* description of Logout): a user who has logged out ends up, and stays,    *)
(* without a connection.                                                    *)
LogoutDisconnects ==
  \A u \in Users : (u \in loggedOut) ~> [](~Connected(u))
=============================================================================
