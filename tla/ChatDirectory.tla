--------------------------- MODULE ChatDirectory ---------------------------
(***************************************************************************)
(* What private chats promise their users: a directory with one chat for   *)
(* any two users, whoever asks for it first, which stays until both are    *)
(* gone for good and is then given to nobody else.                         *)
(***************************************************************************)
CONSTANTS Users, Chats

VARIABLES
  between,  \* the two users of each chat that is open, {} for the others
  gone      \* users that no longer exist

vars == <<between, gone>>

Pairs == {p \in SUBSET Users : \E u, v \in p : u # v /\ p = {u, v}}

Init ==
  /\ between = [c \in Chats |-> {}]
  /\ gone = {}

Open(c, p) ==
  /\ between[c] = {} /\ p \cap gone = {}
  /\ \A d \in Chats : between[d] # p
  /\ between' = [between EXCEPT ![c] = p]
  /\ UNCHANGED gone

Leave(u) ==
  /\ gone' = gone \cup {u}
  /\ UNCHANGED between

Close(c) ==
  /\ between[c] \subseteq gone
  /\ between' = [between EXCEPT ![c] = {}]
  /\ UNCHANGED gone

Next ==
  \/ \E c \in Chats : Close(c) \/ \E p \in Pairs : Open(c, p)
  \/ \E u \in Users : Leave(u)

Spec == Init /\ [][Next]_vars
=============================================================================
