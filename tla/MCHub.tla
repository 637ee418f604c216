------------------------------- MODULE MCHub -------------------------------
(* The hub on an instance: one user whose two connections may reach the     *)
(* same process or one each.                                                *)
EXTENDS Hub

CONSTANTS u1, p1, p2, c1, c2

MCUserOf == [c \in {c1, c2} |-> u1]

(* The processes are interchangeable: the first connection reaches p1.      *)
MCInit == Init /\ home[c1] = p1
MCSpec == MCInit /\ [][Next]_vars /\ Fairness
=============================================================================
