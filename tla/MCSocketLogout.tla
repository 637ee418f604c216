--------------------------- MODULE MCSocketLogout ---------------------------
(* One process, one user, one connection.                                   *)
EXTENDS SocketLogout

CONSTANTS u1, c1

MCUserOf == [c \in {c1} |-> u1]
=============================================================================
