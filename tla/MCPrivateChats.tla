--------------------------- MODULE MCPrivateChats ---------------------------
(* Users are compared, so they are numbers; no symmetry, for the liveness   *)
(* properties.                                                              *)
EXTENDS PrivateChats
=============================================================================
