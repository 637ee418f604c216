---------------------------- MODULE MCOwnership ----------------------------
(* Two requests in flight between two users, with the history of those that *)
(* were overtaken.                                                          *)
EXTENDS GroupOwnership, TLC

CONSTANTS u1, u2, h1, h2

MCUsers == {u1, u2}
MCHandlers == {h1, h2}
Symmetry == Permutations(MCUsers) \cup Permutations(MCHandlers)
=============================================================================
