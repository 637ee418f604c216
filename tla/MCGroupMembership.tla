------------------------- MODULE MCGroupMembership -------------------------
(* Two requests in flight among three users.                                *)
EXTENDS GroupMembership, TLC

CONSTANTS u1, u2, u3, h1, h2

MCUsers == {u1, u2, u3}
MCHandlers == {h1, h2}
Symmetry == Permutations(MCUsers) \cup Permutations(MCHandlers)
=============================================================================
