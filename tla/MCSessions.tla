----------------------------- MODULE MCSessions -----------------------------
(* The requests of an instance are interchangeable, within their kinds.     *)
EXTENDS Sessions, TLC

Symmetry == Permutations(Revokers) \union Permutations(Visitors)
=============================================================================
