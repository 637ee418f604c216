---------------------------- MODULE MCMessaging ----------------------------
(* Users of an instance are interchangeable, and so are its requests.       *)
EXTENDS Messaging, TLC

Symmetry == Permutations(Users) \union Permutations(Requests)
=============================================================================
