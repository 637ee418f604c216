----------------------------- MODULE MCAccounts -----------------------------
(* Accounts, addresses and requests of an instance are interchangeable.     *)
EXTENDS Accounts, TLC

Symmetry == Permutations(Users) \union Permutations(Emails) \union Permutations(Requests)
=============================================================================
