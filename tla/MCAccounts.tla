------------------------------ MODULE MCAccounts ------------------------------
(* Instances of Accounts for TLC. *)
EXTENDS Accounts, TLC

Symmetry == Permutations(Request) \cup Permutations(Email) \cup Permutations(Token)
================================================================================
