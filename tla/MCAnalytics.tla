------------------------------ MODULE MCAnalytics ------------------------------
(* Instances of Analytics for TLC: a shared browser and one nobody logs in on. *)
EXTENDS Analytics, TLC

CONSTANT shared


SharedHousehold == [b \in Browser |-> IF b = shared THEN Account ELSE {}]

Symmetry == Permutations(Request) \cup Permutations(Account)
================================================================================
