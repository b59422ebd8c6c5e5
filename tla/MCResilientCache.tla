-------------------------- MODULE MCResilientCache --------------------------
(* Instances of ResilientCache for TLC. *)
EXTENDS ResilientCache, TLC

Symmetry == Permutations(Caller) \cup Permutations(Pod) \cup Permutations(Key)
================================================================================
