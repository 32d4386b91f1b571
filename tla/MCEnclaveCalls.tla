--------------------------- MODULE MCEnclaveCalls ---------------------------
(* Instances of EnclaveCalls for TLC. *)
EXTENDS EnclaveCalls, TLC

Symmetry == Permutations(Enclaves) \cup Permutations(Threads)
=============================================================================
