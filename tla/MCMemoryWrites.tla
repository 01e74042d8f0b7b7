---------------------------- MODULE MCMemoryWrites ----------------------------
(***************************************************************************)
(* Instances of MemoryWrites for TLC.                                      *)
(***************************************************************************)
EXTENDS MemoryWrites, TLC

Derived == {"derived"}

Symmetry == Permutations(Rows) \cup Permutations(Requests) \cup Permutations(Texts)
=============================================================================
