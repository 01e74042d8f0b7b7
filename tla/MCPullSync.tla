------------------------------ MODULE MCPullSync ------------------------------
(***************************************************************************)
(* Instances of PullSync for TLC.                                          *)
(***************************************************************************)
EXTENDS PullSync, TLC

Symmetry == Permutations(Ids) \cup Permutations(Writers) \cup Permutations(Bodies)
=============================================================================
