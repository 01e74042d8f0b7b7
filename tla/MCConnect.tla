------------------------------ MODULE MCConnect ------------------------------
(***************************************************************************)
(* Instances of Connect for TLC.                                           *)
(***************************************************************************)
EXTENDS Connect, TLC

Symmetry ==
    Permutations(Requests) \cup Permutations(Machines) \cup Permutations(Hosts)
=============================================================================
