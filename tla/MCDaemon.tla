------------------------------ MODULE MCDaemon ------------------------------
(***************************************************************************)
(* Instances of Daemon for TLC.                                            *)
(***************************************************************************)
EXTENDS Daemon, TLC

V1 == <<1, 9>>
V2 == <<2>>

Symmetry == Permutations(Daemons) \cup Permutations(Tools)
=============================================================================
