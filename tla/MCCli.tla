------------------------------- MODULE MCCli -------------------------------
(***************************************************************************)
(* An instance of Cli for TLC.                                             *)
(***************************************************************************)
EXTENDS Cli

FourIds == 1 .. 4
Empty == <<>>
Same == [s \in Contents \cup {None} |-> s]
Below == [d \in Dirs |-> {d}]
=============================================================================
