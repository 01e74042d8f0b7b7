------------------------------- MODULE MCDream -------------------------------
(***************************************************************************)
(* Instances of Dream for TLC.                                             *)
(***************************************************************************)
EXTENDS Dream, TLC

OwnNames == [a \in Agents |-> a]

\* The name a host's sessions share: claude-code@<host>.
OneName == [a \in Agents |-> CHOOSE h \in Holders : TRUE]

Symmetry == Permutations(Rows) \cup Permutations(Days) \cup Permutations(Agents)
=============================================================================
