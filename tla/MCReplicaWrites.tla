--------------------------- MODULE MCReplicaWrites ---------------------------
(***************************************************************************)
(* Instances of ReplicaWrites for TLC.                                     *)
(***************************************************************************)
EXTENDS ReplicaWrites, TLC

First == CHOOSE w \in Writes : TRUE
EditOrAdd(w) == IF w = First THEN {"edit"} ELSE {"add", "edit"}
Kinds == [w \in Writes |-> EditOrAdd(w)]
NoEdit == [w \in Writes |-> {"add", "replace", "delete"}]
Add == [w \in Writes |-> {"add"}]
Edit == [w \in Writes |-> {"edit"}]

Symmetry == Permutations(Writes)
=============================================================================
