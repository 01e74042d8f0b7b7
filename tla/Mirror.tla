-------------------------------- MODULE Mirror --------------------------------
(***************************************************************************)
(* What replication promises, without tables, pages or cursors: a copy of  *)
(* some data, and the ids the copy is still owed.  Only an owed id may     *)
(* differ, a change makes its id owed before anyone can miss it, and a     *)
(* debt is struck off only when the copy is right.                         *)
(***************************************************************************)
CONSTANTS Ids, Views

VARIABLES
    main,   \* what the primary shows for each id
    copy,   \* what the replica shows for each id
    owed    \* the ids the copy may be wrong about

vars == <<main, copy, owed>>

TypeOK ==
    /\ main \in [Ids -> Views]
    /\ copy \in [Ids -> Views]
    /\ owed \subseteq Ids

Init ==
    /\ TypeOK
    /\ \A id \in Ids \ owed : copy[id] = main[id]

\* The primary changes some rows.
Change ==
    \E S \in SUBSET Ids :
        /\ main' \in [Ids -> Views]
        /\ \A id \in Ids \ S : main'[id] = main[id]
        /\ owed' = owed \cup S
        /\ UNCHANGED copy

\* The replica rewrites rows it is owed.
Copy ==
    /\ copy' \in [Ids -> Views]
    /\ \A id \in Ids \ owed : copy'[id] = copy[id]
    /\ UNCHANGED <<main, owed>>

\* The replica is level on some rows and knows it.
Settle ==
    \E S \in SUBSET owed :
        /\ \A id \in S : copy[id] = main[id]
        /\ owed' = owed \ S
        /\ UNCHANGED <<main, copy>>

\* The replica forgets how far it was and will ask again.
Recall ==
    \E S \in SUBSET Ids :
        /\ owed' = owed \cup S
        /\ UNCHANGED <<main, copy>>

Next == Change \/ Copy \/ Settle \/ Recall

Spec == Init /\ [][Next]_vars
=============================================================================
