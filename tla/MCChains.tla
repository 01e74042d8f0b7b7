------------------------------ MODULE MCChains -----------------------------
(***************************************************************************)
(* An instance of Chains for TLC.                                          *)
(***************************************************************************)
EXTENDS Chains, TLC

Note(marked, cites) ==
    [from |-> "derived", tier |-> "semantic", marked |-> marked, cites |-> cites, quiet |-> TRUE]
Written(n, f(_)) == [i \in Ids |-> IF i <= n THEN f(i) ELSE NoRow]

\* Closeness by the pairs that have one; all others are far.
Near(pairs) == [i \in Ids |-> [j \in Ids |->
    LET same == {q \in DOMAIN pairs : {q[1], q[2]} = {i, j}}
    IN  IF same = {} THEN 0 ELSE pairs[CHOOSE q \in same : TRUE]]]

\* Every closeness of four notes, for the clusters alone.
Pairs(n) == {p \in (1 .. n) \X (1 .. n) : p[1] < p[2]}
Still == {[rows |-> Written(4, LAMBDA i : Note(FALSE, {})), near |-> Near(c)] : c \in [Pairs(4) -> {0, 2, 3}]}

\* Three notes of one subject; two of them marked; the third citing the first.
Trio == Near(<<1, 2>> :> 2 @@ <<1, 3>> :> 2 @@ <<2, 3>> :> 1)
Moving == {
    [rows |-> Written(3, LAMBDA i : Note(i < 3, {})), near |-> Trio],
    [rows |-> Written(3, LAMBDA i : Note(i < 3, IF i = 3 THEN {1} ELSE {})), near |-> Trio]}
AllWorlds == Still \cup Moving
FiveIds == 1 .. 5
=============================================================================
