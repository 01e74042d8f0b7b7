------------------------------ MODULE MCReads ------------------------------
(***************************************************************************)
(* An instance of Reads for TLC.                                           *)
(***************************************************************************)
EXTENDS Reads

\* A home with a workspace w, which holds a repository p (with a part s) and a
\* plain project q; the engine's directory with one skill; a temporary root.
HomeDir == <<"h">>
W == <<"h", "w">>
P == <<"h", "w", "p">>
S == <<"h", "w", "p", "s">>
Q == <<"h", "w", "q">>
A == <<"h", ".linggen", "skills", "a">>
AllDirs == {<<>>, HomeDir, W, P, S, Q, <<"h", ".linggen">>, <<"h", ".linggen", "skills">>, A, <<"t">>}
AllNames == {"h", "w", "p", "s", "q", "t", "a", ".linggen", "skills"}
AllMarked == {P, S}
Repos == {P}
TempDirs == {<<"t">>}
NoNames == {".linggen"}
AllStarts == {W, P}
AllStands == {S, A}

Say(text, from, tier, indexed, stamped) ==
    [text |-> text, type |-> "fact", from |-> from, account |-> Owner, old |-> text = "x",
     indexed |-> indexed, tier |-> tier, global |-> FALSE, stamped |-> stamped]
AllSayings == {
    Say("x", "user", "semantic", TRUE, TRUE),
    Say("x", "derived", Unset, FALSE, TRUE),
    Say("y", "derived", "semantic", FALSE, FALSE)}

\* A guest on the owner's machine, a row about who the owner is, and one text
\* under two types.
OddSayings == {
    Say("y", "user", "semantic", TRUE, TRUE),
    Say("y", "derived", "core", FALSE, TRUE),
    [Say("y", "user", Unset, FALSE, TRUE) EXCEPT !.account = "guest"],
    [Say("y", "user", Unset, FALSE, TRUE) EXCEPT !.type = "decision"]}
OddStands == {S, Q, A}
OddPurges == {[Plain EXCEPT !.type = "decision", !.table = "episodic", !.ttl = TRUE]}

Swap == Permutations(RowIds)
AllAsks == {[Plain EXCEPT !.root = "here"]}
AllPurges == {
    [Plain EXCEPT !.from = "derived", !.table = "semantic"],
    [Plain EXCEPT !.type = "fact", !.table = "episodic"]}
TwoLikeness == [x |-> 60, y |-> 45]
=============================================================================
