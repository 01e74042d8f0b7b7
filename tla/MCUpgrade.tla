----------------------------- MODULE MCUpgrade -----------------------------
(***************************************************************************)
(* Instances of Upgrade for TLC.                                           *)
(***************************************************************************)
EXTENDS Upgrade

V1 == {"lists", "cwd"}
V2 == {"summary", "scope"}
Hooked == {"lists", "hook", "cwd"}
Twice == {"lists", "hook", "summary", "cwd"}

TwoCalls == <<"first", "second">>

\* A store whose tables have these columns.
Holding(s, e, v) == [cols |-> [t \in Tables |-> IF t = "semantic" THEN s ELSE e], sidecar |-> v]

\* No store yet; one of the first releases, without a sidecar, one table with a
\* hook column; one that both namings were added to, whose reshaping was cut
\* short; and one that a newer release wrote.
AllStores == {
    Holding({}, {}, NoVersion), Holding(Hooked, V1, NoVersion),
    Holding(V2, Twice, 1), Holding(V2, V2, 3)}
=============================================================================
