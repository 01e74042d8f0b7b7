----------------------------- MODULE MCChangeLog -----------------------------
(***************************************************************************)
(* Instances of ChangeLog for TLC: two long-term rows and one session row. *)
(***************************************************************************)
EXTENDS ChangeLog

CONSTANTS a, b, c

MCSemantic == {a, b}
MCEpisodic == {c}

\* A store whose rows were all long-term when its log began.
MCLongTermOnly == {a, b}

\* A store with rows in both tables when its log began.
MCBothTables == {a, b, c}
=============================================================================
