\* An edit, and an edit or add, a rewrite at the primary, failing saves, and one
\* outage, revocation or restart.
SPECIFICATION FairSpec
CONSTANTS
    Rows = {r}
    Writes = {w1, w2}
    Ops <- Kinds
    UserEdits = {u}
    None = None
    Base = Base
    Loop = Loop
    Nobody = Nobody
    Guards = TRUE
    CanRevoke = TRUE
    MaxFaults = 1
INVARIANTS  Accounted InOrder
PROPERTY Drains
CHECK_DEADLOCK FALSE
