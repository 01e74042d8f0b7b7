\* Two rows, two concurrent requests, three writes, pages of one entry, one fault.
SPECIFICATION FairSpec
CONSTANTS
    Ids = {x, y}
    Bodies = {b1}
    NoRow = NoRow
    Writers = {w1, w2}
    Limit = 1
    MaxWrites = 3
    MaxFaults = 1
INVARIANT CursorSound
PROPERTIES Mirrors Converges
CHECK_DEADLOCK FALSE
