\* Any two requests in parallel over two rows, and one failure or restart.
SPECIFICATION Spec
CONSTANTS
    Rows = {x, y}
    Requests = {r1, r2}
    Ops <- Op
    Voices <- Derived
    Texts = {c1, c2}
    None = None
    MaxFaults = 1
SYMMETRY Symmetry
INVARIANTS NoTwins PatchesStick NothingLost 
PROPERTY UserVoiceKept
CHECK_DEADLOCK FALSE
