CONSTANTS
    Daemons = {d1, d2}
    Tools = {t1, t2}
    Ports = {p1, p2}
    Kinds = {"start", "stop", "upgrade", "rollback", "write"}
    Installed <- V1
    Latest <- V2
    Nobody = nobody
    MaxFaults = 1
SPECIFICATION Spec
SYMMETRY Symmetry
CHECK_DEADLOCK FALSE
INVARIANTS NoOverlap  
PROPERTY AnswersTrue
