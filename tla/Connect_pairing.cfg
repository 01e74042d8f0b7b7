\* Two machines, two hosts, two requests, one restart or lost answer.
SPECIFICATION Spec
CONSTANTS
    Machines = {m1, m2}
    Hosts = {h1, h2}
    Requests = {r1, r2}
    None = None
    CanRevoke = TRUE
    MaxFaults = 1
SYMMETRY Symmetry
INVARIANTS TokenFits TokenWorks
CHECK_DEADLOCK FALSE
