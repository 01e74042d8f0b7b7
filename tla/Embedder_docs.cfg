\* Clients that give up, and a command beside the daemon.  What comments say and
\* the code does not keep: OnePass, OneLoad, RefIsWhole (each in the last line).
\* With CanLeave = FALSE, Commands = {} and FairSpec all of these hold, and Answered.
SPECIFICATION Spec
CONSTANTS
    Calls = {w, c1, c2}
    Warm = w
    Commands = {t}
    Files = 2
    CanLeave = TRUE
    MaxFaults = 2
    Nobody = Nobody
CHECK_DEADLOCK FALSE
INVARIANT OnePass
