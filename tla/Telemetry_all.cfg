CONSTANTS
    r1 = r1
    r2 = r2
    Calls = {r1, r2}
    Versions <- OneVersion
    Backlog = 1
    Days <- ThreeDays
    MaxCounts = 2
    MaxFails = 2
    MaxStops = 1
    Torn = Torn
    Boot = Boot
    Task = Task
    Nobody = Nobody
SPECIFICATION TelSpec
CHECK_DEADLOCK FALSE
INVARIANTS CountsKept SentOnce DaysNoted
PROPERTY DaysShipped
