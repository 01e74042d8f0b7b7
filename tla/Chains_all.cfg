CONSTANTS
    Ids <- FiveIds
    MinRows = 3
    MaxRows = 3
    Worlds <- AllWorlds
    Changing <- Moving
    MaxItems = 4
    MaxDeaths = 1
    MaxSpoken = 1
    Overlap = FALSE
    NoRow = NoRow
    Gone = Gone
    Missing = Missing
    Torn = Torn
SPECIFICATION ChainsSpec
CHECK_DEADLOCK FALSE
INVARIANTS ClustersSound  
PROPERTY MarkersReached
