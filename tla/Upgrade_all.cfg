CONSTANTS
    Rows = {"r"}
    Added = "added"
    Calls <- TwoCalls
    Words = {"w"}
    Edited = {"scope"}
    Stores <- AllStores
    Keep = 0
    Due = 1
    MaxWrites = 1
    MaxFaults = 1
    MaxTicks = 1
SPECIFICATION Spec
CHECK_DEADLOCK FALSE
INVARIANTS NeverAhead ListsKept ReadsTrue
 
