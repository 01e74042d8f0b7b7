CONSTANTS
    Names <- AllNames
    Dirs <- AllDirs
    Home <- HomeDir
    Marked <- AllMarked
    GitRoots <- Repos
    Temp <- TempDirs
    Skipped <- NoNames
    NoDir = NoDir
    RowIds = {i1, i2}
    Calls = {c1}
    Starts <- AllStarts
    Stands <- AllStands
    Sayings <- AllSayings
    Named = {}
    Asks <- AllAsks
    Purges <- AllPurges
    Likeness <- TwoLikeness
    Floor = 40
    Owner = Owner
    Unset = Unset
    NoRow = NoRow
SPECIFICATION ReadsSpec
SYMMETRY Swap
CHECK_DEADLOCK FALSE
INVARIANTS ShownIsUsable WrittenIsListed Apart ForgetExact
