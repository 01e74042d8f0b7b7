\* A store whose log begins with the daemon: pages, compaction, deaths, a cut append.
SPECIFICATION FairSpec
CONSTANTS
    a = a
    b = b
    c = c
    Semantic <- MCSemantic
    Episodic <- MCEpisodic
    Existing <- MCLongTermOnly
    Limit = 2
    CompactMin = 3
    CompactRatio = 2
    MaxSeq = 6
    MaxCrashes = 2
    MaxCuts = 1
INVARIANTS CursorCovers LossBounded
PROPERTY CatchesUp
