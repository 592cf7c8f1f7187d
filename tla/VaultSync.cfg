SPECIFICATION VSFairSpec
CONSTANTS
    Chans = {c1}
    Notes = {n1, n2}
    Nil = Nil
    BufCap = 1
    MaxSubs = 2
    ItemIds = {1, 2}
    ItemTypes = {"credential"}
    ListMax = 2
    ListDefault = 2
    CatchUpLimit = 3
CHECK_DEADLOCK FALSE
INVARIANTS
    VersionsDistinct
    OnlyTheGapIsLost
PROPERTIES
    LiveUpdateStreamed
    CallsEnd
