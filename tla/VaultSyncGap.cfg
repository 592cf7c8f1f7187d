SPECIFICATION VSSpec
CONSTANTS
    Chans = {c1}
    Notes = {n1, n2}
    Nil = Nil
    BufCap = 2
    MaxSubs = 2
    ItemIds = {1}
    ItemTypes = {"credential"}
    ListMax = 2
    ListDefault = 2
    CatchUpLimit = 3
CHECK_DEADLOCK FALSE
INVARIANT CatchUpMissesNothing
