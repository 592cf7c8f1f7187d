SPECIFICATION FairSpec
CONSTANTS
    Ids = {i1, i2}
    First = {i1}
    Kinds = {"login", "file"}
    Slots = {s1, s2}
    MaxPassword = 1
    MaxHistory = 1
    MaxCommands = 2
    MaxFailures = 1
    Nil = Nil
    Gone = Gone
CHECK_DEADLOCK FALSE
INVARIANTS
    TypeOK
    ScreenHasItsData
    ListIsAsAnnounced
    SerialWritesForgetNothing
PROPERTY SyncingEnds
