SPECIFICATION MCSpec
CONSTANTS
    Chans = {c1, c2, c3}
    Notes = {n1, n2, n3}
    Nil = Nil
    BufCap = 2
    MaxSubs = 3
    MaxActors = 5
SYMMETRY Symmetry
CHECK_DEADLOCK FALSE
INVARIANTS
    TypeOK
    RegistryExact
    ClosedIsLeftAlone
    ExactlyOnceUnlessOverlapped
    CallOrderKept
PROPERTY KeepsPromise
