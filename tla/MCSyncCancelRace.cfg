SPECIFICATION Spec
CONSTANTS
    Chans = {c1, c2, c3}
    Notes = {n1}
    Nil = Nil
    BufCap = 1
    MaxSubs = 3
    MaxActors = 4
CHECK_DEADLOCK FALSE
INVARIANT CancelRemovesSubscriber
