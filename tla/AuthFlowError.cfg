SPECIFICATION FairSpec
CONSTANTS
    Cmds = {c1, c2}
    None = None
CHECK_DEADLOCK FALSE
PROPERTY ErrorReturnsToItsStep
