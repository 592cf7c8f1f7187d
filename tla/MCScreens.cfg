SPECIFICATION MCSpec
CONSTANTS
    Cmds = {c1, c2}
    None = None
    Listings <- MCListings
    Letters = {2}
    MaxQuery = 1
    Widths = {95}
    MaxCopies = 2
    MaxLoads = 2
    MinLength = 4
    MaxLength = 5
    StartLength = 5
    MinWords = 2
    MaxWords = 3
    StartWords = 2
    NumSeps = 2
    Tries = 2
    PanelWidth = 54
    Workers = {w1, w2}
    MaxRefresh = 2
    MaxOpens = 2
    NoGen = NoGen
    Texts = {" ", "x"}
    MaxTyped = 2
    MaxSaves = 2
    MaxFlags = 2
    MaxRow = 4
    MaxPanel = 2
    WindowWidths = {1, 5, 8}
    WindowHeights = {2, 4}
CHECK_DEADLOCK FALSE
INVARIANTS
    ScreensTypeOK
    FormFitsUntilStrayError
    SignedInWhole
    ViewIsRight
    ClearOnlyWhereAsked
    PreviewIsAsAsked
    SavedIsShown
    PanelLiesOver
PROPERTIES
    KindKept
    ScreensEnd
