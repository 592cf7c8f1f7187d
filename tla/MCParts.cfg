SPECIFICATION MCSpec
CONSTANTS
    ItemIds = {1, 2, 3, 4}
    ItemTypes = {"credential", "otp"}
    ListMax = 2
    ListDefault = 2
    PageLimit = 3
    TypeFilter = "credential"
    MaxWrites = 1
    Words = {"mail", "bank"}
    Names = {{"mail"}, {"mail", "bank"}}
    MaxEdits = 1
    NoItem = NoItem
    Peers = {x}
    Requests = {r1, r2}
    Rate = 1
    Burst = 2
    StaleAge = 2
    MaxTicks = 6
    MaxPassed = 5
    NoLimiter = NoLimiter
    Unary = {u1, u2}
    Streams = {st}
    Migrations = 2
    MaxSignals = 3
    MaxStarts = 2
    Passwords = {pw1, pw2}
    MaxSaves = 2
    MaxLoads_db = 1
    MaxKeyfiles = 1
    Bits = 8
    DeriveLengths = {2, 3, 4}
    MinDerive = 3
    MaxDerive = 3
    KeyTypes = {"raw", "ed25519", "rsa2048", "p256", "p384", "other"}
    Seeds = {s1, s2}
    NoSeed = NoSeed
    MaxBlocks = 2
    MaxKeyRuns = 2
    Unread = Unread
    Guis = {g}
    Commands = {c}
    Accounts = {a1, a2}
    MaxSessions = 2
    MaxTokens = 2
    MaxCalls = 3
    Nobody = Nobody
CHECK_DEADLOCK FALSE
INVARIANTS
    PartsTypeOK
    NameMeansOne
    BurstIsTheMost
    ConfigFits
    CarriedOutOnce
    ConfigWhole
    CacheIsOwn
    LoadTellsTheTruth
    FairButForOneWord
    ReportedPairMatches
PROPERTIES
    DeletesWhatWasFound
    PartsEnd
