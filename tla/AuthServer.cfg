SPECIFICATION Spec
CONSTANTS
    Names = {"alice"}
    Emails = {""}
    Reqs = {r1, r2, r3, r4, r5, r6}
    AccessTTL = 2
    RefreshTTL = 1
    MaxNow = 2
    MaxTotp = 1
    Intercepted = FALSE
CHECK_DEADLOCK FALSE
SYMMETRY ReqSymmetry
INVARIANTS
    RequiredImpliesConfirmed
    TokensComeFromLiveSessions
    EnrolledNeedsCode
