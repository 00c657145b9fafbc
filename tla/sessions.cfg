SPECIFICATION AloneSpec
CONSTANTS
    u1 = u1  u2 = u2
    s1 = s1  s2 = s2  s3 = s3
    r1 = r1  r2 = r2  r3 = r3
    n1 = n1  n2 = n2  n3 = n3
    Users <- MCUsers
    Tokens <- MCTokens
    Requests = {r1, r2, r3}
    NewID <- MCNewID
    InitTable <- MCInitTable
    Descendants <- MCDescendants
    RefreshTTL = 2
    MaxTime = 1
    MaxInFlight = 3
    Handlers = {"login", "clone", "refresh", "revokeSession", "revokeChain"}
    NoRow = NoRow
    None = None
SYMMETRY MCSymmetry
INVARIANTS
    TypeOK
    RotationKeepsGrant
    AnswersHold
    LoneChainLeavesNoHeir
PROPERTIES
    RevokedIsFinal
    RevocationHasCause
    NothingListedSurvives
    LedgerStale
    LoneLogoutEndsSession
    LoneLedger
