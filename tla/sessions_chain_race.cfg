SPECIFICATION Spec
CONSTANTS
    u1 = u1  u2 = u2
    s1 = s1  s2 = s2  s3 = s3
    r1 = r1  r2 = r2  r3 = r3
    n1 = n1  n2 = n2  n3 = n3
    Users <- MCUsers
    Tokens <- MCTokens
    Requests = {r1, r2}
    NewID <- MCNewID
    InitTable <- MCInitTable
    Descendants <- MCDescendants
    RefreshTTL = 2
    MaxTime = 0
    MaxInFlight = 2
    Handlers = {"refresh", "revokeChain"}
    NoRow = NoRow
    None = None
INVARIANTS
    ChainLeavesNoHeir
