SPECIFICATION Spec
CONSTANTS
    root = root  ua = ua  c1 = c1  c2 = c2  c3 = c3  n1 = n1  n2 = n2  n3 = n3
    i1 = i1  i2 = i2  i3 = i3  j1 = j1  j2 = j2  j3 = j3
    r1 = r1  r2 = r2  r3 = r3
    main = main  decoy = decoy
    Users <- MCUsers
    Root = root
    InviteIDs <- MCInviteIDs
    Requests = {r1, r2}
    NewInvite <- MCNewInvite
    NewUser <- MCNewUser
    InitUsers <- MCInitUsers
    InitInvites <- MCInitInvites
    InitChallenges <- MCInitChallenges
    Scopes <- MCScopes
    KeyLists <- MCKeyLists
    MaxKeys = 1
    MaxActive = 1
    TTL = 1
    RootTTL = 2
    ChallengeTTL = 1
    CheckedAtCommit = FALSE
    Wirings <- MCWired
    MaxTime = 1
    MaxInFlight = 2
    Handlers = {"begin", "finish"}
    NoRow = NoRow
    None = None
INVARIANTS
    OpenInviteAdmits
