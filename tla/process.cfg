SPECIFICATION MCSpec
CONSTANTS
    p1 = p1  p2 = p2
    r1 = r1  r2 = r2
    h1 = h1  h2 = h2  b1 = b1  b2 = b2
    t1 = t1  t2 = t2   f1 = f1  f2 = f2  f3 = f3
    Instances = {p1, p2}
    Requests = {r1, r2}
    Received = {"refresh", "reuse", "revokeSession", "revokeChain", "createInvite", "begin", "finish", "login", "clone"}
    MaxConns = 1
    Latest = 2
    CountInvites = 2
    MaxStarts = 2
    None = None
    Callers = {r1, r2}
    Holders = {h1, h2}
    Buffers = {b1, b2}
    BatchSize = 2
    MaxCalls = 3
    NoObject = NoObject
    Tasks = {t1, t2}
    Finals = {f1, f2, f3}
    Owner = Owner
    By <- MCBy
    u1 = u1  u2 = u2  s1 = s1  s2 = s2  s3 = s3  x = x  n1 = n1  n2 = n2
    u0 = u0  ua = ua  c1 = c1  c2 = c2  m1 = m1  m2 = m2
    i1 = i1  i2 = i2  i3 = i3  j1 = j1  j2 = j2
    main = main
    a1 = a1  a2 = a2
    NoRow = NoRow
    Nothing = Nothing
INVARIANTS
    ProcessTypeOK
    CommittedWhole
    ServesTheRoot
    CodesHandedOut
    CallersApart
    WaitTellsAll
PROPERTIES
    NothingHangs
    EveryRequestAnswered
