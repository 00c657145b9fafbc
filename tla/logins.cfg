SPECIFICATION Spec
CONSTANTS
    ua = ua  ub = ub  a1 = a1  a2 = a2  b1 = b1  s1 = s1  s2 = s2  t = t
    Creds = {a1, a2, b1}
    Users = {ua, ub}
    Owner <- MCOwner
    InitCount <- MCInitCount
    Assertions <- MCAssertions
    Requests = {r1, r2, r3, r4}
    OldSessions = {s1, s2, t}
    OldOwner <- MCOldOwner
    MaxInFlight = 3
    r1 = r1  r2 = r2  r3 = r3  r4 = r4
    None = None
SYMMETRY MCSymmetry
INVARIANTS
    TypeOK
    CloneHasCause
    CloneLeavesNoSession
    LoneCountOpensOnce
PROPERTIES
    AnswersHold
    LoneRevocationSticks
